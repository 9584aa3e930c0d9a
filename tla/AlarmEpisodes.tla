--------------------------- MODULE AlarmEpisodes ---------------------------
(***************************************************************************)
(* What the alarm centre promises about one alarm rule, seen from outside: *)
(* a rule is created in the normal state, each raised alarm adds exactly   *)
(* one to its count while some quota the rule was ever granted allows it,  *)
(* clearing an alarm starts the count again, and a deleted rule stays      *)
(* deleted.  AlarmCenter is shown to implement this.                       *)
(***************************************************************************)
EXTENDS Integers

CONSTANTS
  Rules,      \* identities of alarm rules
  Quotas      \* values an administrator may give to a rule's maximal count

NoLimit == -1   \* the quota that never runs out

VARIABLES
  state,      \* state[r]: where rule r is in its life
  count,      \* count[r]: alarms raised in the present episode
  granted     \* granted[r]: the quotas rule r has had since it was created

vars == <<state, count, granted>>

Init ==
  /\ state \in [Rules -> {"absent", "normal"}]
  /\ count = [r \in Rules |-> 0]
  /\ granted \in [Rules -> SUBSET Quotas]

Create(r, q) ==
  /\ state[r] = "absent"
  /\ state' = [state EXCEPT ![r] = "normal"]
  /\ granted' = [granted EXCEPT ![r] = {q}]
  /\ UNCHANGED count

Grant(r, q) ==
  /\ state[r] \in {"normal", "alarm"}
  /\ granted' = [granted EXCEPT ![r] = @ \cup {q}]
  /\ UNCHANGED <<state, count>>

Raise(r) ==
  /\ state[r] \in {"normal", "alarm"}
  /\ \E q \in granted[r] : q = NoLimit \/ count[r] < q
  /\ state' = [state EXCEPT ![r] = "alarm"]
  /\ count' = [count EXCEPT ![r] = @ + 1]
  /\ UNCHANGED granted

Clear(r) ==
  /\ state[r] = "alarm"
  /\ state' = [state EXCEPT ![r] = "normal"]
  /\ count' = [count EXCEPT ![r] = 0]
  /\ UNCHANGED granted

Drop(r) ==
  /\ state[r] \in {"normal", "alarm"}
  /\ state' = [state EXCEPT ![r] = "deleted"]
  /\ count' = [count EXCEPT ![r] = 0]
  /\ granted' = [granted EXCEPT ![r] = {}]

Next ==
  \E r \in Rules :
    \/ Raise(r) \/ Clear(r) \/ Drop(r)
    \/ \E q \in Quotas : Create(r, q) \/ Grant(r, q)

Spec == Init /\ [][Next]_vars
=============================================================================
