---------------------------- MODULE AlarmGroups ----------------------------
(***************************************************************************)
(* The handlers that add, edit and delete alarm groups, run by any number  *)
(* of requests at once.  Adding counts the rows of the name and then       *)
(* inserts one; editing reads the row and then inserts it as a whole, with *)
(* its new address.  The table has the group for its key, so an insert     *)
(* next to a row of the same name fails.                                   *)
(***************************************************************************)
EXTENDS Integers, FiniteSets

CONSTANTS
  Group,     \* names of alarm groups
  Address,   \* what a group stores
  MaxServed  \* bound: requests served at a time

VARIABLES
  stored,    \* group -> its address, or Absent
  requests,  \* the requests being served
  created    \* history: group -> the addresses for which a user was answered
             \* "Insert success." since the group was last edited or deleted

groupVars == <<stored, requests, created>>

Absent == "absent"
ASSUME GroupsAssumption == Absent \notin Address

GroupRequest(what, g, a) == [what |-> what, group |-> g, address |-> a]

GroupsInit ==
  /\ stored \in [Group -> Address \cup {Absent}] /\ requests = {}
  /\ created = [g \in Group |-> {}]

\* alarmAddConfigForm: a name that is taken is answered with a page that says so.
CountGroup(g, a) ==
  /\ Cardinality(requests) < MaxServed
  /\ stored[g] = Absent
  /\ requests' = requests \cup {GroupRequest("add", g, a)}
  /\ UNCHANGED <<stored, created>>

\* alarmModifyConfigForm: a row that is gone is answered with an error.
ReadGroup(g, a) ==
  /\ Cardinality(requests) < MaxServed
  /\ stored[g] # Absent
  /\ requests' = requests \cup {GroupRequest("edit", g, a)}
  /\ UNCHANGED <<stored, created>>

\* The insert is carried out and the user told so.
GroupStored(q) ==
  /\ stored' = [stored EXCEPT ![q.group] = q.address]
  /\ created' = [created EXCEPT ![q.group] =
                   IF q.what = "add" THEN @ \cup {q.address} ELSE {}]

\* Mutant: replace into, which lets edits through and adds with them.
InsertReplacing(q) ==
  /\ requests' = requests \ {q}
  /\ GroupStored(q)

\* insertOrUpdateAlarmConfig, the statement of both handlers.  For all its name
\* it is an insert, and where the key is taken it throws: so no edit of a group
\* that is there takes effect, and one that was deleted since the handler read
\* it comes back.
InsertGroup(q) ==
  /\ requests' = requests \ {q}
  /\ IF stored[q.group] = Absent THEN GroupStored(q) ELSE UNCHANGED <<stored, created>>

DeleteGroup(g) ==
  /\ stored[g] # Absent
  /\ stored' = [stored EXCEPT ![g] = Absent]
  /\ created' = [created EXCEPT ![g] = {}]
  /\ UNCHANGED requests

GroupsNext ==
  \/ \E g \in Group, a \in Address : CountGroup(g, a) \/ ReadGroup(g, a)
  \/ \E q \in requests : InsertGroup(q)
  \/ \E g \in Group : DeleteGroup(g)

GroupsSpec == GroupsInit /\ [][GroupsNext]_groupVars

(***************************************************************************)
(* A group a user was told to have created is stored as he entered it,     *)
(* until somebody edits or deletes it.  Any number of requests may count   *)
(* the rows of one name and find none before the first of them inserts     *)
(* (alarmAddConfigForm); no two that enter different addresses may be told *)
(* of a success, or one of the users has lost his without a word.          *)
(***************************************************************************)
CreatedMeansStored == \A g \in Group : created[g] \subseteq {stored[g]}
=============================================================================
