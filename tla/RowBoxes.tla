------------------------------ MODULE RowBoxes ------------------------------
(***************************************************************************)
(* Check boxes that are stored by themselves: every click sends a request  *)
(* of its own, and the server acts on each as it comes.  Three pages have  *)
(* them: the roles of a user, the resources of a role (a tree), and the    *)
(* switches in the two tables of alarm rules, where a row is the table     *)
(* and a box a rule.                                                       *)
(*                                                                         *)
(* The first two ask to add or to delete; a switch asks to flip, which the *)
(* server does in two statements, a read and a write.                      *)
(***************************************************************************)
EXTENDS Integers, FiniteSets

CONSTANTS
  BoxRow,      \* users or roles
  Box,         \* roles, resources or rules
  Granted,     \* what is stored at first: row -> set of boxes
  MaxFlying    \* bound: requests in flight

ASSUME BoxesAssumption == Granted \in [BoxRow -> SUBSET Box]

VARIABLES
  panel,    \* "roles", "tree" or "switches"
  holder,   \* the row whose dialog was opened last
  boxes,    \* of: the row the boxes were drawn for, ticks: those ticked
  touched,  \* boxes clicked since
  held,     \* row -> the boxes stored for it
  flying,   \* requests in flight
  muddled   \* history: requests got in each other's way, or got lost

boxVars == <<panel, holder, boxes, touched, held, flying, muddled>>

NoOwner == "no row"
Rows == IF panel = "switches" THEN {CHOOSE r \in BoxRow : TRUE} ELSE BoxRow
Fills == {q \in flying : q.what = "fill"}
BoxRequests == flying \ Fills

-----------------------------------------------------------------------------
(* Opening a dialog, or drawing a table. *)

\* clean: no change was under way while the boxes were.
Fill(r) == [what |-> "fill", of |-> r, served |-> FALSE, seen |-> {},
            clean |-> BoxRequests = {}]
AskBoxes(r) ==
  /\ Cardinality(flying) < MaxFlying
  /\ holder' = r /\ flying' = flying \cup {Fill(r)}
  /\ UNCHANGED <<panel, boxes, touched, held, muddled>>

OpenRoles(r) == panel = "roles" /\ AskBoxes(r)
OpenRoleTree(r) == panel = "tree" /\ AskBoxes(r)
DrawSwitches(r) == panel = "switches" /\ r \in Rows /\ AskBoxes(r)

\* The boxes that come ticked.  Those of the roles never do: the page
\* compares the text of a box with the number of a role.
Ticked(q) == IF panel = "roles" THEN {} ELSE q.seen

BoxesArrive(q) ==
  /\ q \in Fills /\ q.served
  /\ boxes' = [of |-> q.of, ticks |-> Ticked(q)]
  /\ touched' = {} /\ muddled' = ~q.clean
  /\ flying' = flying \ {q}
  /\ UNCHANGED <<panel, holder, held>>

-----------------------------------------------------------------------------
(* Clicks. *)

\* Mutant: every handler reads the row whose dialog was opened last.
OwnerShared == holder

\* The row a click is for: the roles' handler reads a variable of the page,
\* the tree's the row the tree was made for.
Owner == IF panel = "roles" THEN holder ELSE boxes.of

BoxRequest(b, ticks) ==
  [what |-> IF panel = "switches" THEN "flip"
            ELSE IF b \in ticks THEN "add" ELSE "delete",
   of |-> Owner, box |-> b, read |-> FALSE, flag |-> FALSE]

ClickBox(b) ==
  /\ boxes.of # NoOwner /\ Cardinality(flying) < MaxFlying
  /\ LET ticks == IF b \in boxes.ticks THEN boxes.ticks \ {b}
                  ELSE boxes.ticks \cup {b}
     IN  /\ boxes' = [boxes EXCEPT !.ticks = ticks]
         /\ flying' = BoxRequests \cup {[q EXCEPT !.clean = FALSE] : q \in Fills}
                        \cup {BoxRequest(b, ticks)}
  /\ touched' = touched \cup {b}
  /\ muddled' = (muddled \/ (\E q \in BoxRequests : q.box = b)
                         \/ (panel = "roles" /\ holder # boxes.of))
  /\ UNCHANGED <<panel, holder, held>>

-----------------------------------------------------------------------------
(* The server. *)

Stored(r, b, on) ==
  held' = [held EXCEPT ![r] = IF on THEN @ \cup {b} ELSE @ \ {b}]

ServeFill(q) ==
  /\ q \in Fills /\ ~q.served
  /\ flying' = (flying \ {q}) \cup {[q EXCEPT !.served = TRUE, !.seen = held[q.of]]}
  /\ UNCHANGED held

ChangeUserRole(q) ==
  /\ panel = "roles" /\ q \in BoxRequests
  /\ Stored(q.of, q.box, q.what = "add") /\ flying' = flying \ {q}
ChangeRoleResource(q) ==
  /\ panel = "tree" /\ q \in BoxRequests
  /\ Stored(q.of, q.box, q.what = "add") /\ flying' = flying \ {q}

ReadSwitch(q) ==
  /\ q \in BoxRequests /\ q.what = "flip" /\ ~q.read
  /\ flying' = (flying \ {q})
                 \cup {[q EXCEPT !.read = TRUE, !.flag = q.box \in held[q.of]]}
  /\ UNCHANGED held
WriteSwitch(q) ==
  /\ q \in BoxRequests /\ q.what = "flip" /\ q.read
  /\ Stored(q.of, q.box, ~q.flag) /\ flying' = flying \ {q}

Serve(q) ==
  /\ ServeFill(q) \/ ChangeUserRole(q) \/ ChangeRoleResource(q)
     \/ ReadSwitch(q) \/ WriteSwitch(q)
  /\ UNCHANGED <<panel, holder, boxes, touched, muddled>>

\* A request that never reaches the server; no page notices.
Lose(q) ==
  /\ q \in BoxRequests => ~q.read
  /\ flying' = flying \ {q} /\ muddled' = (muddled \/ q \in BoxRequests)
  /\ UNCHANGED <<panel, holder, boxes, touched, held>>

-----------------------------------------------------------------------------
BoxesInit ==
  /\ panel \in {"roles", "tree", "switches"}
  /\ holder = NoOwner /\ boxes = [of |-> NoOwner, ticks |-> {}] /\ touched = {}
  /\ held = Granted /\ flying = {} /\ muddled = FALSE

BoxesNext ==
  \/ \E r \in BoxRow : OpenRoles(r) \/ OpenRoleTree(r) \/ DrawSwitches(r)
  \/ \E b \in Box : ClickBox(b)
  \/ \E q \in flying : BoxesArrive(q) \/ Serve(q) \/ Lose(q)

BoxesSpec == BoxesInit /\ [][BoxesNext]_boxVars

(***************************************************************************)
(* When no request is under way, a box that was clicked is ticked exactly  *)
(* if it is stored for the row its boxes were drawn for, and so is every   *)
(* other box of the tree and of the switches; unless a request was lost, a *)
(* box was clicked again before the server had acted, boxes were drawn     *)
(* meanwhile, or a user's roles were clicked before they were drawn.       *)
(***************************************************************************)
BoxesStored ==
  flying = {} /\ ~muddled /\ boxes.of # NoOwner =>
    \A b \in IF panel = "roles" THEN touched ELSE Box :
      b \in boxes.ticks <=> b \in held[boxes.of]
=============================================================================
