------------------------------ MODULE RowForms ------------------------------
(***************************************************************************)
(* The dialogs in which a row is edited: a link in the row opens the       *)
(* dialog at once and asks the server for the row's values; the answer     *)
(* fills the form, and submitting it loads the page anew.  The dialogs     *)
(* differ in when the hidden field gets the id of the row: on the click,   *)
(* or with the values.                                                     *)
(*                                                                         *)
(* Closing a dialog aborts nothing.  The answer for a row that was opened  *)
(* before may come while another row's dialog is open.                     *)
(***************************************************************************)
EXTENDS Integers, Sequences, SequencesExt

CONSTANTS
  FormRow,   \* rules, alarm groups or users
  MaxOpened  \* bound: dialogs opened before the page is loaded anew

ASSUME FormsAssumption == MaxOpened \in Nat

VARIABLES
  dialog,    \* the dialog of this page
  opened,    \* the rows it was opened for since the page was loaded
  awaited,   \* positions in opened of the requests in flight
  form,      \* id: the hidden field, of: the row its values are of
  latest,    \* history: the newest request answered
  answersCrossed, \* history: an answer came after that to a newer request
  answerMissed,   \* history: a request failed
  saved      \* history: row -> what is stored for it since it was edited

formVars ==
  <<dialog, opened, awaited, form, latest, answersCrossed, answerMissed, saved>>

NoRowOpen == "no row"
BlankForm == [id |-> NoRowOpen, of |-> NoRowOpen]
AtClick == {"consumer rule", "cluster rule", "alarm group"}
AtAnswer == {"user", "password"}

-----------------------------------------------------------------------------
(* Opening and filling. *)

AskRow(d, r) ==
  /\ dialog = d /\ Len(opened) < MaxOpened
  /\ opened' = Append(opened, r)
  /\ awaited' = awaited \cup {Len(opened) + 1}
  /\ UNCHANGED <<dialog, latest, answersCrossed, answerMissed, saved>>

EditConsumerRule(r) == AskRow("consumer rule", r) /\ form' = [form EXCEPT !.id = r]
EditClusterRule(r) == AskRow("cluster rule", r) /\ form' = [form EXCEPT !.id = r]
EditAlarmGroup(r) == AskRow("alarm group", r) /\ form' = [form EXCEPT !.id = r]
EditUser(r) == AskRow("user", r) /\ UNCHANGED form
ResetPassword(r) == AskRow("password", r) /\ UNCHANGED form

\* Mutant: the id is only written into a form that has none.
FilledOnce(r) ==
  IF form.id # NoRowOpen THEN [form EXCEPT !.of = r] ELSE [id |-> r, of |-> r]

Filled(r) ==
  IF dialog \in AtClick THEN [form EXCEPT !.of = r] ELSE [id |-> r, of |-> r]

RowArrives(i) ==
  /\ awaited' = awaited \ {i} /\ form' = Filled(opened[i])
  /\ latest' = (IF i > latest THEN i ELSE latest)
  /\ answersCrossed' = (answersCrossed \/ i < latest)
  /\ UNCHANGED <<dialog, opened, answerMissed, saved>>

RowMissing(i) ==
  /\ awaited' = awaited \ {i} /\ answerMissed' = TRUE
  /\ UNCHANGED <<dialog, opened, form, latest, answersCrossed, saved>>

-----------------------------------------------------------------------------
(* Submitting. *)

Hasty == awaited # {} \/ answersCrossed \/ answerMissed

\* The values go to the row of the hidden field; nothing is stored for a
\* group, whose handler inserts a row where there is one (AlarmGroups).
Submit ==
  /\ opened # <<>>
  /\ saved' = IF form.id = NoRowOpen \/ dialog = "alarm group" THEN saved
              ELSE [saved EXCEPT ![form.id] =
                      [of |-> form.of, meant |-> Last(opened), hasty |-> Hasty]]
  /\ opened' = <<>> /\ awaited' = {} /\ form' = BlankForm
  /\ latest' = 0 /\ answersCrossed' = FALSE /\ answerMissed' = FALSE
  /\ UNCHANGED dialog

FormsInit ==
  /\ dialog \in AtClick \cup AtAnswer
  /\ opened = <<>> /\ awaited = {} /\ form = BlankForm
  /\ latest = 0 /\ answersCrossed = FALSE /\ answerMissed = FALSE
  /\ saved = [r \in FormRow |-> [of |-> r, meant |-> r, hasty |-> FALSE]]

FormsNext ==
  \/ \E r \in FormRow : \/ EditConsumerRule(r) \/ EditClusterRule(r)
                    \/ EditAlarmGroup(r) \/ EditUser(r) \/ ResetPassword(r)
  \/ \E i \in awaited : RowArrives(i) \/ RowMissing(i)
  \/ Submit

FormsSpec == FormsInit /\ [][FormsNext]_formVars

(***************************************************************************)
(* What is stored for a row are its own values, as the user edited them in *)
(* a dialog opened for this row; unless the form was submitted before all  *)
(* answers had come, in the order asked.  Even then no user is stored with *)
(* the values of another.                                                  *)
(***************************************************************************)
EditsKeepRows ==
  \A r \in FormRow :
    /\ saved[r].of = r \/ (saved[r].hasty /\ dialog \in AtClick)
    /\ saved[r].meant = r \/ (saved[r].hasty /\ dialog \in AtAnswer)
=============================================================================
