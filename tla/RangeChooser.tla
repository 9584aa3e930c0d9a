---------------------------- MODULE RangeChooser ----------------------------
(***************************************************************************)
(* What a trend page relies on in its date picker: a pair of days, in      *)
(* order, that changes when the picker closes; a callback that writes the  *)
(* pair into the page's label when it differs from the one the picker was  *)
(* opened with; and an apply event, after which the page copies its label  *)
(* into the variables its requests carry.                                  *)
(***************************************************************************)
EXTENDS Integers

CONSTANTS Days,     \* the days there are
          Opening   \* the pair the page opens with

Pairs == {p \in Days \X Days : p[1] <= p[2]}

ASSUME ChooserAssumption == Days \subseteq Int /\ Opening \in Pairs

VARIABLES open,     \* is the picker shown?
          chosen,   \* the pair it held when it was last closed or opened
          label,    \* the text of #reportrange
          asked     \* the page's stime and etime

chooser == <<open, chosen, label, asked>>

ChooserInit ==
  /\ open = FALSE
  /\ chosen = Opening /\ label = Opening /\ asked = Opening

Open == ~open /\ open' = TRUE /\ UNCHANGED <<chosen, label, asked>>

\* The page is called back about every change, and may be about none.
Close(r) ==
  /\ open /\ open' = FALSE
  /\ chosen' = r
  /\ label' = r \/ (r = chosen /\ label' = label)

\* Closed by a press elsewhere, a second click or cancel.
Dismiss(r) == Close(r) /\ UNCHANGED asked

\* The apply handler of the page: stime and etime are read from the label.
Apply(r) == Close(r) /\ asked' = label'

\* A date typed in a field that loses the focus because the picker was
\* dismissed is taken over after the callback.
StrayEdit(r) ==
  ~open /\ chosen' = r /\ UNCHANGED <<open, label, asked>>

ChooserNext == Open \/ \E r \in Pairs : Dismiss(r) \/ Apply(r) \/ StrayEdit(r)

Chooser == ChooserInit /\ [][ChooserNext]_chooser
=============================================================================
