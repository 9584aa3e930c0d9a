--------------------------- MODULE SqlCompletion ---------------------------
(***************************************************************************)
(* Completing a keyword in the editor of the query page (show-hint.js and  *)
(* sql-hint.js).  Alt-/ looks up what the word left of the cursor may      *)
(* become and shows a list.  Typing on does not look it up again at once   *)
(* but in the next animation frame; until then the list stays, with its    *)
(* keys taken away but not the mouse.                                      *)
(*                                                                         *)
(* One line is modelled, whose characters are letters or blanks; upper and *)
(* lower case are not told apart.  Nothing completes names of tables: the  *)
(* page gives the editor none.                                             *)
(***************************************************************************)
EXTENDS Integers, Sequences, SequencesExt

CONSTANTS
  Letter,     \* the letters of words
  Keywords,   \* a sequence of words: the keywords of the mode, in order
  MaxLine     \* bound: length of the line to type or to complete

Spacing == " "
ASSUME CompletionAssumption ==
  /\ MaxLine \in Nat /\ Spacing \notin Letter
  /\ Keywords \in Seq(Seq(Letter) \ {<<>>}) /\ Keywords # <<>>

VARIABLES
  line,       \* the text
  cursor,     \* how many characters are left of the cursor
  start,      \* of the active completion: where the cursor was, and what was
              \* right of it; or Inactive
  hints,      \* the list last looked up, with the range it is to replace
  widget,     \* "none", "open" or "disabled"
  chosen,     \* the position selected in the list
  eager,      \* Enter was pressed while the list was disabled
  frame,      \* an update is due in the next frame
  last        \* history: how the text was last changed

completionVars == <<line, cursor, start, hints, widget, chosen, eager, frame, last>>

Inactive == [at |-> -1, rest |-> -1]
NoHints == [list |-> <<>>, from |-> -1, to |-> -1]
Active == start # Inactive

-----------------------------------------------------------------------------
(* The hint function: the word piece left of the cursor, and the keywords  *)
(* it begins.  With no piece every keyword fits.                           *)

WordStart(text, at) ==
  CHOOSE i \in 0..at :
    /\ \A j \in (i + 1)..at : text[j] # Spacing
    /\ i = 0 \/ text[i] = Spacing
Piece(text, at) == SubSeq(text, WordStart(text, at) + 1, at)

\* addMatches
AddMatches(piece) ==
  FoldLeft(LAMBDA found, w : IF IsPrefix(piece, w) THEN Append(found, w) ELSE found,
           <<>>, Keywords)

SqlHint(text, at) ==
  [list |-> AddMatches(Piece(text, at)), from |-> WordStart(text, at), to |-> at]

\* resolveAutoHints: a list with nothing in it is answered as no list.
Hints(text, at) ==
  IF SqlHint(text, at).list = <<>> THEN NoHints ELSE SqlHint(text, at)

\* Whether the new list is for another word than the old.
IsNewCompletion(old, new) ==
  old # NoHints /\ new.from > old.from /\ old.to - old.from # new.to - new.from

-----------------------------------------------------------------------------
(* Completion and Widget. *)

Closed ==
  /\ start' = Inactive /\ hints' = NoHints /\ widget' = "none"
  /\ chosen' = 1 /\ eager' = FALSE /\ frame' = FALSE

\* adjustForChange: the cursor at p, no further left than from, after n
\* characters have come in the place of those from there to upTo.
CursorAfter(p, from, upTo, n) == IF p <= upTo THEN from + n ELSE p + n - (upTo - from)

\* pick(data, i): the range is cut to the line as it is by now.
Picked(text, data, i, how) ==
  LET upTo == IF data.to < Len(text) THEN data.to ELSE Len(text)
  IN  /\ line' = SubSeq(text, 1, data.from) \o data.list[i]
                   \o SubSeq(text, upTo + 1, Len(text))
      /\ cursor' = CursorAfter(cursor, data.from, upTo, Len(data.list[i]))
      /\ last' = how
      /\ Closed

\* finishUpdate(data, first): the only hint is taken at once where Enter has
\* been pressed or the completion just begun.
FinishUpdate(old, data, atOnce, at) ==
  IF Len(data.list) = 1 /\ atOnce /\ ~IsNewCompletion(old, data)
  THEN Picked(line, data, 1, "keys")
  ELSE /\ hints' = (IF IsNewCompletion(old, data) THEN old ELSE data)
       /\ widget' = (IF data.list = <<>> \/ IsNewCompletion(old, data)
                     THEN "none" ELSE "open")
       /\ start' = at /\ chosen' = 1 /\ eager' = FALSE /\ frame' = FALSE
       /\ UNCHANGED <<line, cursor, last>>

\* showHint
ShowHint ==
  /\ Len(line) < MaxLine
  /\ FinishUpdate(NoHints, Hints(line, cursor), TRUE,
                  [at |-> cursor, rest |-> Len(line) - cursor])

\* Mutant: the keys of the list stay until the update.
DisabledNever == widget

\* disable()
Disabled == IF widget = "none" THEN "none" ELSE "disabled"

\* cursorActivity, after the text or the cursor has changed.
CursorActivity ==
  IF ~Active THEN UNCHANGED <<start, hints, widget, chosen, eager, frame>>
  ELSE IF \/ Len(line') - cursor' # start.rest \/ cursor' < start.at
          \/ (cursor' > 0 /\ line'[cursor'] = Spacing)
  THEN Closed
  ELSE frame' = TRUE /\ widget' = Disabled /\ UNCHANGED <<start, hints, chosen, eager>>

\* update, from the frame.
Update == frame /\ FinishUpdate(hints, Hints(line, cursor), eager, start)

-----------------------------------------------------------------------------
(* The user. *)

TypeChar(c) ==
  /\ Len(line) < MaxLine
  /\ line' = SubSeq(line, 1, cursor) \o <<c>> \o SubSeq(line, cursor + 1, Len(line))
  /\ cursor' = cursor + 1 /\ last' = "typed"
  /\ CursorActivity
Backspace ==
  /\ cursor > 0
  /\ line' = SubSeq(line, 1, cursor - 1) \o SubSeq(line, cursor + 1, Len(line))
  /\ cursor' = cursor - 1 /\ last' = "typed"
  /\ CursorActivity
MoveCursor(at) ==
  /\ at # cursor /\ cursor' = at /\ last' = "typed" /\ UNCHANGED line
  /\ CursorActivity

\* The keys of the open list: Up, Down, Home and End, which go round.
MoveFocus(i) ==
  /\ widget = "open" /\ i \in DOMAIN hints.list /\ i # chosen /\ chosen' = i
  /\ UNCHANGED <<line, cursor, start, hints, widget, eager, frame, last>>
EnterPicks == widget = "open" /\ Picked(line, hints, chosen, "keys")
EnterWaits ==
  /\ widget = "disabled" /\ eager' = TRUE
  /\ UNCHANGED <<line, cursor, start, hints, widget, chosen, frame, last>>
Escape == widget = "open" /\ Closed /\ UNCHANGED <<line, cursor, last>>

\* A click picks from a disabled list too, for the range it was made for.
ClickHint(i) ==
  /\ widget # "none" /\ i \in DOMAIN hints.list
  /\ Picked(line, hints, i, IF widget = "open" THEN "mouse" ELSE "late mouse")

\* The editor has lost the focus, or the list has been scrolled out of sight.
LoseFocus == widget # "none" /\ Closed /\ UNCHANGED <<line, cursor, last>>

CompletionInit ==
  /\ line = <<>> /\ cursor = 0 /\ start = Inactive /\ hints = NoHints
  /\ widget = "none" /\ chosen = 1 /\ eager = FALSE /\ frame = FALSE
  /\ last = "typed"

CompletionNext ==
  \/ ShowHint \/ Update \/ Backspace
  \/ \E c \in Letter \cup {Spacing} : TypeChar(c)
  \/ \E at \in 0..Len(line) : MoveCursor(at)
  \/ \E i \in DOMAIN hints.list : MoveFocus(i) \/ ClickHint(i)
  \/ EnterPicks \/ EnterWaits \/ Escape \/ LoseFocus

CompletionSpec == CompletionInit /\ [][CompletionNext]_completionVars

-----------------------------------------------------------------------------
(***************************************************************************)
(* A list with its keys is of the words that the piece left of the cursor  *)
(* begins; so that what was completed is a keyword up to the cursor,       *)
(* whatever was typed meanwhile, unless it was clicked in the list before  *)
(* the update that was due.                                                *)
(***************************************************************************)
CompletedWhole ==
  /\ widget = "open" => hints = Hints(line, cursor)
  /\ last \in {"keys", "mouse"} =>
       \E i \in DOMAIN Keywords : Piece(line, cursor) = Keywords[i]
=============================================================================
