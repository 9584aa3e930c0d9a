----------------------------- MODULE EditHistory -----------------------------
(***************************************************************************)
(* Changes, undo and redo in the query editor (CodeMirror 5.19).           *)
(*                                                                         *)
(* The history of a document is two stacks of events.  An event is a       *)
(* selection, or a set of changes with the number (the generation) of the  *)
(* text before them; each change is kept as what reverts it.  A change     *)
(* joins the event on top when both are of one operation, or follow each   *)
(* other soon and are of one origin that allows it.  A generation stands   *)
(* for the text: a document is taken to be as it was when its generation   *)
(* is what it was.                                                         *)
(*                                                                         *)
(* The text is a sequence of characters, line ends among them, and a       *)
(* position is an offset.  There is one range of selection.  soon is the   *)
(* outcome of a comparison of times.                                       *)
(***************************************************************************)
EXTENDS Integers, SequencesExt

CONSTANTS
  Char,       \* characters but the line end
  UndoDepth,  \* the option: how many events may be kept to be undone
  MaxText,    \* bound: characters of the text
  MaxChanges  \* bound: generations of a document, the empty one included

LineBreak == "\n"
ASSUME HistoryAssumption ==
  /\ UndoDepth \in Nat /\ MaxText \in Nat /\ MaxChanges \in Nat /\ UndoDepth > 1
  /\ LineBreak \notin Char

VARIABLES
  doc     \* the document: its text, selection and history, and, as a history
          \* of the model, asOf: the text of every generation


Anonymous == "no origin"
Merging(origin) == origin \in {"+input", "+delete", "+move"}
Starred(origin) == origin = "*mouse"

Span(anchor, head) == [anchor |-> anchor, head |-> head]
Cursor(p) == Span(p, p)
FromOf(r) == IF r.anchor < r.head THEN r.anchor ELSE r.head
ToOf(r) == IF r.anchor < r.head THEN r.head ELSE r.anchor
Something(r) == r.anchor # r.head
IsRange(event) == "anchor" \in DOMAIN event

Change(from, to, text) == [from |-> from, to |-> to, text |-> text]
ChangeEnd(c) == c.from + Len(c.text)
Changed(text, c) ==
  SubSeq(text, 1, c.from) \o c.text \o SubSeq(text, c.to + 1, Len(text))

\* historyChangeFromChange: what reverts the change.
Reverting(text, c) == Change(c.from, ChangeEnd(c), SubSeq(text, c.from + 1, c.to))

\* adjustForChange and computeSelAfterChange
Adjusted(p, c) ==
  IF p < c.from THEN p
  ELSE IF p <= c.to THEN ChangeEnd(c) ELSE p + ChangeEnd(c) - c.to
SelAfter(sel, c) == Span(Adjusted(sel.anchor, c), Adjusted(sel.head, c))

-----------------------------------------------------------------------------
\* pushSelectionToHistory
Pushed(events, sel) ==
  IF events # <<>> /\ Last(events) = sel THEN events ELSE Append(events, sel)

\* clearSelectionEvents
WithoutRanges(events) ==
  LET kept == {i \in DOMAIN events : ~IsRange(events[i])}
      last == CHOOSE i \in kept \cup {0} : \A j \in kept : j <= i
  IN  SubSeq(events, 1, last)

\* lastChangeEvent: the events left of done when it has looked; the change it
\* finds is then on top.
LookedFor(done, force) ==
  IF force THEN WithoutRanges(done)
  ELSE IF Len(done) > 1 /\ IsRange(Last(done)) /\ ~IsRange(done[Len(done) - 1])
       THEN Front(done) ELSE done

\* At the limit an event goes with the selections below it.
RECURSIVE Truncated(_)
Truncated(done) ==
  IF Len(done) <= UndoDepth THEN done
  ELSE LET rest == Tail(done)
       IN  Truncated(IF IsRange(Head(rest)) THEN rest ELSE Tail(rest))

\* A change joins an event: text inserted where its last change ends extends it.
Joined(event, text, c) ==
  LET n == Len(event.changes)
  IN  IF c.from = c.to /\ c.from = event.changes[n].to
      THEN [event EXCEPT !.changes[n].to = ChangeEnd(c)]
      ELSE [event EXCEPT !.changes = Append(@, Reverting(text, c))]

\* Mutant: numbers go on from that of the text at hand, which may be undone.
NextGenerationReused(d) == d.generation + 1

\* The number of the text after a change.
NextGeneration(d) == d.maxGeneration + 1

\* addChangeToHistory
AddChange(d, c, origin, sameOp, soon) ==
  LET may == \/ sameOp
             \/ d.lastOrigin = origin /\ ((Merging(origin) /\ soon) \/ Starred(origin))
      done == IF may THEN LookedFor(d.done, sameOp) ELSE d.done
      joins == may /\ done # <<>> /\ ~IsRange(Last(done))
      under == IF done # <<>> /\ IsRange(Last(done)) THEN done ELSE Append(done, d.sel)
      event == [changes |-> <<Reverting(d.text, c)>>, generation |-> d.generation]
  IN  [d EXCEPT
         !.done = Append(IF joins THEN Append(Front(done), Joined(Last(done), d.text, c))
                         ELSE Truncated(Append(under, event)),
                         SelAfter(d.sel, c)),
         !.undone = <<>>,
         !.maxGeneration = @ + 1, !.generation = NextGeneration(d),
         !.sameTime = TRUE, !.lastOrigin = origin, !.lastSelOrigin = origin]

NoChange(c) == c.from = c.to /\ c.text = <<>>

\* makeChangeSingleDoc
Applied(d, c) ==
  [d EXCEPT !.text = Changed(@, c), !.sel = SelAfter(@, c),
            !.asOf = Append(@, Changed(d.text, c))]

\* makeChange, makeChangeInner
MakeChange(d, c, origin, sameOp, soon) ==
  IF NoChange(c) THEN d
  ELSE Applied(AddChange(d, c, origin, sameOp, soon), c)

\* setSelection and addSelectionToHistory; later: the clock has moved on since
\* the last change.
SetSelection(d, sel, origin, sameOp, soon, later, clearRedo) ==
  LET prev == Last(d.done)
      joins == \/ sameOp
               \/ /\ origin # Anonymous /\ d.lastSelOrigin = origin
                  /\ \/ d.sameTime /\ d.lastOrigin = origin
                     \/ Starred(origin)
                     \/ Merging(origin) /\ Something(prev) = Something(sel) /\ soon
  IN  [d EXCEPT !.sel = sel,
                !.done = IF joins THEN Append(Front(@), sel) ELSE Pushed(@, sel),
                !.undone = IF clearRedo THEN WithoutRanges(@) ELSE @,
                !.sameTime = @ /\ ~later, !.lastSelOrigin = origin]

\* makeChangeFromHistory: from the stack source to the stack dest.
Usable(d, source, selOnly) ==
  \E i \in DOMAIN d[source] :
    IF selOnly THEN IsRange(d[source][i]) /\ d[source][i] # d.sel
    ELSE ~IsRange(d[source][i])

FromHistory(d, source, dest, selOnly, later) ==
  LET events == d[source]
      stops == {i \in DOMAIN events :
                  ~IsRange(events[i]) \/ (selOnly /\ events[i] # d.sel)}
      at == CHOOSE i \in stops : \A j \in stops : j <= i
      event == events[at]
      left == SubSeq(events, 1, at - 1)
      passed == FoldLeft(Pushed, d[dest], Reverse(SubSeq(events, at + 1, Len(events))))
      selAfter == IF at < Len(events) THEN events[at + 1] ELSE d.sel
      none == [d EXCEPT !.lastOrigin = Anonymous, !.lastSelOrigin = Anonymous]
      undo(r, c) == [text |-> Changed(r.text, c), sel |-> SelAfter(r.sel, c),
                     anti |-> Append(r.anti, Reverting(r.text, c))]
      out == FoldRight(LAMBDA c, r : undo(r, c), event.changes,
                       [text |-> d.text, sel |-> d.sel, anti |-> <<>>])
  IN  IF IsRange(event)
      THEN SetSelection([none EXCEPT ![source] = left, ![dest] = Pushed(passed, event)],
                        event, Anonymous, FALSE, FALSE, later, FALSE)
      ELSE [none EXCEPT
              ![source] = left,
              ![dest] = Append(Pushed(passed, selAfter),
                               [changes |-> out.anti, generation |-> d.generation]),
              !.generation = event.generation, !.text = out.text,
              !.sel = IF left = <<>> THEN out.sel ELSE Last(left)]

-----------------------------------------------------------------------------
(* The commands, each an operation of its own.  In the log, which is read  *)
(* only, the page sets the value and the user may move, undoSelection and  *)
(* redoSelection included.                                                 *)

Opened ==
  [text : {<<>>}, sel : {Cursor(0)}, done : {<<Cursor(0)>>}, undone : {<<>>},
   generation : {1}, maxGeneration : {1}, sameTime : {FALSE},
   lastOrigin : {Anonymous}, lastSelOrigin : {Anonymous},
   readOnly : BOOLEAN, asOf : {<< <<>> >>}]
HistoryInit == doc \in Opened

Bounded(d) ==
  /\ Len(d.text) <= MaxText /\ d.maxGeneration <= MaxChanges
  /\ Len(d.done) <= UndoDepth + 1

Replacing(text) == Change(FromOf(doc.sel), ToOf(doc.sel), text)

\* applyTextInput
Input(ch, soon) ==
  /\ ~doc.readOnly
  /\ doc' = MakeChange(doc, Replacing(<<ch>>), "+input", FALSE, soon)

\* newlineAndIndent: the line end, then the indentation, if any.
NewlineAndIndent(indentation, soon) ==
  /\ ~doc.readOnly
  /\ LET at == FromOf(doc.sel) + 1
     IN  doc' = MakeChange(MakeChange(doc, Replacing(<<LineBreak>>), "+input", FALSE, soon),
                           Change(at, at, indentation), "+input", TRUE, FALSE)

\* deleteH, one character back or forth.
DeleteH(dir, soon) ==
  /\ ~doc.readOnly
  /\ LET other == doc.sel.head + dir
         near == Change(FromOf(Span(doc.sel.head, other)),
                        ToOf(Span(doc.sel.head, other)), <<>>)
     IN  /\ Something(doc.sel) \/ other \in 0..Len(doc.text)
         /\ doc' = MakeChange(doc, IF Something(doc.sel) THEN Replacing(<<>>) ELSE near,
                              "+delete", FALSE, soon)

\* A suggestion is taken in the place of what was typed of it.
PickHint(from, text) ==
  /\ ~doc.readOnly /\ from <= doc.sel.head
  /\ doc' = MakeChange(doc, Change(from, doc.sel.head, text), "complete", FALSE, FALSE)

SetValue(text, later) ==
  LET c == Change(0, Len(doc.text), text)
      d == MakeChange(doc, c, "setValue", FALSE, FALSE)
  IN  doc' = SetSelection(d, Cursor(0), Anonymous, ~NoChange(c), FALSE, later, FALSE)

MoveTo(sel, origin, soon, later) ==
  doc' = SetSelection(doc, sel, origin, FALSE, soon, later, TRUE)

Undo(selOnly, later) ==
  /\ selOnly \/ ~doc.readOnly
  /\ Usable(doc, "done", selOnly)
  /\ doc' = FromHistory(doc, "done", "undone", selOnly, later)

Redo(selOnly, later) ==
  /\ selOnly \/ ~doc.readOnly
  /\ Usable(doc, "undone", selOnly)
  /\ doc' = FromHistory(doc, "undone", "done", selOnly, later)

\* The cursor anywhere, or all selected.
Selections ==
  {Cursor(p) : p \in 0..Len(doc.text)} \cup {Span(0, Len(doc.text))}
Texts == {<<>>} \cup {<<ch>> : ch \in Char}

\* The page is loaded anew.
ReloadEditor ==
  /\ doc.maxGeneration = MaxChanges
  /\ doc' \in Opened

HistoryNext ==
  \/ ReloadEditor
  \/ /\ \/ \E soon \in BOOLEAN :
            \/ \E ch \in Char : Input(ch, soon)
            \/ \E indentation \in Texts : NewlineAndIndent(indentation, soon)
            \/ \E dir \in {-1, 1} : DeleteH(dir, soon)
        \/ \E from \in 0..Len(doc.text), ch \in Char : PickHint(from, <<ch>>)
        \/ \E later \in BOOLEAN :
            \/ \E text \in Texts : SetValue(text, later)
            \/ \E sel \in Selections, origin \in {"+move", "*mouse"}, soon \in BOOLEAN :
                 MoveTo(sel, origin, soon, later)
            \/ \E selOnly \in BOOLEAN : Undo(selOnly, later) \/ Redo(selOnly, later)
     /\ Bounded(doc')

HistorySpec == HistoryInit /\ [][HistoryNext]_doc

-----------------------------------------------------------------------------
\* What is left of a text when the event on top is reverted, and so on down.
Walked(events) ==
  LET revert(text, e) == FoldRight(LAMBDA c, t : Changed(t, c), e.changes, text)
      down(i, r) ==
        LET e == events[i]
        IN  IF IsRange(e)
            THEN [r EXCEPT !.right = @ /\ {e.anchor, e.head} \subseteq 0..Len(r.text)]
            ELSE [text |-> revert(r.text, e),
                  right |-> /\ r.right /\ i > 1
                            /\ IsRange(events[i - 1])
                            /\ doc.asOf[e.generation] = revert(r.text, e)]
  IN  FoldRight(down, [i \in DOMAIN events |-> i], [text |-> doc.text, right |-> TRUE])

(***************************************************************************)
(* Whatever was joined, undone, redone and dropped at the limit, undoing   *)
(* event after event gives back the texts that were there when each event  *)
(* began, and so does redoing; a generation is never that of two texts;    *)
(* under every event there is a selection to go back to, and every         *)
(* selection kept lies in the text it will be set in.                      *)
(***************************************************************************)
HistoryFaithful ==
  /\ doc.asOf[doc.generation] = doc.text
  /\ Walked(doc.done).right /\ Walked(doc.undone).right
  /\ {doc.sel.anchor, doc.sel.head} \subseteq 0..Len(doc.text)
=============================================================================
