------------------------------- MODULE ViewMap -------------------------------
(***************************************************************************)
(* What the query editor draws of a document (CodeMirror 5.19).            *)
(*                                                                         *)
(* The lines near the part that is seen have a view each, with the element *)
(* that shows the line once it is drawn.  A change to the document is      *)
(* registered in the views at once, in terms of line numbers; the elements *)
(* are brought up to date when the operation ends or the editor is         *)
(* scrolled.  The view of one more line may be built on the side, to       *)
(* measure it.                                                             *)
(*                                                                         *)
(* Lines are counted from 0, as in the code.  A line object is named by    *)
(* the number it has now, or is Gone; an element by its place among the    *)
(* elements drawn.  What was drawn of a line is current until its text is  *)
(* changed.  No line is collapsed, as in the pages.                        *)
(***************************************************************************)
EXTENDS Integers, SequencesExt

CONSTANTS
  Window,     \* lines that are seen at once
  Margin,     \* viewportMargin: lines drawn on either side, 10
  Slack,      \* so many lines more are left drawn, 20
  Wide,       \* a document of so many lines has numbers of more digits, 10
  MaxRows,    \* bound: lines of the document
  MaxLineN,   \* bound: the number of a view on the side, past the end or not
  MaxSteps    \* bound: changes and measurements in an operation

ASSUME ViewAssumption ==
  /\ {Window, Margin, Slack, Wide} \subseteq Nat \ {0}
  /\ MaxRows \in Nat /\ MaxLineN \in Nat /\ MaxSteps \in Nat

VARIABLES
  screen,  \* the number of lines, their views and the elements drawn
  editorHidden,  \* the editor is in a tab that is not shown
  steps    \* what has been done in the operation that is running

viewVars == <<screen, editorHidden, steps>>

Gone == -1
NoView == [line |-> Gone, lineN |-> Gone, current |-> FALSE]
NoNumber == -1

Digits(s) == IF s.size < Wide THEN 1 ELSE 2
Least(a, b) == IF a < b THEN a ELSE b
Most(a, b) == IF a < b THEN b ELSE a

BuildView(from, to) ==
  [i \in 1..to - from |-> [line |-> from + i - 1, node |-> 0, changed |-> FALSE]]
ResetView(s) ==
  [s EXCEPT !.view = <<>>, !.viewFrom = 0, !.viewTo = 0, !.rendered = FALSE]

\* findViewIndex, in a view with an entry for each line
IndexOf(s, n) == n - s.viewFrom
Above(s, n) == SubSeq(s.view, 1, IndexOf(s, n))
Below(s, n) == SubSeq(s.view, IndexOf(s, n) + 1, Len(s.view))

-----------------------------------------------------------------------------
\* Mutant: the view on the side keeps its number.
ExtStaying(ext, from, to, lendiff) ==
  IF ext # NoView /\ to >= ext.lineN /\ from < ext.lineN + 1 THEN NoView ELSE ext

\* The view on the side, in regChange.
ExtMoved(ext, from, to, lendiff) ==
  IF ext = NoView THEN ext
  ELSE IF to < ext.lineN THEN [ext EXCEPT !.lineN = @ + lendiff]
  ELSE IF from < ext.lineN + 1 THEN NoView ELSE ext

\* regChange: lines from up to to, counted before the change.
RegChange(s, from, to, lendiff) ==
  LET n == [s EXCEPT
              !.numbers = IF lendiff # 0 /\ to < s.viewTo /\ (@ = NoNumber \/ @ > from)
                          THEN from ELSE @,
              !.ext = ExtMoved(@, from, to, lendiff), !.must = TRUE]
  IN  IF from >= s.viewTo THEN n
      ELSE IF to <= s.viewFrom
      THEN [n EXCEPT !.viewFrom = @ + lendiff, !.viewTo = @ + lendiff]
      ELSE IF from <= s.viewFrom /\ to >= s.viewTo THEN ResetView(n)
      ELSE IF from <= s.viewFrom
      THEN [n EXCEPT !.view = Below(s, to), !.viewFrom = to + lendiff,
                     !.viewTo = @ + lendiff, !.rendered = FALSE]
      ELSE IF to >= s.viewTo
      THEN [n EXCEPT !.view = Above(s, from), !.viewTo = from, !.rendered = FALSE]
      ELSE [n EXCEPT !.view = Above(s, from) \o BuildView(from, to + lendiff)
                                \o Below(s, to),
                     !.viewTo = @ + lendiff, !.rendered = FALSE]

RegLineChange(s, n) ==
  LET x == [s EXCEPT !.must = TRUE,
                     !.ext = IF @ # NoView /\ @.lineN = n THEN NoView ELSE @]
      i == IndexOf(s, n) + 1
  IN  IF n \in s.viewFrom..s.viewTo - 1 /\ s.view[i].node # 0
      THEN [x EXCEPT !.view[i].changed = TRUE] ELSE x

\* updateDoc: lines from to to become count lines.  What becomes of the line
\* object that is line n; a change of whole lines leaves the last as it is.
Lendiff(c) == c.count - (c.to - c.from) - 1
Place(c, n) ==
  IF n = Gone \/ c.full THEN Gone
  ELSE IF n < c.from THEN n
  ELSE IF n > c.to THEN n + Lendiff(c)
  ELSE IF c.whole THEN IF n = c.to THEN c.from + c.count - 1 ELSE Gone
  ELSE IF n = c.from THEN n
  ELSE IF n = c.to /\ c.count > 1 THEN c.from + c.count - 1 ELSE Gone
Touched(c, n) == Place(c, n) = Gone \/ (~c.whole /\ n \in {c.from, c.to})

UpdateDoc(s, c) ==
  LET touched(k) == \A i \in DOMAIN s.view : s.view[i].node = k => Touched(c, s.view[i].line)
      moved(e) == [e EXCEPT !.line = Place(c, e.line)]
      kept(k) == [s.drawn[k] EXCEPT !.current = @ /\ ~touched(k)]
  IN  [s EXCEPT
         !.size = @ + Lendiff(c),
         !.drawn = [k \in DOMAIN s.drawn |-> kept(k)],
         !.view = [i \in DOMAIN s.view |-> moved(s.view[i])],
         !.ext = [line |-> Place(c, @.line), lineN |-> @.lineN,
                  current |-> @.current /\ ~Touched(c, @.line)]]

\* makeChangeSingleDocInEditor
Changes(s, c) ==
  LET n == UpdateDoc(s, c)
  IN  IF c.full THEN RegChange(n, 0, n.size, 0)
      ELSE IF c.from = c.to /\ c.count = 1 /\ ~c.whole THEN RegLineChange(n, c.from)
      ELSE RegChange(n, c.from, c.to + 1, Lendiff(c))

-----------------------------------------------------------------------------
\* adjustView
AdjustView(s, from, to) ==
  LET upper == IF s.viewFrom > from THEN BuildView(from, s.viewFrom) \o s.view
               ELSE IF s.viewFrom < from THEN Below(s, from) ELSE s.view
      both == IF s.viewTo < to THEN upper \o BuildView(s.viewTo, to)
              ELSE IF s.viewTo > to THEN SubSeq(upper, 1, to - from) ELSE upper
      apart == s.view = <<>> \/ from >= s.viewTo \/ to <= s.viewFrom
      same == ~apart /\ from = s.viewFrom /\ to = s.viewTo
  IN  [s EXCEPT !.view = IF apart THEN BuildView(from, to) ELSE both,
                !.viewFrom = from, !.viewTo = to, !.rendered = @ /\ same]

Dirty(s) == \E i \in DOMAIN s.view : s.view[i].node = 0 \/ s.view[i].changed

\* getLineContent: what was built on the side is used.
Content(s, n) == s.ext.line = n => s.ext.current

\* patchDisplay: elements that are no view's any more go, missing ones are
\* made, those of lines that changed or were renumbered are redone.
PatchDisplay(s) ==
  LET made(i) ==
        LET e == s.view[i]
            n == s.viewFrom + i - 1
            stale == s.numbers # NoNumber /\ s.numbers <= n
        IN  IF e.node = 0 THEN [current |-> Content(s, e.line), number |-> n]
            ELSE [current |-> IF e.changed THEN Content(s, e.line) ELSE s.drawn[e.node].current,
                  number |-> IF stale THEN n ELSE s.drawn[e.node].number]
      used == \E i \in DOMAIN s.view : /\ s.view[i].line = s.ext.line
                                       /\ s.view[i].node = 0 \/ s.view[i].changed
  IN  [s EXCEPT !.drawn = [i \in DOMAIN s.view |-> made(i)],
                !.view = [i \in DOMAIN s.view |-> [s.view[i] EXCEPT !.node = i,
                                                                    !.changed = FALSE]],
                !.ext = IF used THEN NoView ELSE @,
                !.rendered = TRUE, !.numbers = NoNumber]

\* updateDisplayIfNeeded, with the lines from up to to in sight.
Settled(s) ==
  /\ s.numbers = NoNumber \/ s.numbers >= s.viewTo
  /\ s.rendered /\ ~Dirty(s)

UpdateDisplay(s, seenFrom, seenTo, force) ==
  LET inside == seenFrom >= s.viewFrom /\ seenTo <= s.viewTo
      w == IF Digits(s) = s.digits THEN s ELSE [ResetView(s) EXCEPT !.digits = Digits(s)]
      from0 == Most(seenFrom - Margin, 0)
      to0 == Least(s.size, seenTo + Margin)
      from == IF w.viewFrom < from0 /\ from0 - w.viewFrom < Slack THEN w.viewFrom ELSE from0
      to == IF w.viewTo > to0 /\ w.viewTo - to0 < Slack THEN Least(s.size, w.viewTo) ELSE to0
      different == from # w.viewFrom \/ to # w.viewTo
      a == AdjustView(w, from, to)
  IN  IF editorHidden THEN ResetView(s)
      ELSE IF ~force /\ inside /\ Settled(s) THEN s
      ELSE IF ~different /\ ~force /\ Settled(a) THEN a
      ELSE PatchDisplay(a)

\* visibleLines, from some place on, which may be past the end.
InSight(s, top) == [from |-> top, to |-> Most(Least(top + Window, s.size), top + 1)]

-----------------------------------------------------------------------------
ViewInit ==
  /\ screen = [size |-> 1, view |-> <<>>, viewFrom |-> 0, viewTo |-> 0,
               drawn |-> <<>>, rendered |-> FALSE, numbers |-> NoNumber,
               digits |-> 1, ext |-> NoView, must |-> FALSE, force |-> FALSE]
  /\ editorHidden \in BOOLEAN /\ steps = 0

\* A change in an operation, which may have several.
EditLines(c) ==
  /\ steps < MaxSteps
  /\ screen.size + Lendiff(c) <= MaxRows
  /\ screen' = Changes(screen, c)
  /\ screen'.ext.lineN <= MaxLineN
  /\ steps' = steps + 1 /\ UNCHANGED editorHidden

\* setValue is an operation of its own, at the end of which the cursor, at the
\* top, is brought into sight.
FillDone == MaxSteps + 1
FillLines(count) ==
  /\ steps = 0
  /\ screen' = Changes(screen, [from |-> 0, to |-> screen.size - 1, count |-> count,
                                whole |-> FALSE, full |-> TRUE])
  /\ steps' = FillDone /\ UNCHANGED editorHidden

\* prepareMeasureForLine
Measure(n) ==
  /\ steps < MaxSteps
  /\ LET s == screen
         i == IndexOf(s, n) + 1
         inView == n \in s.viewFrom..s.viewTo - 1 /\ s.view[i].node # 0
     IN  screen' =
           IF inView
           THEN IF s.view[i].changed
                THEN [s EXCEPT !.view[i].changed = FALSE, !.force = TRUE,
                               !.drawn[s.view[i].node].current = Content(s, n),
                               !.ext = IF @.line = n THEN NoView ELSE @]
                ELSE s
           ELSE IF n \notin s.viewFrom..s.viewTo - 1 /\ s.ext.lineN = n THEN s
           ELSE [s EXCEPT !.ext = [line |-> n, lineN |-> n, current |-> TRUE]]
  /\ steps' = steps + 1 /\ UNCHANGED editorHidden

Finished(s) == [s EXCEPT !.must = FALSE, !.force = FALSE]

EndOperation(top) ==
  /\ steps > 0 /\ (steps = FillDone => top = 0)
  /\ LET seen == InSight(screen, top)
     IN  screen' = Finished(IF screen.must \/ screen.force
                            THEN UpdateDisplay(screen, seen.from, seen.to, screen.force)
                            ELSE screen)
  /\ steps' = 0 /\ UNCHANGED editorHidden

Scroll(top) ==
  /\ steps = 0
  /\ LET seen == InSight(screen, top)
     IN  screen' = UpdateDisplay(screen, seen.from, seen.to, FALSE)
  /\ UNCHANGED <<editorHidden, steps>>

SwitchTab == steps = 0 /\ editorHidden' = ~editorHidden /\ UNCHANGED <<screen, steps>>

\* Changes of a document: one that leaves the last line whole puts at least a
\* line before it or takes one.
Edits ==
  {c \in [from : 0..screen.size - 1, to : 0..screen.size - 1, count : 1..MaxRows,
          whole : BOOLEAN, full : {FALSE}] :
     c.from <= c.to /\ (c.whole => c.count > 1 \/ c.from < c.to)}

ViewNext ==
  \/ \E c \in Edits : EditLines(c)
  \/ \E count \in 1..MaxRows : FillLines(count)
  \/ \E n \in 0..screen.size - 1 : Measure(n)
  \/ \E top \in 0..screen.size : EndOperation(top) \/ Scroll(top)
  \/ SwitchTab

ViewSpec == ViewInit /\ [][ViewNext]_viewVars

-----------------------------------------------------------------------------
\* The views are those of the lines viewFrom up to viewTo, and their elements
\* are in the order of the lines.
ViewsInPlace(s) ==
  /\ Len(s.view) = s.viewTo - s.viewFrom /\ s.viewTo <= s.size
  /\ \A i \in DOMAIN s.view :
       /\ s.view[i].line = s.viewFrom + i - 1
       /\ s.view[i].node \in 0..Len(s.drawn)
       /\ \A j \in 1..i - 1 : s.view[j].node < s.view[i].node \/ s.view[i].node = 0
                                 \/ s.view[j].node = 0

\* What an element says of its line is right, or is noted to be done anew.
Noted(s) ==
  \A i \in DOMAIN s.view :
    LET e == s.view[i]
        n == s.viewFrom + i - 1
    IN  e.node # 0 =>
          /\ e.changed \/ s.drawn[e.node].current
          /\ s.drawn[e.node].number = n \/ (s.numbers # NoNumber /\ s.numbers <= n)

(***************************************************************************)
(* In the midst of an operation, save that which fills the editor anew,    *)
(* the views are those of the lines they stand for and nothing that is     *)
(* out of date in an element goes unnoted.  When no operation runs and the *)
(* views were not given up for a hidden editor, the elements drawn are     *)
(* those of the views, each with the text and the number of its line.  And *)
(* at all times a view built on the side is that of the line at its number *)
(* as it is now, if there is such a line.                                  *)
(***************************************************************************)
DisplayFollows ==
  LET s == screen
  IN  /\ s.ext # NoView /\ s.ext.lineN < s.size =>
           s.ext = [line |-> s.ext.lineN, lineN |-> s.ext.lineN, current |-> TRUE]
      /\ s.viewFrom < s.size => ViewsInPlace(s) /\ Noted(s)
      /\ steps = 0 /\ s.view # <<>> =>
           s.drawn = [i \in DOMAIN s.view |->
                        [current |-> TRUE, number |-> s.viewFrom + i - 1]]
=============================================================================
