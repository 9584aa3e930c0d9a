--------------------------- MODULE HighlightWorker ---------------------------
(***************************************************************************)
(* How the query editor colours SQL (CodeMirror 5.19, mode text/x-mariadb).*)
(*                                                                         *)
(* A string or a comment may go on over lines, so the colours of a line    *)
(* depend on all lines before it.  They are computed when a line is drawn, *)
(* from the nearest state that some line before it keeps, which may be     *)
(* out of date; a timer goes over the lines from the frontier on, up to    *)
(* which all is known to be right, and has those redrawn that come out     *)
(* otherwise.                                                              *)
(*                                                                         *)
(* Lines are counted from 0.  Lines are not indented, and not too long to  *)
(* be coloured.                                                            *)
(***************************************************************************)
EXTENDS Integers, SequencesExt

CONSTANTS
  SqlLines,  \* what a line may say, as sequences of characters
  Every,     \* every so many lines a state is kept out of sight, 5
  Lookback,  \* so many lines are searched for a state, 100
  Ahead,     \* so many lines after those drawn are coloured, 500
  InView,    \* how many lines may be drawn
  MaxSql     \* bound: lines of the document

ASSUME HighlightAssumption ==
  /\ {Every, Lookback, InView} \subseteq Nat \ {0} /\ Ahead \in Nat /\ MaxSql \in Nat
  /\ Lookback >= Every /\ SqlLines \subseteq Seq(STRING)

VARIABLES
  sql,       \* the document: text of each line, and what is kept of it
  frontier,  \* doc.frontier
  inView,    \* the lines that are drawn, from and up to
  worker     \* the timer is set

sqlVars == <<sql, frontier, inView, worker>>

-----------------------------------------------------------------------------
(* The mode: tokenBase, tokenLiteral and tokenComment.  r.state is what    *)
(* state.tokenize is, r.now how far the token has come.                    *)

Step(r, ch) ==
  LET styled(style, state, now) ==
        [state |-> state, now |-> now, styles |-> Append(r.styles, style)]
  IN  CASE r.now = "to the end" -> styled("comment", "base", r.now)
        [] r.now # "to the end" /\ r.state = "literal" ->
             styled("string", IF ch = "'" /\ r.now # "escaped" THEN "base" ELSE "literal",
                    IF ch = "\\" /\ r.now # "escaped" THEN "escaped" ELSE "plain")
        [] r.state = "comment" ->
             styled("comment", IF ch = "/" /\ r.now = "star" THEN "base" ELSE "comment",
                    IF ch = "*" THEN "star" ELSE "plain")
        [] r.state = "base" /\ r.now # "to the end" ->
             IF ch = "'" THEN styled("string", "literal", "plain")
             ELSE IF ch = "#" THEN styled("comment", "base", "to the end")
             ELSE IF ch = "*" /\ r.now = "slash"
             THEN [state |-> "comment", now |-> "plain",
                   styles |-> Front(r.styles) \o <<"comment", "comment">>]
             ELSE styled("none", "base", IF ch = "/" THEN "slash" ELSE "plain")

\* runMode over a line: its styles and the state after it.
RunMode(text, state) ==
  FoldLeft(Step, [state |-> state, now |-> "plain", styles |-> <<>>], text)

StateAfter(text, state) == RunMode(text, state).state

-----------------------------------------------------------------------------
(* What is kept of a line: its styles and the state after it; shown are    *)
(* the styles it is drawn with.  skipped is a history: the timer went over *)
(* the line when it was out of sight, and left the styles it had.          *)

NoneKept == "none kept"
Unknown == <<"none kept">>
NewLine(text) ==
  [text |-> text, styles |-> Unknown, after |-> NoneKept, shown |-> Unknown,
   skipped |-> FALSE]
At(lines, n) == lines[n + 1]
Drawn(view, n) == view.from <= n /\ n < view.to

\* findStartLine
FindStartLine(lines, n) ==
  LET kept == {k \in 1..n : n - k < Lookback /\ At(lines, k - 1).after # NoneKept}
  IN  IF kept # {} THEN CHOOSE k \in kept : \A j \in kept : j <= k
      ELSE IF n < Lookback THEN 0 ELSE n - 1

\* getStateBefore: the state before line n; on the way states are kept.
Passed(lines, k, state, save) ==
  [lines |-> [lines EXCEPT ![k + 1].after = IF save THEN state ELSE NoneKept],
   state |-> state]
StateBefore(h, n) ==
  LET from == FindStartLine(h.lines, n)
      first == IF from > 0 /\ At(h.lines, from - 1).after # NoneKept
               THEN At(h.lines, from - 1).after ELSE "base"
      save(k) == k = n - 1 \/ k % Every = 0 \/ Drawn(h.view, k)
      pass(r, k) == Passed(r.lines, k, StateAfter(At(r.lines, k).text, r.state), save(k))
  IN  FoldLeft(pass, [lines |-> h.lines, state |-> first],
               [i \in 1..n - from |-> from + i - 1])

\* getLineStyles: the frontier goes on if it was at this line.
Styled(line, out) ==
  [line EXCEPT !.styles = out.styles, !.after = out.state, !.skipped = FALSE]
StyledAfter(before, n) ==
  [before.lines EXCEPT ![n + 1] = Styled(@, RunMode(@.text, before.state))]
Coloured(h, n, moves) ==
  IF At(h.lines, n).styles # Unknown THEN h
  ELSE [h EXCEPT !.lines = StyledAfter(StateBefore(h, n), n),
                 !.frontier = IF moves /\ @ = n THEN @ + 1 ELSE @]

\* The lines of a view that are not drawn, or noted to be drawn again, in
\* their order.
ShownAt(h, n) == [h EXCEPT !.lines[n + 1].shown = At(h.lines, n).styles]
Redrawn(h, noted) ==
  LET draw(r, n) ==
        IF At(r.lines, n).shown # Unknown /\ n \notin noted THEN r
        ELSE ShownAt(Coloured(r, n, TRUE), n)
      out == FoldLeft(draw, h, [i \in 1..h.view.to - h.view.from |-> h.view.from + i - 1])
  IN  [out EXCEPT !.lines = [i \in DOMAIN @ |->
                               IF Drawn(h.view, i - 1) THEN @[i]
                               ELSE [@[i] EXCEPT !.shown = Unknown]]]

Here == [lines |-> sql, frontier |-> frontier, view |-> inView]
Becomes(h, timer) ==
  /\ sql' = h.lines /\ frontier' = h.frontier /\ inView' = h.view /\ worker' = timer

\* startWorker
WorkerStarts(h) == worker \/ h.frontier < h.view.to

-----------------------------------------------------------------------------
Views(n) ==
  {v \in [from : 0..n - 1, to : 1..n] : v.from < v.to /\ v.to - v.from <= InView}

HighlightInit ==
  /\ sql = <<NewLine(<<>>)>> /\ frontier = 0
  /\ inView = [from |-> 0, to |-> 0] /\ worker = FALSE

\* Scrolling, or drawing for the first time.
ScrollSql(view) ==
  /\ view # inView
  /\ LET h == Redrawn([Here EXCEPT !.view = view], {}) IN Becomes(h, WorkerStarts(h))

\* Mutant: the frontier stays where it is unless the change is in sight.
LoweredInSight(n) == IF frontier < n \/ ~Drawn(inView, n) THEN frontier ELSE n

\* A change lowers the frontier.
Lowered(n) == IF frontier < n THEN frontier ELSE n

\* Line n says something else.
TypeSql(n, text) ==
  /\ text # At(sql, n).text
  /\ LET h == [lines |-> [sql EXCEPT ![n + 1] =
                            [@ EXCEPT !.text = text, !.styles = Unknown, !.after = NoneKept,
                                      !.skipped = FALSE]],
               frontier |-> Lowered(n), view |-> inView]
     IN  Becomes(Redrawn(h, {n}), WorkerStarts(h))

\* A line is put before line n, or line n goes: the views move along, and the
\* display is brought to lines that are near.
Replaced(n, lines, gone) ==
  /\ Len(sql) + Len(lines) - gone \in 1..MaxSql
  /\ LET all == SubSeq(sql, 1, n) \o lines \o SubSeq(sql, n + gone + 1, Len(sql))
         h == [lines |-> all, frontier |-> Lowered(n), view |-> inView]
     IN  \E view \in Views(Len(all)) :
           LET out == Redrawn([h EXCEPT !.view = view], {})
           IN  Becomes(out, WorkerStarts(h) \/ WorkerStarts(out))

InsertSql(n, text) == Replaced(n, <<NewLine(text)>>, 0)
DeleteSql(n) == Replaced(n, <<>>, 1)

\* getTokenAt, and a line that is measured out of sight.
TokenAt(n) ==
  /\ Becomes([Here EXCEPT !.lines = StateBefore(Here, n).lines], worker)
MeasureSql(n) ==
  /\ ~Drawn(inView, n)
  /\ Becomes(Coloured(Here, n, FALSE), worker)

\* highlightWorker, up to line stop: it may run out of time after any line.
Recoloured(h, stop) ==
  LET colour(r, k, out, seen) ==
        [lines |-> [r.lines EXCEPT ![k + 1] =
                      [@ EXCEPT !.styles = IF seen THEN out.styles
                                            ELSE At(r.lines, k).styles,
                                !.after = IF seen \/ k % Every = 0 THEN out.state
                                          ELSE NoneKept,
                                !.skipped = ~seen /\ At(r.lines, k).styles # Unknown]],
         state |-> out.state,
         noted |-> IF seen /\ At(r.lines, k).styles # out.styles
                   THEN r.noted \cup {k} ELSE r.noted]
      pass(r, k) ==
        colour(r, k, RunMode(At(r.lines, k).text, r.state), k >= h.view.from)
      start(before) == [lines |-> before.lines, state |-> before.state, noted |-> {}]
      draw(out) == Redrawn([h EXCEPT !.lines = out.lines, !.frontier = stop], out.noted)
  IN  draw(FoldLeft(pass, start(StateBefore(h, h.frontier)),
                    [i \in 1..stop - h.frontier |-> h.frontier + i - 1]))

Work ==
  /\ worker
  /\ IF frontier >= inView.to THEN Becomes(Here, FALSE)
     ELSE LET end == IF inView.to + Ahead < Len(sql) THEN inView.to + Ahead ELSE Len(sql)
          IN  \E stop \in frontier + 1..end :
                LET h == Recoloured(Here, stop) IN Becomes(h, h.frontier < h.view.to)

HighlightNext ==
  \/ \E view \in Views(Len(sql)) : ScrollSql(view)
  \/ \E n \in 0..Len(sql) - 1 :
       \/ \E text \in SqlLines : TypeSql(n, text)
       \/ DeleteSql(n) \/ TokenAt(n) \/ MeasureSql(n)
  \/ \E n \in 0..Len(sql), text \in SqlLines : InsertSql(n, text)
  \/ Work

HighlightSpec == HighlightInit /\ [][HighlightNext]_sqlVars

-----------------------------------------------------------------------------
\* The state before line n, from the top.
TrueState(n) == FoldLeft(LAMBDA state, line : StateAfter(line.text, state), "base",
                         SubSeq(sql, 1, n))

(***************************************************************************)
(* Below the frontier all is right: the states kept, and the styles of     *)
(* every line, unless the timer went over the line when it was out of      *)
(* sight and left it styles from before.  A line is drawn with the styles  *)
(* kept of it.  And as long as a line that is drawn is not below the       *)
(* frontier, the timer is set.                                             *)
(***************************************************************************)
ColoursSettle ==
  /\ \A n \in 0..Len(sql) - 1 :
       LET line == At(sql, n)
           right == RunMode(line.text, TrueState(n))
       IN  /\ n < frontier =>
                /\ line.after \in {NoneKept, right.state}
                /\ line.styles \in {Unknown, right.styles} \/ line.skipped
           /\ Drawn(inView, n) => line.shown = line.styles /\ line.shown # Unknown
  /\ frontier < inView.to => worker
=============================================================================
