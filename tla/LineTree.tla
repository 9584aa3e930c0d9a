------------------------------ MODULE LineTree ------------------------------
(***************************************************************************)
(* The lines of a document of the query editor (CodeMirror 5.19), which    *)
(* are kept in a tree: leaves hold lines, branches hold leaves and         *)
(* branches, and every chunk keeps the height of its lines and a branch    *)
(* their number, by which lines are found by number and by height.         *)
(* The nesting of the chunks stands for the parent links.  A line is no    *)
(* more here than its height.                                              *)
(***************************************************************************)
EXTENDS Integers, SequencesExt

CONSTANTS
  Slice,       \* 25: lines of a slice; two of them fill a leaf
  Spill,       \* 5: children that are spilled; two times as many fill a branch
  LineHeights, \* the heights a line may have
  MaxLines     \* bound: lines of the document

ASSUME TreeAssumption ==
  /\ Slice \in Nat \ {0} /\ Spill \in Nat \ {0} /\ MaxLines \in Nat
  /\ LineHeights \subseteq Nat \ {0}

VARIABLES
  chunk,    \* the document, the branch at the root
  plain     \* history: its lines, one after the other

lineVars == <<chunk, plain>>

Total(heights) == FoldLeft(+, 0, heights)
Part(s, at, n) == SubSeq(s, at + 1, at + n)
From(s, at) == SubSeq(s, at + 1, Len(s))

IsLeaf(c) == "lines" \in DOMAIN c
ChunkSize(c) == IF IsLeaf(c) THEN Len(c.lines) ELSE c.size
Sizes(children) == Total([i \in DOMAIN children |-> ChunkSize(children[i])])
HeightsOf(children) == Total([i \in DOMAIN children |-> children[i].height])

LeafChunk(lines) == [lines |-> lines, height |-> Total(lines)]
BranchChunk(children) ==
  [children |-> children, size |-> Sizes(children), height |-> HeightsOf(children)]

RECURSIVE Collapse(_)
Collapse(c) ==
  IF IsLeaf(c) THEN c.lines
  ELSE FlattenSeq([i \in DOMAIN c.children |-> Collapse(c.children[i])])

-----------------------------------------------------------------------------
\* removeInner: n lines from the offset at; a branch left with few lines
\* becomes one of a single leaf.
RECURSIVE RemoveInner(_, _, _)
RemoveInner(c, at, n) ==
  IF IsLeaf(c)
  THEN [lines |-> Part(c.lines, 0, at) \o From(c.lines, at + n),
        height |-> c.height - Total(Part(c.lines, at, n))]
  ELSE LET take(r, child) ==
             LET sz == ChunkSize(child)
                 rm == IF r.n < sz - r.at THEN r.n ELSE sz - r.at
                 cut == RemoveInner(child, r.at, rm)
             IN  IF r.n = 0 THEN [r EXCEPT !.kept = Append(@, child)]
                 ELSE IF r.at >= sz
                 THEN [r EXCEPT !.kept = Append(@, child), !.at = @ - sz]
                 ELSE [kept |-> IF rm = sz THEN r.kept ELSE Append(r.kept, cut),
                       height |-> r.height - (child.height - cut.height),
                       at |-> 0, n |-> r.n - rm]
           out == FoldLeft(take, [kept |-> <<>>, height |-> c.height, at |-> at,
                                  n |-> n], c.children)
           left == [children |-> out.kept, size |-> c.size - n, height |-> out.height]
       IN  IF /\ left.size < Slice
              /\ Len(out.kept) # 1 \/ ~IsLeaf(out.kept[1])
           THEN [left EXCEPT !.children = <<LeafChunk(Collapse(left))>>]
           ELSE left

\* A leaf that has grown too long, cut into slices; the first keeps the rest.
CutLeaf(leaf) ==
  IF Len(leaf.lines) <= 2 * Slice THEN <<leaf>>
  ELSE LET remaining == (Len(leaf.lines) % Slice) + Slice
           slices == [i \in 1..(Len(leaf.lines) - remaining) \div Slice |->
                        LeafChunk(Part(leaf.lines, remaining + (i - 1) * Slice, Slice))]
       IN  <<[lines |-> Part(leaf.lines, 0, remaining),
              height |-> leaf.height - HeightsOf(slices)]>> \o slices

\* Mutant: what is spilled is still counted in the height.
RECURSIVE SpilledHigh(_)
SpilledHigh(c) ==
  IF Len(c.children) <= 2 * Spill THEN <<c>>
  ELSE LET stay == Len(c.children) - Spill
           sibling == BranchChunk(From(c.children, stay))
       IN  SpilledHigh([children |-> Part(c.children, 0, stay),
                        size |-> c.size - sibling.size,
                        height |-> c.height]) \o <<sibling>>

\* maybeSpill: a branch and the siblings split off its end.
RECURSIVE Spilled(_)
Spilled(c) ==
  IF Len(c.children) <= 2 * Spill THEN <<c>>
  ELSE LET stay == Len(c.children) - Spill
           sibling == BranchChunk(From(c.children, stay))
       IN  Spilled([children |-> Part(c.children, 0, stay),
                    size |-> c.size - sibling.size,
                    height |-> c.height - sibling.height]) \o <<sibling>>

\* maybeSpill at the root: it becomes the parent of what it is split into.
RECURSIVE Rooted(_, _)
Rooted(parts, whole) ==
  IF Len(parts) = 1 THEN parts[1]
  ELSE LET up == [whole EXCEPT !.children = parts]
       IN  IF Len(parts) <= 2 * Spill THEN up ELSE Rooted(Spilled(up), up)

\* insertInner: the chunk, with the siblings it spills.
RECURSIVE InsertInner(_, _, _)
InsertInner(c, at, lines) ==
  IF IsLeaf(c)
  THEN <<[lines |-> Part(c.lines, 0, at) \o lines \o From(c.lines, at),
          height |-> c.height + Total(lines)]>>
  ELSE LET before(i) == Sizes(Part(c.children, 0, i - 1))
           i == CHOOSE j \in DOMAIN c.children :
                  /\ at <= before(j + 1)
                  /\ \A k \in 1..j - 1 : at > before(k + 1)
           child == c.children[i]
           grown == InsertInner(child, at - before(i), lines)
           parts == IF IsLeaf(child) THEN CutLeaf(grown[1]) ELSE grown
           whole == [children |-> Part(c.children, 0, i - 1) \o parts \o From(c.children, i),
                     size |-> c.size + Len(lines), height |-> c.height + Total(lines)]
       IN  IF Len(parts) = 1 THEN <<whole>> ELSE Spilled(whole)

\* The child that holds line n, and the lines before it.
Child(c, n) ==
  LET before(i) == Sizes(Part(c.children, 0, i - 1))
      i == CHOOSE j \in DOMAIN c.children : before(j) <= n /\ n < before(j + 1)
  IN  [at |-> i, before |-> before(i)]

\* updateLineHeight: the difference goes up to the root.
RECURSIVE UpdateLineHeight(_, _, _)
UpdateLineHeight(c, n, height) ==
  IF IsLeaf(c)
  THEN [lines |-> [c.lines EXCEPT ![n + 1] = height],
        height |-> c.height + (height - c.lines[n + 1])]
  ELSE LET k == Child(c, n)
           new == UpdateLineHeight(c.children[k.at], n - k.before, height)
       IN  [c EXCEPT !.children[k.at] = new,
                     !.height = @ + (new.height - c.children[k.at].height)]

-----------------------------------------------------------------------------
(* What lines are looked up with. *)

RECURSIVE GetLine(_, _)
GetLine(c, n) ==
  IF IsLeaf(c) THEN c.lines[n + 1]
  ELSE LET k == Child(c, n) IN GetLine(c.children[k.at], n - k.before)

\* heightAtLine, on the way up from line n.
RECURSIVE HeightAtLine(_, _)
HeightAtLine(c, n) ==
  IF IsLeaf(c) THEN Total(Part(c.lines, 0, n))
  ELSE LET k == Child(c, n)
       IN  HeightAtLine(c.children[k.at], n - k.before)
             + HeightsOf(Part(c.children, 0, k.at - 1))

\* lineAtHeight, by the heights the chunks keep.
RECURSIVE LineAtHeight(_, _)
LineAtHeight(c, h) ==
  LET tall == IF IsLeaf(c) THEN c.lines
              ELSE [i \in DOMAIN c.children |-> c.children[i].height]
      above(i) == Total(Part(tall, 0, i - 1))
      past == {i \in DOMAIN tall : h < above(i + 1)}
      i == CHOOSE j \in past : \A k \in past : j <= k
  IN  IF past = {} THEN ChunkSize(c)
      ELSE IF IsLeaf(c) THEN i - 1
      ELSE Sizes(Part(c.children, 0, i - 1)) + LineAtHeight(c.children[i], h - above(i))

-----------------------------------------------------------------------------
(* Doc.insert and Doc.remove, as updateDoc calls them: a document keeps at *)
(* least one line.                                                         *)

Lines == Len(plain)

LinesInit ==
  /\ plain \in {<<h>> : h \in LineHeights}
  /\ chunk = BranchChunk(<<LeafChunk(plain)>>)

InsertLines(at, lines) ==
  /\ Lines + Len(lines) <= MaxLines
  /\ chunk' = Rooted(InsertInner(chunk, at, lines),
                     [chunk EXCEPT !.size = @ + Len(lines),
                                   !.height = @ + Total(lines)])
  /\ plain' = Part(plain, 0, at) \o lines \o From(plain, at)

RemoveLines(at, n) ==
  /\ n < Lines
  /\ chunk' = RemoveInner(chunk, at, n)
  /\ plain' = Part(plain, 0, at) \o From(plain, at + n)

MeasureLine(n, height) ==
  /\ height # plain[n + 1]
  /\ chunk' = UpdateLineHeight(chunk, n, height)
  /\ plain' = [plain EXCEPT ![n + 1] = height]

\* The lines inserted at once are of one height, save the last.
Inserts == {[i \in 1..n |-> IF i = n THEN h ELSE g] :
              n \in 1..MaxLines, g \in LineHeights, h \in LineHeights}

LinesNext ==
  \/ \E at \in 0..Lines, lines \in Inserts : InsertLines(at, lines)
  \/ \E at \in 0..Lines - 1 : \E n \in 1..Lines - at : RemoveLines(at, n)
  \/ \E n \in 0..Lines - 1, h \in LineHeights : MeasureLine(n, h)

LinesSpec == LinesInit /\ [][LinesNext]_lineVars

-----------------------------------------------------------------------------
RECURSIVE Balanced(_)
Balanced(c) ==
  IF IsLeaf(c) THEN c.height = Total(c.lines) /\ Len(c.lines) \in 1..2 * Slice
  ELSE /\ c.size = Sizes(c.children) /\ c.height = HeightsOf(c.children)
       /\ Len(c.children) \in 1..2 * Spill
       /\ \A i \in DOMAIN c.children : Balanced(c.children[i])

(***************************************************************************)
(* However lines come, go and change their height, the tree holds the      *)
(* lines of the document in their order, every chunk knows their number    *)
(* and height, no chunk is empty or too full, and each line is found by    *)
(* its number and at every height it covers.                               *)
(***************************************************************************)
TreeHoldsLines ==
  /\ Collapse(chunk) = plain /\ Balanced(chunk)
  /\ \A n \in 0..Lines - 1 :
       LET top == Total(Part(plain, 0, n))
       IN  /\ GetLine(chunk, n) = plain[n + 1] /\ HeightAtLine(chunk, n) = top
           /\ \A h \in top..top + plain[n + 1] - 1 : LineAtHeight(chunk, h) = n
  /\ LineAtHeight(chunk, Total(plain)) = Lines
=============================================================================
