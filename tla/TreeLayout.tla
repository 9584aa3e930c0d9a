----------------------------- MODULE TreeLayout -----------------------------
(***************************************************************************)
(* The layout of d3.layout.tree (d3 2.4.4), with which the tree diagrams   *)
(* place their nodes across the picture: Buchheim's algorithm, which walks *)
(* the tree once bottom up, keeping for every node the temporary record    *)
(* node._tree, and once top down.                                          *)
(*                                                                         *)
(* A tree is the function kids from a node to the sequence of its children *)
(* that are shown; nodes are numbers in preorder and the root is 1.        *)
(* Lengths are whole multiples of 1 / Unit, in which every division of the *)
(* algorithm must come out even (Over fails otherwise).                    *)
(***************************************************************************)
EXTENDS Integers, Sequences, FiniteSets

Unit == 96
NoChild == 0

Over(a, b) == CHOOSE q \in {a \div b} : q * b = a

Parent(kids, n) ==
  IF n = 1 THEN NoChild
  ELSE CHOOSE m \in DOMAIN kids : \E i \in DOMAIN kids[m] : kids[m][i] = n

\* d3_layout_treeSeparation
Separation(kids, a, b) ==
  IF Parent(kids, a) = Parent(kids, b) THEN Unit ELSE 2 * Unit

-----------------------------------------------------------------------------
(* node._tree of every node, as the function t; Left and Right follow the  *)
(* contour of a subtree.                                                   *)

Fresh(kids) ==
  [n \in DOMAIN kids |->
     [ancestor |-> n, prelim |-> 0, mod |-> 0, change |-> 0, shift |-> 0,
      thread |-> NoChild,
      number |-> IF n = 1 THEN 0
                 ELSE LET k == kids[Parent(kids, n)]
                      IN  (CHOOSE i \in DOMAIN k : k[i] = n) - 1]]

Left(kids, t, n) == IF kids[n] = <<>> THEN t[n].thread ELSE Head(kids[n])
Right(kids, t, n) ==
  IF kids[n] = <<>> THEN t[n].thread ELSE kids[n][Len(kids[n])]

\* d3_layout_treeMove: node goes to the right, the nodes between share it.
Move(t, ancestor, node, shift) ==
  LET change == Over(shift, t[node].number - t[ancestor].number)
      moved == [t EXCEPT ![ancestor].change = @ + change]
  IN  [moved EXCEPT ![node].change = @ - change, ![node].shift = @ + shift,
                    ![node].prelim = @ + shift, ![node].mod = @ + shift]

\* d3_layout_treeShift: the shares are handed out, last child first.
RECURSIVE Shift(_, _, _, _, _)
Shift(t, k, i, shift, change) ==
  IF i = 0 THEN t
  ELSE LET c == t[k[i]]
       IN  Shift([t EXCEPT ![k[i]].prelim = @ + shift, ![k[i]].mod = @ + shift],
                 k, i - 1, shift + c.shift + change + c.change, change + c.change)

\* The loop of apportion: down the contours of node's subtree (p) and of the
\* subtrees to its left (m), inside (i) and outside (o), with sums of mods.
RECURSIVE Descend(_, _, _, _)
Descend(kids, node, ancestor, r) ==
  LET vim == Right(kids, r.t, r.vim)
      vip == Left(kids, r.t, r.vip)
  IN  IF vim = NoChild \/ vip = NoChild THEN [r EXCEPT !.vim = vim, !.vip = vip]
      ELSE
        LET vom == Left(kids, r.t, r.vom)
            vop == Right(kids, r.t, r.vop)
            t1 == [r.t EXCEPT ![vop].ancestor = node]
            shift == t1[vim].prelim + r.sim - t1[vip].prelim - r.sip
                       + Separation(kids, vim, vip)
            claimed == t1[vim].ancestor
            left == IF Parent(kids, claimed) = Parent(kids, node) THEN claimed
                    ELSE ancestor
            t2 == IF shift > 0 THEN Move(t1, left, node, shift) ELSE t1
            more == IF shift > 0 THEN shift ELSE 0
        IN  Descend(kids, node, ancestor,
              [t |-> t2, vim |-> vim, vip |-> vip, vom |-> vom, vop |-> vop,
               sim |-> r.sim + t2[vim].mod, sip |-> r.sip + more + t2[vip].mod,
               som |-> r.som + t2[vom].mod, sop |-> r.sop + more + t2[vop].mod])

\* Mutant: the thread leaves the sum of mods as it is.
ThreadedLoose(kids, node, ancestor, r) ==
  LET onRight == r.vim # NoChild /\ Right(kids, r.t, r.vop) = NoChild
      t1 == IF onRight THEN [r.t EXCEPT ![r.vop].thread = r.vim] ELSE r.t
      onLeft == r.vip # NoChild /\ Left(kids, t1, r.vom) = NoChild
  IN  IF onLeft THEN [t |-> [t1 EXCEPT ![r.vom].thread = r.vip], ancestor |-> node]
      ELSE [t |-> t1, ancestor |-> ancestor]

\* A contour that ends first is continued by a thread to the other; r is where
\* the descent has ended.
Threaded(kids, node, ancestor, r) ==
  LET onRight == r.vim # NoChild /\ Right(kids, r.t, r.vop) = NoChild
      t1 == IF onRight THEN [r.t EXCEPT ![r.vop].thread = r.vim,
                                        ![r.vop].mod = @ + r.sim - r.sop]
            ELSE r.t
      onLeft == r.vip # NoChild /\ Left(kids, t1, r.vom) = NoChild
  IN  IF onLeft
      THEN [t |-> [t1 EXCEPT ![r.vom].thread = r.vip,
                             ![r.vom].mod = @ + r.sip - r.som],
            ancestor |-> node]
      ELSE [t |-> t1, ancestor |-> ancestor]

\* apportion: node's subtree clears those to its left.
Apportion(kids, t, node, previous, ancestor) ==
  LET first == kids[Parent(kids, node)][1]
  IN  Threaded(kids, node, ancestor,
        Descend(kids, node, ancestor,
          [t |-> t, vim |-> previous, vip |-> node, vom |-> first,
           vop |-> node, sim |-> t[previous].mod, sip |-> t[node].mod,
           som |-> t[first].mod, sop |-> t[node].mod]))

\* A node beside the one before it, over the middle of its children.
Centred(kids, t, node, previous) ==
  LET k == kids[node]
      beside == t[previous].prelim + Separation(kids, node, previous)
      midpoint == Over(t[Head(k)].prelim + t[k[Len(k)]].prelim, 2)
  IN  IF previous = NoChild THEN [t EXCEPT ![node].prelim = midpoint]
      ELSE [t EXCEPT ![node].prelim = beside, ![node].mod = beside - midpoint]

\* firstWalk, and its loop over the children of a node.
RECURSIVE FirstWalk(_, _, _, _), WalkChildren(_, _, _, _, _)
WalkChildren(kids, t, k, i, ancestor) ==
  IF i > Len(k) THEN t
  ELSE IF i = 1
       THEN WalkChildren(kids, FirstWalk(kids, t, k[1], NoChild), k, 2, ancestor)
       ELSE LET r == Apportion(kids, FirstWalk(kids, t, k[i], k[i - 1]),
                               k[i], k[i - 1], ancestor)
            IN  WalkChildren(kids, r.t, k, i + 1, r.ancestor)

FirstWalk(kids, t, node, previous) ==
  LET k == kids[node]
      beside == t[previous].prelim + Separation(kids, node, previous)
  IN  IF k # <<>>
      THEN Centred(kids, Shift(WalkChildren(kids, t, k, 1, k[1]), k, Len(k), 0, 0),
                   node, previous)
      ELSE IF previous = NoChild THEN t ELSE [t EXCEPT ![node].prelim = beside]

\* secondWalk: a node's mod moves all that is below it.
RECURSIVE ModsAbove(_, _, _)
ModsAbove(kids, t, n) ==
  IF n = 1 THEN 0
  ELSE LET m == Parent(kids, n) IN t[m].mod + ModsAbove(kids, t, m)
SecondWalk(kids, t) ==
  [n \in DOMAIN kids |-> t[n].prelim - t[1].prelim + ModsAbove(kids, t, n)]

\* x as fractions across / of of the height of the picture, which leaves half
\* a separation at either end.
Scaled(kids, x) ==
  LET first(S) == CHOOSE n \in S : \A m \in S : n <= m
      left == first({n \in DOMAIN x : \A m \in DOMAIN x : x[n] <= x[m]})
      right == first({n \in DOMAIN x : \A m \in DOMAIN x : x[n] >= x[m]})
      x0 == x[left] - Over(Separation(kids, left, right), 2)
      x1 == x[right] + Over(Separation(kids, right, left), 2)
  IN  [n \in DOMAIN kids |-> [across |-> x[n] - x0, of |-> x1 - x0]]

\* tree(d): where the nodes stand.
Layout(kids) == Scaled(kids, SecondWalk(kids, FirstWalk(kids, Fresh(kids), 1, NoChild)))

-----------------------------------------------------------------------------
RECURSIVE Depth(_, _)
Depth(kids, n) == IF n = 1 THEN 0 ELSE 1 + Depth(kids, Parent(kids, n))

(***************************************************************************)
(* What the drawing of a tree must look like: on every level the nodes     *)
(* stand in their order with the separation between neighbours kept, a     *)
(* parent stands over the middle of its first and last child, and all of   *)
(* them stand inside the picture.                                          *)
(***************************************************************************)
Tidy(kids, place) ==
  /\ \A a, b \in DOMAIN kids :
       a < b /\ Depth(kids, a) = Depth(kids, b) =>
         place[b].across - place[a].across >= Separation(kids, a, b)
  /\ \A n \in DOMAIN kids : kids[n] # <<>> =>
       2 * place[n].across
         = place[Head(kids[n])].across + place[kids[n][Len(kids[n])]].across
  /\ \A n \in DOMAIN kids : 0 < place[n].across /\ place[n].across < place[n].of

\* The tree seen in a mirror, with the same names.
Mirrored(kids) == [n \in DOMAIN kids |->
                     [i \in DOMAIN kids[n] |-> kids[n][Len(kids[n]) + 1 - i]]]
Symmetric(kids, place) ==
  LET other == Layout(Mirrored(kids))
  IN  \A n \in DOMAIN kids : other[n].across = place[n].of - place[n].across
=============================================================================
