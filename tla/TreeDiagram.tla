---------------------------- MODULE TreeDiagram ----------------------------
(***************************************************************************)
(* The tree diagrams of the consumer page and of the resource page, drawn  *)
(* with d3 2.4.4.  A click on a node folds or unfolds it and redraws the   *)
(* picture: the nodes shown are laid out anew, joined by key to the        *)
(* elements still in the document, and transitions are started that move   *)
(* the elements to their new places and remove those that are not wanted   *)
(* any more.  Transitions run in frames; a click may come while those of   *)
(* earlier clicks still run, and may start or fold nodes on their way out. *)
(*                                                                         *)
(* An element is named by <<kind, node>>: the group of a node, or the path *)
(* of the link to it.  The circle and the text of a group go through the   *)
(* same transitions as the group and are part of how it looks.             *)
(***************************************************************************)
EXTENDS TreeLayout, SequencesExt

CONSTANTS
  Shapes,     \* the trees the server may answer: node -> parent, in preorder
  Overlap     \* bound: size of the tree -> clicks from rest to rest

VARIABLES
  shape,      \* the tree of this page
  folded,     \* the nodes whose children are in _children
  spot,       \* d.x of every node, as of the last layout it was part of
  drawn,      \* the elements of the document
  queue,      \* d3_timer_queue, newest first
  lastId,     \* d3_transitionId, counted from the last rest
  overlapping,\* clicks since the last rest
  late        \* history: a transition ended in the frame it began in

treeVars ==
  <<shape, folded, spot, drawn, queue, lastId, overlapping, late>>

Nodes == DOMAIN shape
Children(n) == SelectSeq([i \in 1..Len(shape) |-> i], LAMBDA i : shape[i] = n)

\* A node that is shown, and the children it shows them with.
RECURSIVE Visible(_, _)
Visible(n, closed) ==
  n = 1 \/ (shape[n] \notin closed /\ Visible(shape[n], closed))
ShownTree(closed) ==
  [n \in {m \in Nodes : Visible(m, closed)} |->
     IF n \in closed THEN <<>> ELSE Children(n)]

Keys(kids) == {<<"node", n>> : n \in DOMAIN kids}
                \cup {<<"link", n>> : n \in DOMAIN kids \ {1}}

-----------------------------------------------------------------------------
(* Transitions.  node.__transition__ is the lock of an element: the id of  *)
(* the transition that owns it, and how many have begun and not ended.     *)

Moving == [size |-> "between"]
NoLock == [active |-> 0, count |-> 0]

\* What a transition moves an element to, computed when it begins: its own
\* place and fill, or nothing at the place of the node clicked.
Aim(key, c) ==
  LET n == key[2]
  IN  IF c.exit THEN [size |-> "none", at |-> spot[c.source]]
      ELSE IF key[1] = "node"
           THEN [size |-> "full", at |-> spot[n], fill |-> n \in folded]
           ELSE [size |-> "full", at |-> <<spot[shape[n]], spot[n]>>]

Released(el) ==
  [el EXCEPT !.lock = IF @.count = 1 THEN NoLock ELSE [@ EXCEPT !.count = @ - 1]]

\* Mutant: an exiting element is removed by whatever transition ends.
EndedRemoving(els, keys, c) ==
  LET out == {k \in keys : Released(els[k]).lock = NoLock}
  IN  [k \in DOMAIN els \ out |-> IF k \in keys THEN Released(els[k]) ELSE els[k]]

\* stop(), the end event and remove(): an element goes at the end of its exit
\* if no other transition holds its lock.
Ended(els, keys, c) ==
  LET out == IF c.exit THEN {k \in keys : Released(els[k]).lock = NoLock} ELSE {}
  IN  [k \in DOMAIN els \ out |-> IF k \in keys THEN Released(els[k]) ELSE els[k]]

\* start() for the elements of a transition in its first frame.  r.els are
\* the elements, r.begun the transitions that go on, r.kept those before it.
Begin(r, c, now) ==
  LET mine == {k \in c.keys \cap DOMAIN r.els : r.els[k].lock.active <= c.id}
      aims == [k \in mine |-> Aim(k, c)]
      held == [k \in DOMAIN r.els |->
                 IF k \notin mine THEN r.els[k]
                 ELSE [look |-> IF now THEN aims[k] ELSE Moving,
                       lock |-> [active |-> c.id,
                                 count |-> r.els[k].lock.count + 1]]]
  IN  IF now THEN [r EXCEPT !.els = Ended(held, mine, c)]
      ELSE [r EXCEPT !.els = held,
                     !.begun = <<[id |-> c.id, slow |-> c.slow, exit |-> c.exit,
                                  begun |-> TRUE, aims |-> aims]>> \o @]

\* Mutant: a transition goes on after another has taken its element.
TickHeedless(r, c, now) ==
  LET mine == DOMAIN c.aims \cap DOMAIN r.els
      lost == {}
      freed == [k \in DOMAIN r.els |->
                  IF k \in lost THEN Released(r.els[k])
                  ELSE IF k \in mine /\ now THEN [r.els[k] EXCEPT !.look = c.aims[k]]
                  ELSE r.els[k]]
  IN  IF now THEN [r EXCEPT !.els = Ended(freed, mine, c)]
      ELSE [r EXCEPT !.els = freed,
                     !.kept = Append(@, [c EXCEPT !.aims = [k \in mine |-> @[k]]])]

\* tick(): a transition lets go of the elements that another has taken, and
\* of all at its end.
Tick(r, c, now) ==
  LET here == DOMAIN c.aims \cap DOMAIN r.els
      mine == {k \in here : r.els[k].lock.active = c.id}
      freed == [k \in DOMAIN r.els |->
                  IF k \in here \ mine THEN Released(r.els[k])
                  ELSE IF k \in mine /\ now THEN [r.els[k] EXCEPT !.look = c.aims[k]]
                  ELSE r.els[k]]
  IN  IF now THEN [r EXCEPT !.els = Ended(freed, mine, c)]
      ELSE [r EXCEPT !.els = freed,
                     !.kept = Append(@, [c EXCEPT !.aims = [k \in mine |-> @[k]]])]

\* d3_timer_step and d3_timer_flush: the callbacks run in the order of the
\* queue; those that are added meanwhile wait for the next frame.
Framed(ended) ==
  LET run(r, c) == IF c.begun THEN Tick(r, c, c.id \in ended)
                   ELSE Begin(r, c, c.id \in ended)
      out == FoldLeft(run, [els |-> drawn, begun |-> <<>>, kept |-> <<>>], queue)
      live(c) == DOMAIN c.aims # {}
  IN  [els |-> out.els, queue |-> SelectSeq(out.begun \o out.kept, live)]

-----------------------------------------------------------------------------
(* The pages. *)

\* The transitions of an update of the source, newest first, with ids from
\* base: those of the groups, then of the links, which begin twice.
Transitions(base, source, slow, wanted, entering, leaving) ==
  LET of(kind, S) == {k \in S : k[1] = kind}
      transition(i, exit, keys) ==
        [id |-> base + i, slow |-> slow, exit |-> exit, begun |-> FALSE,
         source |-> source, keys |-> keys]
  IN  SelectSeq(<<transition(5, TRUE, of("link", leaving)),
                  transition(4, FALSE, of("link", wanted)),
                  transition(3, FALSE, of("link", entering)),
                  transition(2, TRUE, of("node", leaving)),
                  transition(1, FALSE, of("node", wanted))>>,
                LAMBDA c : c.keys # {})

EnteredAt(at) == [look |-> [size |-> "none", at |-> at], lock |-> NoLock]

\* update(source): layout, join, transitions.  The join finds every element
\* in the document, those on their way out included; new ones start as
\* nothing at the place the source had before.
Redraw(source, closed, slow) ==
  LET kids == ShownTree(closed)
      place == Layout(kids)
      wanted == Keys(kids)
      here == DOMAIN drawn
  IN  /\ spot' = [n \in Nodes |-> IF n \in DOMAIN kids THEN place[n] ELSE spot[n]]
      /\ drawn' = [k \in here \cup wanted |->
                     IF k \in here THEN drawn[k] ELSE EnteredAt(spot[source])]
      /\ queue' = Transitions(lastId, source, slow, wanted, wanted \ here,
                              here \ wanted) \o queue
      /\ lastId' = lastId + 5

\* toggle(d)
FoldedAfter(n) ==
  IF Children(n) = <<>> THEN folded
  ELSE IF n \in folded THEN folded \ {n} ELSE folded \cup {n}

\* d3.json: all but the root are folded, its children unfolded again; the
\* root enters from the middle of the left side.
TreeInit ==
  /\ shape \in Shapes
  /\ folded = {n \in Nodes : Children(n) # <<>> /\ n # 1 /\ shape[n] # 1}
  /\ LET kids == ShownTree(folded)
         place == Layout(kids)
     IN  /\ spot = [n \in Nodes |-> IF n \in DOMAIN kids THEN place[n]
                                    ELSE [across |-> 0, of |-> 1]]
         /\ drawn = [k \in Keys(kids) |-> EnteredAt([across |-> 1, of |-> 2])]
         /\ queue = Transitions(0, 1, FALSE, Keys(kids), Keys(kids), {})
  /\ lastId = 5 /\ overlapping = 1 /\ late = FALSE

\* A click on a node that is in the document, on its way out or not; with the
\* alt key its transitions take ten times as long.
ClickNode(n, slow) ==
  /\ <<"node", n>> \in DOMAIN drawn
  /\ overlapping < Overlap[Len(shape)]
  /\ folded' = FoldedAfter(n)
  /\ Redraw(n, folded', slow)
  /\ overlapping' = overlapping + 1
  /\ late' = (late /\ queue # <<>>)
  /\ UNCHANGED shape

\* Transitions of one speed end in the order they were made, and no slow one
\* before an older one that is not.
Ids(slow) == {queue[i].id : i \in {j \in DOMAIN queue : queue[j].slow = slow}}
Frame ==
  /\ queue # <<>>
  /\ \E f \in {0} \cup Ids(FALSE), s \in {0} \cup Ids(TRUE) :
       /\ \A id \in Ids(FALSE) : id < s => id <= f
       /\ LET ended == {id \in Ids(FALSE) : id <= f}
                         \cup {id \in Ids(TRUE) : id <= s}
              next == Framed(ended)
          IN  /\ drawn' = next.els /\ queue' = next.queue
              /\ late' = (late \/ \E i \in DOMAIN queue :
                                    ~queue[i].begun /\ queue[i].id \in ended)
  /\ IF queue' = <<>> THEN lastId' = 0 /\ overlapping' = 0
     ELSE UNCHANGED <<lastId, overlapping>>
  /\ UNCHANGED <<shape, folded, spot>>

TreeNext == Frame \/ \E n \in Nodes, slow \in BOOLEAN : ClickNode(n, slow)
TreeSpec == TreeInit /\ [][TreeNext]_treeVars

-----------------------------------------------------------------------------
DiagramAtRest == queue = <<>>

(***************************************************************************)
(* Every node that is not folded away has its element, and when all        *)
(* transitions have ended these are all there is, each at its place and    *)
(* filled as it is folded; whatever was clicked while others were moving.  *)
(* Only after a frame so late that a transition ended in it as soon as it  *)
(* began may that fail, and only until the next click made at rest; and    *)
(* what is then left of folded nodes is too small to be seen.              *)
(***************************************************************************)
DiagramWhole ==
  LET shown == Keys(ShownTree(folded))
  IN  /\ ~late =>
           /\ shown \subseteq DOMAIN drawn
           /\ DiagramAtRest =>
                /\ DOMAIN drawn = shown
                /\ \A k \in DOMAIN drawn :
                     drawn[k] = [look |-> Aim(k, [exit |-> FALSE]), lock |-> NoLock]
      /\ DiagramAtRest =>
           \A k \in DOMAIN drawn : drawn[k].look.size = "full" => k \in shown

\* The nodes shown are laid out tidily, and so that the mirrored tree is
\* laid out as the mirror image.
LaidOut ==
  LET kids == ShownTree(folded)
      place == [n \in DOMAIN kids |-> spot[n]]
  IN  Tidy(kids, place) /\ Symmetric(kids, place)
=============================================================================
