---------------------------- MODULE EditorProofs ----------------------------
(***************************************************************************)
(* Proofs about the query editor: what the list of completions offers and  *)
(* puts in, for every set of keywords and every line; that the lines are   *)
(* coloured right, for every document and every pace of the timer; and     *)
(* that what is drawn follows the document, however it is changed,         *)
(* measured and scrolled.                                                  *)
(*                                                                         *)
(* The three parts share no variable.  In the second, a row is a line of   *)
(* the document with what is kept of it.  In the third, a view is that of  *)
(* a line near the part seen, and has the number of its element, if any.   *)
(***************************************************************************)
EXTENDS SqlCompletion, HighlightWorker, ViewMap, FoldLemmas, SequenceTheorems, TLAPS

\* A word put in the place of a part of a text.
Spliced(text, from, to, word) ==
  SubSeq(text, 1, from) \o word \o SubSeq(text, to + 1, Len(text))

\* What a splice keeps of the text, and where the word comes to be.
LEMMA PutIn ==
  ASSUME NEW C, NEW text \in Seq(C), NEW word \in Seq(C),
         NEW from \in 0..Len(text), NEW to \in Int, from <= to, NEW out,
         out = Spliced(text, from, to, word)
  PROVE  /\ out \in Seq(C)
         /\ Len(out) >= from + Len(word) /\ Len(out) >= from + Len(word) + Len(text) - to
         /\ to <= Len(text) => Len(out) <= from + Len(word) + Len(text) - to
         /\ \A i \in 1..from : out[i] = text[i]
         /\ \A i \in 1..Len(word) : out[from + i] = word[i]
<1> PICK head : head = SubSeq(text, 1, from)
  OBVIOUS
<1> PICK tail : tail = SubSeq(text, to + 1, Len(text))
  OBVIOUS
<1> PICK front : front = head \o word
  OBVIOUS
<1>0. /\ Len(text) \in Nat /\ Len(word) \in Nat
      /\ \A i \in 1..from : text[i] \in C
      /\ \A i \in to + 1..Len(text) : text[i] \in C
  BY LenProperties
<1>1. head \in Seq(C) /\ Len(head) = from /\ \A i \in 1..from : head[i] = text[i]
  <2>1. /\ head \in Seq(C)
        /\ Len(head) = IF 1 <= from THEN from - 1 + 1 ELSE 0
        /\ \A i \in 1..from - 1 + 1 : head[i] = text[1 + i - 1]
    BY <1>0, SubSeqProperties
  <2> QED BY <2>1
<1>2. tail \in Seq(C) /\ Len(tail) = IF to <= Len(text) THEN Len(text) - to ELSE 0
  <2>1. /\ tail \in Seq(C)
        /\ Len(tail) = IF to + 1 <= Len(text) THEN Len(text) - (to + 1) + 1 ELSE 0
    BY <1>0, SubSeqProperties
  <2> QED BY ONLY <1>0, <2>1
<1>3. /\ front \in Seq(C) /\ Len(front) = from + Len(word)
      /\ \A i \in 1..from + Len(word) : front[i] = IF i <= from THEN head[i]
                                                   ELSE word[i - from]
  BY <1>1, ConcatProperties
<1>7. out = front \o tail
  BY DEF Spliced
<1>8. Len(tail) \in Nat /\ Len(front) \in Nat /\ from \in Nat /\ Len(word) \in Nat
  BY <1>0, <1>2, <1>3, LenProperties
<1>4. /\ out \in Seq(C) /\ Len(out) = Len(front) + Len(tail)
      /\ \A i \in 1..Len(front) + Len(tail) : out[i] = IF i <= Len(front) THEN front[i]
                                                       ELSE tail[i - Len(front)]
  <2>1. /\ front \o tail \in Seq(C) /\ Len(front \o tail) = Len(front) + Len(tail)
        /\ \A i \in 1..Len(front) + Len(tail) :
             (front \o tail)[i] = IF i <= Len(front) THEN front[i]
                                 ELSE tail[i - Len(front)]
    <3>1. front \in Seq(C) /\ tail \in Seq(C)
      BY <1>2, <1>3
    <3> QED BY ONLY <3>1, ConcatProperties
  <2> QED BY ONLY <2>1, <1>7, ZenonT(60)
<1>5. ASSUME NEW i \in 1..from PROVE out[i] = text[i]
  <2>1. i \in 1..Len(front) + Len(tail) /\ i <= Len(front) /\ i \in 1..from + Len(word)
    <3>1. Len(front) = from + Len(word)
      BY <1>3
    <3> QED BY ONLY i \in 1..from, <1>8, <3>1
  <2>2. out[i] = front[i] /\ front[i] = head[i]
    <3>1. out[i] = front[i]
      BY <2>1, <1>4
    <3>2. front[i] = head[i]
      BY <2>1, <1>3
    <3> QED BY <3>1, <3>2
  <2> QED BY <2>2, <1>1
<1>6. ASSUME NEW i \in 1..Len(word) PROVE out[from + i] = word[i]
  <2>1. /\ from + i \in 1..Len(front) + Len(tail) /\ from + i <= Len(front)
        /\ from + i \in 1..from + Len(word) /\ ~(from + i <= from)
        /\ from + i - from = i
    <3>1. Len(front) = from + Len(word)
      BY <1>3
    <3> QED BY ONLY i \in 1..Len(word), <1>8, <3>1
  <2> PICK k : k = from + i
    OBVIOUS
  <2>2. out[k] = front[k]
    BY <2>1, <1>4
  <2>3. front[k] = word[k - from]
    BY <2>1, <1>3
  <2> QED BY <2>1, <2>2, <2>3
<1>9. /\ Len(out) >= from + Len(word) /\ Len(out) >= from + Len(word) + Len(text) - to
      /\ to <= Len(text) => Len(out) = from + Len(word) + Len(text) - to
  <2>1. Len(out) = from + Len(word) + Len(tail)
    BY <1>3, <1>4
  <2>2. CASE to <= Len(text)
    <3>1. Len(tail) = Len(text) - to
      BY <1>2, <2>2
    <3> QED BY ONLY <1>0, <1>8, <2>1, <2>2, <3>1, to \in Int
  <2>3. CASE ~(to <= Len(text))
    <3>1. Len(tail) = 0
      BY <1>2, <2>3
    <3> QED BY ONLY <1>0, <1>8, <2>1, <2>3, <3>1, to \in Int
  <2> QED BY <2>2, <2>3
<1> QED BY <1>4, <1>5, <1>6, <1>9

-----------------------------------------------------------------------------
(* Completion. *)

\* The start of the word there is, and of only one.
LEMMA WordStartIs ==
  ASSUME NEW text, NEW at \in Nat
  PROVE  /\ WordStart(text, at) \in 0..at
         /\ \A j \in (WordStart(text, at) + 1)..at : text[j] # Spacing
         /\ WordStart(text, at) = 0 \/ text[WordStart(text, at)] = Spacing
         /\ \A i \in 0..at : /\ \A j \in (i + 1)..at : text[j] # Spacing
                             /\ i = 0 \/ text[i] = Spacing
                             => i = WordStart(text, at)
<1> DEFINE Starts(i) == /\ \A j \in (i + 1)..at : text[j] # Spacing
                        /\ i = 0 \/ text[i] = Spacing
<1>1. \E i \in 0..at : Starts(i)
  <2> PICK K : K = {i \in 0..at : \A j \in (i + 1)..at : text[j] # Spacing}
    OBVIOUS
  <2>1. at \in K /\ K \subseteq Int /\ IsFiniteSet(K)
    <3>1. IsFiniteSet(0..at)
      BY FS_Interval
    <3> QED BY <3>1, FS_Subset
  <2> PICK m : m = Min(K)
    OBVIOUS
  <2>2. m \in K /\ \A y \in K : m <= y
    BY <2>1, MinIn
  <2>3. ASSUME m # 0, text[m] # Spacing PROVE FALSE
    <3>1. m - 1 \in K
      BY <2>2, <2>3
    <3> QED BY <2>2, <3>1
  <2> QED BY <2>2, <2>3
<1>2. WordStart(text, at) \in 0..at /\ Starts(WordStart(text, at))
  BY <1>1 DEF WordStart
<1>3. ASSUME NEW i \in 0..at, Starts(i), NEW k \in 0..at, Starts(k) PROVE i = k
  BY <1>3
<1> QED BY <1>2, <1>3

Words == {Keywords[i] : i \in DOMAIN Keywords}

LEMMA WordsAre == \A w \in Words : w \in Seq(Letter) /\ Len(w) > 0
<1>1. Keywords \in Seq(Seq(Letter) \ {<<>>})
  BY CompletionAssumption
<1>2. ASSUME NEW i \in DOMAIN Keywords
      PROVE  Keywords[i] \in Seq(Letter) /\ Keywords[i] # <<>>
  BY <1>1
<1>3. ASSUME NEW w \in Seq(Letter), w # <<>> PROVE Len(w) > 0
  BY <1>3, EmptySeq, LenProperties
<1> QED BY <1>2, <1>3 DEF Words

\* What is found are keywords that the piece begins.
LEMMA MatchesFit ==
  ASSUME NEW piece
  PROVE  AddMatches(piece) \in Seq({w \in Words : IsPrefix(piece, w)})
<1> PICK W : W = {w \in Words : IsPrefix(piece, w)}
  OBVIOUS
<1> PICK n : n = Len(Keywords)
  OBVIOUS
<1> PICK X : X = Seq(W)
  OBVIOUS
<1> DEFINE op(found, w) == IF IsPrefix(piece, w) THEN Append(found, w) ELSE found
<1> PICK st : st = [p \in (1..n) \X X |-> op(p[2], Keywords[p[1]])]
  OBVIOUS
<1>1. n \in Nat /\ DOMAIN Keywords = 1..n
  BY CompletionAssumption, LenProperties
<1>2. <<>> \in X
  OBVIOUS
<1>3. ASSUME NEW i \in 1..n, NEW x \in X PROVE op(x, Keywords[i]) \in X
  <2>1. Keywords[i] \in Words
    BY <1>1 DEF Words
  <2>2. CASE IsPrefix(piece, Keywords[i])
    <3>1. Keywords[i] \in W
      BY <2>1, <2>2
    <3> QED BY <2>2, <3>1, AppendProperties
  <2> QED BY <2>2
<1>4. st \in [(1..n) \X X -> X]
  <2> HIDE DEF op
  <2> QED BY <1>3
<1>5. PICK G \in [SUBSET (1..n) -> X] : Folds(G, n, <<>>, st)
  BY <1>1, <1>2, <1>4, SequenceWalk
<1> DEFINE iter[s \in SUBSET (1..n)] ==
      IF s = {} THEN <<>> ELSE LET x == Max(s) IN op(iter[s \ {x}], Keywords[x])
<1>6. AddMatches(piece) = iter[1..n]
  BY <1>1 DEF AddMatches, FoldLeft, MapThenFoldSet
<1> DEFINE Solved(g) ==
      g = [s \in SUBSET (1..n) |->
             IF s = {} THEN <<>> ELSE op(g[s \ {Max(s)}], Keywords[Max(s)])]
<1>7. ASSUME NEW s \in SUBSET (1..n), s # {}
      PROVE  Max(s) \in 1..n /\ s \ {Max(s)} \in SUBSET (1..n)
  <2>1. s \subseteq Int /\ IsFiniteSet(s)
    <3>1. IsFiniteSet(1..n)
      BY FS_Interval
    <3>2. IsFiniteSet(s)
      BY <3>1, FS_Subset
    <3>3. s \subseteq Int
      OBVIOUS
    <3> QED BY <3>2, <3>3
  <2>2. Max(s) \in s
    BY <1>7, <2>1, MaxIn
  <2> QED BY <2>2
<1>8. Solved(G)
  <2>1. ASSUME NEW s \in SUBSET (1..n), s # {}
        PROVE  st[<<Max(s), G[s \ {Max(s)}]>>] = op(G[s \ {Max(s)}], Keywords[Max(s)])
    <3>1. Max(s) \in 1..n /\ G[s \ {Max(s)}] \in X
      BY <1>7, <2>1
    <3> QED BY <3>1
  <2>2. G = [s \in SUBSET (1..n) |->
               IF s = {} THEN <<>> ELSE st[<<Max(s), G[s \ {Max(s)}]>>]]
    BY ZenonT(60), <1>5 DEF Folds
  <2> HIDE DEF op
  <2> QED BY <2>1, <2>2
<1>9. Solved(iter)
  <2> HIDE DEF op
  <2> QED BY <1>8
<1> HIDE DEF iter
<1>10. iter[1..n] = G[1..n]
  <2>1. iter[{}] = G[{}]
    BY <1>8, <1>9
  <2>2. \A s \in SUBSET (1..n) :
          s # {} /\ iter[s \ {Max(s)}] = G[s \ {Max(s)}] => iter[s] = G[s]
    <3> SUFFICES ASSUME NEW s \in SUBSET (1..n), s # {},
                        iter[s \ {Max(s)}] = G[s \ {Max(s)}]
                 PROVE  iter[s] = G[s]
      OBVIOUS
    <3>1. iter[s] = op(iter[s \ {Max(s)}], Keywords[Max(s)])
      BY <1>9
    <3>2. G[s] = op(G[s \ {Max(s)}], Keywords[Max(s)])
      BY <1>8
    <3> HIDE DEF op
    <3> QED BY <3>1, <3>2
  <2> QED BY ONLY <1>1, <2>1, <2>2, SameWalk
<1>11. G[1..n] \in X
  OBVIOUS
<1> QED BY <1>6, <1>10, <1>11

Chars == Letter \cup {Spacing}

CompletionTyped ==
  /\ line \in Seq(Chars) /\ cursor \in 0..Len(line)
  /\ widget \in {"none", "open", "disabled"} /\ frame \in BOOLEAN
StartNear ==
  Active => /\ start.at \in 0..cursor /\ start.rest = Len(line) - cursor
            /\ \A i \in (start.at + 1)..cursor : line[i] # Spacing
ListFits ==
  Active /\ hints # NoHints =>
            /\ hints.from \in 0..start.at /\ hints.to \in Nat /\ hints.from <= hints.to
            /\ \A i \in DOMAIN hints.list : hints.list[i] \in Words
OpenFits ==
  /\ widget # "none" \/ frame => Active
  /\ widget = "open" => hints = Hints(line, cursor) /\ chosen \in DOMAIN hints.list
WordKept ==
  last \in {"keys", "mouse"} => Piece(line, cursor) \in Words

CompletionInv == CompletionTyped /\ StartNear /\ ListFits /\ OpenFits /\ WordKept

LEMMA HintsAre ==
  ASSUME NEW text \in Seq(Chars), NEW at \in 0..Len(text)
  PROVE  /\ Hints(text, at) # NoHints =>
              /\ Hints(text, at).from = WordStart(text, at)
              /\ Hints(text, at).from \in 0..at /\ Hints(text, at).to = at
         /\ Hints(text, at).list \in Seq(Words)
         /\ \A i \in DOMAIN Hints(text, at).list : Hints(text, at).list[i] \in Words
<1> PICK from : from = WordStart(text, at)
  OBVIOUS
<1> PICK piece : piece = Piece(text, at)
  OBVIOUS
<1> PICK list : list = AddMatches(piece)
  OBVIOUS
<1>1. at \in Nat /\ Len(text) \in Nat
  BY LenProperties
<1>2. from \in 0..at
  BY <1>1, WordStartIs
<1>3. list \in Seq({w \in Words : IsPrefix(piece, w)})
  BY MatchesFit
<1>4. ASSUME NEW i \in DOMAIN list PROVE list[i] \in Words
  BY <1>3
<1>5. list \in Seq(Words)
  BY <1>3
<1>6. Hints(text, at) = IF list = <<>> THEN NoHints
                        ELSE [list |-> list, from |-> from, to |-> at]
  BY DEF Hints, SqlHint
<1>7. CASE list = <<>>
  <2>1. Hints(text, at) = NoHints /\ Hints(text, at).list = <<>>
    BY <1>6, <1>7 DEF NoHints
  <2>2. <<>> \in Seq(Words) /\ DOMAIN <<>> = {}
    OBVIOUS
  <2> QED BY <2>1, <2>2
<1>8. CASE list # <<>>
  <2>1. Hints(text, at) = [list |-> list, from |-> from, to |-> at]
    BY <1>6, <1>8
  <2> QED BY <1>2, <1>4, <1>5, <2>1
<1> QED BY <1>7, <1>8

\* Picking leaves the cursor in the text; and picking what fits leaves the
\* keyword left of the cursor.
LEMMA PickFits ==
  ASSUME NEW text \in Seq(Chars), NEW at \in 0..Len(text), NEW w \in Words,
         NEW from \in 0..at, NEW to \in Nat, from <= to, to <= Len(text), NEW out, NEW after,
         out = Spliced(text, from, to, w),
         after = CursorAfter(at, from, to, Len(w))
  PROVE  /\ out \in Seq(Chars) /\ after \in 0..Len(out)
         /\ from = WordStart(text, at) /\ to = at => Piece(out, after) = w
<1>1. /\ at \in Nat /\ Len(text) \in Nat /\ from \in 0..Len(text) /\ from \in Nat
  BY LenProperties
<1>0. to \in Nat /\ from <= to /\ to <= Len(text)
  BY <1>1
<1>2. w \in Seq(Letter) /\ Len(w) > 0 /\ Len(w) \in Nat
  BY WordsAre, LenProperties
<1>3. w \in Seq(Chars)
  BY <1>2 DEF Chars
<1>4. /\ out \in Seq(Chars)
      /\ Len(out) >= from + Len(w) + Len(text) - to
      /\ \A i \in 1..from : out[i] = text[i]
      /\ \A i \in 1..Len(w) : out[from + i] = w[i]
  <2> PICK C : C = Chars
    OBVIOUS
  <2>1. text \in Seq(C) /\ w \in Seq(C) /\ to \in Int /\ from \in 0..Len(text)
    BY <1>0, <1>1, <1>3
  <2>2. /\ out \in Seq(C)
        /\ Len(out) >= from + Len(w) + Len(text) - to
        /\ \A i \in 1..from : out[i] = text[i]
        /\ \A i \in 1..Len(w) : out[from + i] = w[i]
    BY ONLY SMTT(60), <2>1, PutIn, from <= to, out = Spliced(text, from, to, w)
  <2> QED BY <2>2
<1>5. after \in 0..Len(out)
  <2>1. Len(out) \in Nat
    BY <1>4, LenProperties
  <2>2. at <= Len(text) /\ Len(out) >= from + Len(w) + Len(text) - to
    BY <1>1, <1>4
  <2> QED BY ONLY <1>0, <1>1, <1>2, <2>1, <2>2, after = CursorAfter(at, from, to, Len(w))
             DEF CursorAfter
<1>6. ASSUME from = WordStart(text, at), to = at PROVE Piece(out, after) = w
  <2>1. after = from + Len(w) /\ after \in Nat
    BY <1>1, <1>2, <1>6 DEF CursorAfter
  <2>2. from = 0 \/ text[from] = Spacing
    BY <1>1, <1>6, WordStartIs
  <2>3. from = 0 \/ out[from] = Spacing
    <3>1. CASE from = 0
      BY <3>1
    <3>2. CASE from # 0
      <4>1. from \in 1..from
        BY <1>1, <3>2
      <4>2. out[from] = text[from]
        BY <1>4, <4>1
      <4> QED BY <2>2, <3>2, <4>2
    <3> QED BY <3>1, <3>2
  <2>4. ASSUME NEW j \in (from + 1)..after PROVE out[j] # Spacing /\ out[j] = w[j - from]
    <3> PICK k : k = j - from
      OBVIOUS
    <3>1. k \in 1..Len(w) /\ j = from + k
      BY <1>1, <1>2, <2>1
    <3>2. out[j] = w[k] /\ w[k] \in Letter
      BY <1>2, <1>4, <3>1, LenProperties
    <3> QED BY <3>2, CompletionAssumption
  <2>5. from = WordStart(out, after)
    <3>1. from \in 0..after
      BY <1>1, <1>2, <2>1
    <3> QED BY ZenonT(60), <2>1, <2>3, <2>4, <3>1, WordStartIs
  <2>6. /\ SubSeq(out, from + 1, after) \in Seq(Letter)
        /\ Len(SubSeq(out, from + 1, after)) = Len(w)
        /\ \A i \in 1..Len(w) : SubSeq(out, from + 1, after)[i] = w[i]
    <3> PICK piece : piece = SubSeq(out, from + 1, after)
      OBVIOUS
    <3>1. \A j \in from + 1..after : out[j] \in Letter
      <4> SUFFICES ASSUME NEW j \in from + 1..after PROVE out[j] \in Letter
        OBVIOUS
      <4>1. j - from \in 1..Len(w)
        BY <1>1, <1>2, <2>1
      <4> QED BY <1>2, <2>4, <4>1, LenProperties
    <3>2. /\ piece \in Seq(Letter)
          /\ Len(piece) = IF from + 1 <= after THEN after - (from + 1) + 1 ELSE 0
          /\ \A i \in 1..after - (from + 1) + 1 : piece[i] = out[from + 1 + i - 1]
      <4>1. from + 1 \in Int /\ after \in Int
        BY <1>1, <2>1
      <4> QED BY ONLY <3>1, <4>1, piece = SubSeq(out, from + 1, after), SubSeqProperties
    <3>3. after - (from + 1) + 1 = Len(w) /\ Len(piece) = Len(w)
      BY <1>1, <1>2, <2>1, <3>2
    <3>4. ASSUME NEW i \in 1..Len(w) PROVE piece[i] = w[i]
      <4>1. from + 1 + i - 1 = from + i /\ from + i \in (from + 1)..after
        BY <1>1, <1>2, <2>1
      <4>2. piece[i] = out[from + i] /\ out[from + i] = w[i]
        BY <1>4, <3>2, <3>3, <4>1
      <4> QED BY <4>2
    <3> QED BY <3>2, <3>3, <3>4
  <2>7. SubSeq(out, from + 1, after) = w
    BY <1>2, <2>6, SeqEqual
  <2> QED BY <2>5, <2>7 DEF Piece
<1> QED BY <1>4, <1>5, <1>6

\* A word is picked.
LEMMA PickStep ==
  ASSUME CompletionInv, NEW data, NEW i, NEW how, Picked(line, data, i, how),
         data.from \in 0..cursor, data.to \in Nat, data.from <= data.to,
         data.list[i] \in Words,
         how \in {"keys", "mouse"} => data.from = WordStart(line, cursor) /\ data.to = cursor
  PROVE  CompletionInv'
<1> PICK w : w = data.list[i]
  OBVIOUS
<1> PICK from : from = data.from
  OBVIOUS
<1> PICK to : to = IF data.to < Len(line) THEN data.to ELSE Len(line)
  OBVIOUS
<1>1. line \in Seq(Chars) /\ cursor \in 0..Len(line) /\ Len(line) \in Nat
  BY LenProperties DEF CompletionInv, CompletionTyped
<1>0. /\ to \in Nat /\ from <= to /\ to <= Len(line)
      /\ data.to = cursor => to = cursor
  BY <1>1
<1>2. line' = Spliced(line, from, to, w) /\ cursor' = CursorAfter(cursor, from, to, Len(w))
  BY DEF Picked, Spliced
<1>3. /\ line' \in Seq(Chars) /\ cursor' \in 0..Len(line')
      /\ from = WordStart(line, cursor) /\ to = cursor => Piece(line', cursor') = w
  <2> PICK out : out = line'
    OBVIOUS
  <2> PICK after : after = cursor'
    OBVIOUS
  <2> PICK text : text = line
    OBVIOUS
  <2> PICK at : at = cursor
    OBVIOUS
  <2>1. /\ text \in Seq(Chars) /\ at \in 0..Len(text) /\ w \in Words /\ from \in 0..at
        /\ to \in Nat /\ from <= to /\ to <= Len(text)
        /\ out = Spliced(text, from, to, w) /\ after = CursorAfter(at, from, to, Len(w))
    BY <1>0, <1>1, <1>2
  <2>2. /\ out \in Seq(Chars) /\ after \in 0..Len(out)
        /\ from = WordStart(text, at) /\ to = at => Piece(out, after) = w
    BY ONLY <2>1, PickFits
  <2> QED BY <2>2
<1>4. /\ start' = Inactive /\ hints' = NoHints /\ widget' = "none" /\ frame' = FALSE
      /\ last' = how
  BY DEF Picked, Closed
<1>5. CompletionTyped'
  BY <1>3, <1>4 DEF CompletionTyped
<1>6. StartNear' /\ ListFits' /\ OpenFits'
  BY <1>4 DEF StartNear, ListFits, OpenFits, Active
<1>7. WordKept'
  BY <1>0, <1>3, <1>4 DEF WordKept
<1> QED BY <1>5, <1>6, <1>7 DEF CompletionInv

\* The list goes.
LEMMA CloseStep ==
  ASSUME CompletionInv, Closed, line' \in Seq(Chars), cursor' \in 0..Len(line'),
         UNCHANGED <<line, cursor, last>> \/ last' = "typed"
  PROVE  CompletionInv'
<1>1. start' = Inactive /\ hints' = NoHints /\ widget' = "none" /\ frame' = FALSE
  BY DEF Closed
<1>2. CompletionTyped'
  BY <1>1 DEF CompletionTyped
<1>3. StartNear' /\ ListFits' /\ OpenFits'
  BY <1>1 DEF StartNear, ListFits, OpenFits, Active
<1>4. WordKept'
  <2>1. CASE UNCHANGED <<line, cursor, last>>
    BY <2>1 DEF WordKept, CompletionInv
  <2>2. CASE last' = "typed"
    BY <2>2 DEF WordKept
  <2> QED BY <2>1, <2>2
<1> QED BY <1>2, <1>3, <1>4 DEF CompletionInv

\* The list is brought up to date, or made.
LEMMA FinishStep ==
  ASSUME CompletionInv, NEW old, NEW atOnce, NEW at,
         FinishUpdate(old, Hints(line, cursor), atOnce, at),
         at # Inactive, at.at \in 0..cursor, at.rest = Len(line) - cursor,
         \A i \in (at.at + 1)..cursor : line[i] # Spacing,
         old = NoHints \/ (old = hints /\ at = start)
  PROVE  CompletionInv'
<1> PICK data : data = Hints(line, cursor)
  OBVIOUS
<1>1. line \in Seq(Chars) /\ cursor \in 0..Len(line) /\ cursor \in Nat /\ Len(line) \in Nat
  BY LenProperties DEF CompletionInv, CompletionTyped
<1>2. /\ data # NoHints => /\ data.from = WordStart(line, cursor) /\ data.from \in 0..cursor
                           /\ data.to = cursor
      /\ data.list \in Seq(Words)
      /\ \A i \in DOMAIN data.list : data.list[i] \in Words
  BY <1>1, HintsAre
<1>3. CASE Picked(line, data, 1, "keys") /\ Len(data.list) = 1
  <2>1. 1 \in DOMAIN data.list
    BY <1>2, <1>3, LenProperties
  <2>2. data # NoHints
    BY <2>1 DEF NoHints
  <2> QED BY SMTT(30), <1>1, <1>2, <1>3, <2>1, <2>2, PickStep
<1>4. CASE /\ hints' = (IF IsNewCompletion(old, data) THEN old ELSE data)
           /\ widget' = (IF data.list = <<>> \/ IsNewCompletion(old, data)
                         THEN "none" ELSE "open")
           /\ start' = at /\ chosen' = 1 /\ frame' = FALSE
           /\ UNCHANGED <<line, cursor, last>>
  <2>1. CompletionTyped' /\ StartNear' /\ WordKept'
    BY <1>1, <1>4 DEF CompletionInv, CompletionTyped, StartNear, WordKept
  <2>2. Active'
    BY <1>4 DEF Active
  <2>3. data # NoHints => data.from <= at.at
    <3>1. ASSUME data # NoHints, data.from > at.at PROVE FALSE
      <4>1. line[data.from] = Spacing /\ data.from \in (at.at + 1)..cursor
        BY <1>1, <1>2, <3>1, WordStartIs
      <4> QED BY <4>1
    <3> QED BY <1>1, <1>2, <3>1
  <2>4. CASE IsNewCompletion(old, data)
    <3>1. old = hints /\ at = start
      BY <2>4 DEF IsNewCompletion
    <3>2. hints' = hints /\ widget' = "none" /\ start' = start
      BY <1>4, <2>4, <3>1
    <3>3. ListFits
      BY DEF CompletionInv
    <3>4. ListFits'
      BY <3>1, <3>2, <3>3 DEF ListFits, Active
    <3>5. OpenFits'
      BY <1>4, <3>2 DEF OpenFits
    <3> QED BY <2>1, <3>4, <3>5 DEF CompletionInv
  <2>5. CASE ~IsNewCompletion(old, data)
    <3>1. hints' = data /\ start' = at
      BY <1>4, <2>5
    <3>2. ListFits'
      BY <1>1, <1>2, <2>3, <3>1 DEF ListFits
    <3>3. OpenFits'
      <4>1. hints' = Hints(line, cursor)'
        BY <1>4, <3>1
      <4>2. widget' = "open" => 1 \in DOMAIN data.list
        <5>1. widget' = "open" => data.list # <<>>
          BY <1>4
        <5> QED BY <1>2, <5>1, EmptySeq, LenProperties
      <4> QED BY <1>4, <2>2, <3>1, <4>1, <4>2 DEF OpenFits
    <3> QED BY <2>1, <3>2, <3>3 DEF CompletionInv
  <2> QED BY <2>4, <2>5
<1> QED BY <1>3, <1>4 DEF FinishUpdate

\* The text or the cursor has changed.
LEMMA ActivityStep ==
  ASSUME CompletionInv, CursorActivity, line' \in Seq(Chars), cursor' \in 0..Len(line'),
         last' = "typed",
         Active /\ start.at <= cursor' /\ Len(line') - cursor' = start.rest
           /\ ~(cursor' > 0 /\ line'[cursor'] = Spacing)
         => \A i \in (start.at + 1)..cursor' : line'[i] # Spacing
  PROVE  CompletionInv'
<1>1. CASE ~Active
  <2>1. UNCHANGED <<start, hints, widget, chosen, frame>>
    BY <1>1 DEF CursorActivity
  <2>2. widget = "none" /\ frame = FALSE
    BY <1>1 DEF CompletionInv, OpenFits, CompletionTyped
  <2>3. CompletionTyped' /\ StartNear' /\ ListFits' /\ OpenFits' /\ WordKept'
    BY <1>1, <2>1, <2>2 DEF CompletionTyped, StartNear, ListFits, OpenFits, WordKept, Active
  <2> QED BY <2>3 DEF CompletionInv
<1>2. CASE Closed
  BY <1>2, CloseStep
<1>3. CASE /\ Active /\ ~(Len(line') - cursor' # start.rest) /\ ~(cursor' < start.at)
           /\ ~(cursor' > 0 /\ line'[cursor'] = Spacing)
           /\ frame' = TRUE /\ widget' = Disabled /\ UNCHANGED <<start, hints, chosen, eager>>
  <2>1. start.at \in 0..cursor /\ cursor \in Nat
    BY <1>3, LenProperties DEF CompletionInv, CompletionTyped, StartNear
  <2>2. cursor' \in Nat /\ start.at \in 0..cursor'
    BY <1>3, <2>1, LenProperties
  <2>3. \A i \in (start.at + 1)..cursor' : line'[i] # Spacing
    BY <1>3, <2>2
  <2>4. StartNear'
    BY <1>3, <2>2, <2>3 DEF StartNear
  <2>5. widget' \in {"none", "disabled"}
    BY <1>3 DEF Disabled
  <2>6. CompletionTyped' /\ OpenFits' /\ WordKept'
    BY <1>3, <2>5 DEF CompletionTyped, OpenFits, WordKept, Active
  <2>7. ListFits'
    BY <1>3 DEF CompletionInv, ListFits, Active
  <2> QED BY <2>4, <2>6, <2>7 DEF CompletionInv
<1> QED BY <1>1, <1>2, <1>3 DEF CursorActivity

\* A character is typed.
LEMMA TypeStep ==
  ASSUME CompletionInv, NEW c \in Chars, TypeChar(c)
  PROVE  CompletionInv'
<1> PICK word : word = <<c>>
  OBVIOUS
<1> PICK text : text = line
  OBVIOUS
<1> PICK at : at = cursor
  OBVIOUS
<1> PICK out : out = line'
  OBVIOUS
<1>1. text \in Seq(Chars) /\ at \in 0..Len(text) /\ Len(text) \in Nat /\ at \in Nat
  BY LenProperties DEF CompletionInv, CompletionTyped
<1>2. word \in Seq(Chars) /\ Len(word) = 1 /\ word[1] = c
  OBVIOUS
<1>3. out = Spliced(text, at, at, word) /\ cursor' = at + 1 /\ last' = "typed"
  BY DEF TypeChar, Spliced
<1>4. /\ out \in Seq(Chars) /\ Len(out) = at + Len(word) + Len(text) - at
      /\ \A i \in 1..at : out[i] = text[i]
      /\ \A i \in 1..Len(word) : out[at + i] = word[i]
  <2> PICK C : C = Chars
    OBVIOUS
  <2> PICK from \in 0..Len(text) : from = at
    BY <1>1
  <2> PICK to \in Int : to = at
    BY <1>1
  <2>1. /\ text \in Seq(C) /\ word \in Seq(C) /\ from <= to /\ to <= Len(text)
        /\ out = Spliced(text, from, to, word)
    BY <1>1, <1>2, <1>3
  <2>2. /\ out \in Seq(C)
        /\ to <= Len(text) => Len(out) = from + Len(word) + Len(text) - to
        /\ \A i \in 1..from : out[i] = text[i]
        /\ \A i \in 1..Len(word) : out[from + i] = word[i]
    <3>1. /\ out \in Seq(C)
          /\ Len(out) >= from + Len(word) + Len(text) - to
          /\ \A i \in 1..from : out[i] = text[i]
          /\ \A i \in 1..Len(word) : out[from + i] = word[i]
      BY ONLY <2>1, from \in 0..Len(text), to \in Int, PutIn
    <3>2. to <= Len(text) => Len(out) <= from + Len(word) + Len(text) - to
      BY ONLY <2>1, from \in 0..Len(text), to \in Int, PutIn
    <3>3. Len(out) \in Nat
      BY <3>1, LenProperties
    <3>4. Len(out) = from + Len(word) + Len(text) - to
      BY ONLY SMTT(30), <1>1, <1>2, <2>1, from \in 0..Len(text), to \in Int, <3>1, <3>2, <3>3
    <3> QED BY <3>1, <3>4
  <2> QED BY <2>1, <2>2
<1>5. Len(out) = Len(text) + 1 /\ out[at + 1] = c
  BY ONLY <1>1, <1>2, <1>4
<1>6. cursor' \in 0..Len(line')
  BY <1>1, <1>3, <1>5
<1>7. ASSUME Active, ~(cursor' > 0 /\ line'[cursor'] = Spacing),
             NEW i \in (start.at + 1)..cursor'
      PROVE  line'[i] # Spacing
  <2>1. start.at \in 0..at /\ \A j \in (start.at + 1)..at : text[j] # Spacing
    BY <1>7 DEF CompletionInv, StartNear
  <2>2. CASE i = at + 1
    BY <1>1, <1>3, <1>7, <2>2
  <2>3. CASE i # at + 1
    <3>1. i \in (start.at + 1)..at /\ i \in 1..at
      BY <1>1, <1>3, <2>1, <2>3
    <3> QED BY <1>4, <2>1, <3>1
  <2> QED BY <2>2, <2>3
<1>8. CursorActivity
  BY DEF TypeChar
<1> QED BY <1>3, <1>4, <1>6, <1>7, <1>8, ActivityStep

\* A character is deleted.
LEMMA BackspaceStep ==
  ASSUME CompletionInv, Backspace
  PROVE  CompletionInv'
<1> PICK text : text = line
  OBVIOUS
<1> PICK at : at = cursor
  OBVIOUS
<1> PICK head : head = SubSeq(text, 1, at - 1)
  OBVIOUS
<1> PICK tail : tail = SubSeq(text, at + 1, Len(text))
  OBVIOUS
<1> PICK out : out = line'
  OBVIOUS
<1>1. text \in Seq(Chars) /\ at \in 1..Len(text) /\ Len(text) \in Nat /\ at \in Nat
  BY LenProperties DEF CompletionInv, CompletionTyped, Backspace
<1>2. head \in Seq(Chars) /\ Len(head) = at - 1 /\ \A i \in 1..at - 1 : head[i] = text[i]
  <2>1. \A i \in 1..at - 1 : text[i] \in Chars
    BY <1>1, LenProperties
  <2>2. /\ head \in Seq(Chars)
        /\ Len(head) = IF 1 <= at - 1 THEN at - 1 - 1 + 1 ELSE 0
        /\ \A i \in 1..at - 1 - 1 + 1 : head[i] = text[1 + i - 1]
    BY <1>1, <2>1, SubSeqProperties
  <2> QED BY <1>1, <2>2
<1>3. tail \in Seq(Chars) /\ Len(tail) = Len(text) - at
  <2>1. \A i \in at + 1..Len(text) : text[i] \in Chars
    BY <1>1, LenProperties
  <2>2. /\ tail \in Seq(Chars)
        /\ Len(tail) = IF at + 1 <= Len(text) THEN Len(text) - (at + 1) + 1 ELSE 0
    BY <1>1, <2>1, SubSeqProperties
  <2> QED BY <1>1, <2>2
<1>4. out = head \o tail /\ cursor' = at - 1 /\ last' = "typed" /\ CursorActivity
  BY DEF Backspace
<1>5. /\ out \in Seq(Chars) /\ Len(out) = Len(text) - 1
      /\ \A i \in 1..at - 1 : out[i] = text[i]
  <2> PICK both : both = head \o tail
    OBVIOUS
  <2>1. /\ both \in Seq(Chars) /\ Len(both) = Len(head) + Len(tail)
        /\ \A i \in 1..Len(head) + Len(tail) : both[i] = IF i <= Len(head) THEN head[i]
                                                        ELSE tail[i - Len(head)]
    BY SMTT(30), <1>2, <1>3, ConcatProperties
  <2>2. Len(head) + Len(tail) = Len(text) - 1
    BY ONLY <1>1, <1>2, <1>3
  <2>3. ASSUME NEW i \in 1..at - 1 PROVE both[i] = text[i]
    <3>1. i \in 1..Len(head) + Len(tail) /\ i <= Len(head)
      BY ONLY <1>1, <1>2, <2>2, i \in 1..at - 1
    <3>2. both[i] = head[i]
      BY <2>1, <3>1
    <3> QED BY <1>2, <3>2
  <2>4. out = both
    BY <1>4
  <2>5. Len(both) = Len(text) - 1
    BY <2>1, <2>2
  <2> QED BY <2>1, <2>3, <2>4, <2>5
<1>6. cursor' \in 0..Len(line')
  <2>1. at - 1 \in 0..Len(out)
    <3>1. Len(out) = Len(text) - 1
      BY <1>5
    <3> QED BY ONLY <1>1, <3>1
  <2> QED BY <1>4, <2>1
<1>7. ASSUME Active, NEW i \in (start.at + 1)..cursor' PROVE line'[i] # Spacing
  <2>1. start.at \in 0..at /\ \A j \in (start.at + 1)..at : text[j] # Spacing
    BY <1>7 DEF CompletionInv, StartNear
  <2>2. i \in (start.at + 1)..at /\ i \in 1..at - 1
    BY <1>1, <1>4, <2>1
  <2> QED BY <1>5, <2>1, <2>2
<1> QED BY <1>4, <1>5, <1>6, <1>7, ActivityStep

\* The cursor goes elsewhere.
LEMMA MoveStep ==
  ASSUME CompletionInv, NEW at \in 0..Len(line), MoveCursor(at)
  PROVE  CompletionInv'
<1>1. /\ line' = line /\ cursor' = at /\ at # cursor /\ last' = "typed" /\ CursorActivity
      /\ line \in Seq(Chars) /\ cursor \in 0..Len(line) /\ Len(line) \in Nat
  BY LenProperties DEF CompletionInv, CompletionTyped, MoveCursor
<1>2. Active => Len(line') - cursor' # start.rest
  BY <1>1 DEF CompletionInv, StartNear
<1> QED BY <1>1, <1>2, ActivityStep

\* Whatever is done to the list, and what is done to the text, keeps it.
LEMMA CompletionStep ==
  CompletionInv /\ [CompletionNext]_completionVars => CompletionInv'
<1> SUFFICES ASSUME CompletionInv, [CompletionNext]_completionVars PROVE CompletionInv'
  OBVIOUS
<1>0. line \in Seq(Chars) /\ cursor \in 0..Len(line) /\ cursor \in Nat /\ Len(line) \in Nat
  BY LenProperties DEF CompletionInv, CompletionTyped
<1>1. CASE ShowHint
  <2> PICK at : at = [at |-> cursor, rest |-> Len(line) - cursor]
    OBVIOUS
  <2>1. FinishUpdate(NoHints, Hints(line, cursor), TRUE, at)
    BY <1>1 DEF ShowHint
  <2>2. /\ at # Inactive /\ at.at \in 0..cursor /\ at.rest = Len(line) - cursor
        /\ \A i \in (at.at + 1)..cursor : line[i] # Spacing
    BY <1>0 DEF Inactive
  <2> QED BY <2>1, <2>2, FinishStep
<1>2. CASE Update
  <2>1. FinishUpdate(hints, Hints(line, cursor), eager, start) /\ frame
    BY <1>2 DEF Update
  <2>2. Active
    BY <2>1 DEF CompletionInv, OpenFits
  <2>3. /\ start # Inactive /\ start.at \in 0..cursor /\ start.rest = Len(line) - cursor
        /\ \A i \in (start.at + 1)..cursor : line[i] # Spacing
    BY <2>2 DEF CompletionInv, StartNear, Active
  <2> QED BY <2>1, <2>3, FinishStep
<1>3. CASE Backspace
  BY <1>3, BackspaceStep
<1>4. ASSUME NEW c \in Letter \cup {Spacing}, TypeChar(c) PROVE CompletionInv'
  BY <1>4, TypeStep DEF Chars
<1>5. ASSUME NEW at \in 0..Len(line), MoveCursor(at) PROVE CompletionInv'
  BY <1>5, MoveStep
<1>6. ASSUME NEW i \in DOMAIN hints.list, MoveFocus(i) PROVE CompletionInv'
  <2>1. /\ i \in DOMAIN hints.list /\ chosen' = i
        /\ UNCHANGED <<line, cursor, start, hints, widget, frame, last>>
    BY <1>6 DEF MoveFocus
  <2>2. Hints(line, cursor)' = Hints(line, cursor) /\ Piece(line, cursor)' = Piece(line, cursor)
    BY <2>1
  <2>3. CompletionTyped' /\ StartNear' /\ ListFits' /\ OpenFits' /\ WordKept'
    BY <2>1, <2>2 DEF CompletionInv, CompletionTyped, StartNear, ListFits, OpenFits, WordKept,
                      Active
  <2> QED BY <2>3 DEF CompletionInv
<1>7. ASSUME NEW i, widget # "none", i \in DOMAIN hints.list, NEW how,
             Picked(line, hints, i, how), how \in {"keys", "mouse"} => widget = "open"
      PROVE  CompletionInv'
  <2>1. Active
    BY <1>7 DEF CompletionInv, OpenFits
  <2>0. hints # NoHints
    BY <1>7 DEF NoHints
  <2>2. start.at \in 0..cursor /\ hints.from \in 0..start.at
    BY <2>0, <2>1 DEF CompletionInv, StartNear, ListFits
  <2>3. /\ hints.from \in 0..cursor /\ hints.to \in Nat /\ hints.from <= hints.to
        /\ hints.list[i] \in Words
    BY <1>0, <1>7, <2>0, <2>1, <2>2 DEF CompletionInv, ListFits
  <2>4. widget = "open" => hints.from = WordStart(line, cursor) /\ hints.to = cursor
    BY <1>0, <2>0, HintsAre DEF CompletionInv, OpenFits
  <2> QED BY <1>7, <2>3, <2>4, PickStep
<1>8. ASSUME NEW i \in DOMAIN hints.list, ClickHint(i) PROVE CompletionInv'
  <2> PICK how : how = IF widget = "open" THEN "mouse" ELSE "late mouse"
    OBVIOUS
  <2> QED BY <1>7, <1>8 DEF ClickHint
<1>9. CASE EnterPicks
  <2>1. widget = "open" /\ Picked(line, hints, chosen, "keys") /\ chosen \in DOMAIN hints.list
    BY <1>9 DEF EnterPicks, CompletionInv, OpenFits
  <2> QED BY <1>7, <2>1
<1>10. CASE EnterWaits \/ UNCHANGED completionVars
  <2>1. UNCHANGED <<line, cursor, start, hints, widget, chosen, frame, last>>
    BY <1>10 DEF EnterWaits, completionVars
  <2>2. Hints(line, cursor)' = Hints(line, cursor) /\ Piece(line, cursor)' = Piece(line, cursor)
    BY <2>1
  <2>3. CompletionTyped' /\ StartNear' /\ ListFits' /\ OpenFits' /\ WordKept'
    BY <2>1, <2>2 DEF CompletionInv, CompletionTyped, StartNear, ListFits, OpenFits, WordKept,
                      Active
  <2> QED BY <2>3 DEF CompletionInv
<1>11. CASE Escape \/ LoseFocus
  BY <1>0, <1>11, CloseStep DEF Escape, LoseFocus
<1> QED BY <1>1, <1>2, <1>3, <1>4, <1>5, <1>6, <1>8, <1>9, <1>10, <1>11 DEF CompletionNext

\* A list with its keys fits the word left of the cursor, and what was taken
\* from it is a keyword up to the cursor, whatever was typed meanwhile
\* (show-hint.js), for all keywords and lines.
THEOREM CompletionIsWhole == CompletionSpec => []CompletedWhole
<1>1. CompletionInit => CompletionInv
  <2> SUFFICES ASSUME CompletionInit PROVE CompletionInv
    OBVIOUS
  <2>1. line = <<>> /\ line \in Seq(Chars) /\ cursor \in 0..Len(line)
    BY DEF CompletionInit
  <2> QED BY <2>1 DEF CompletionInit, CompletionInv, CompletionTyped, StartNear, ListFits,
                      OpenFits, WordKept, Active
<1>2. CompletionInv => CompletedWhole
  BY DEF CompletionInv, OpenFits, WordKept, CompletedWhole, Words
<1> QED BY <1>1, <1>2, CompletionStep, PTL DEF CompletionSpec

-----------------------------------------------------------------------------
(* Colours.  The mode runs over a line: what it can be, and where.         *)

States == {"base", "literal", "comment"}
Paces == {"plain", "escaped", "star", "slash", "to the end"}
Looks == {"comment", "string", "none"}
Runs == {r \in [state : States, now : Paces, styles : Seq(Looks)] :
           r.now = "to the end" => r.state = "base"}

\* The mode stays in its states, and what goes to the end of the line leaves none open.
LEMMA StepTyped == ASSUME NEW r \in Runs, NEW ch PROVE Step(r, ch) \in Runs
<1> DEFINE styled(style, state, now) ==
      [state |-> state, now |-> now, styles |-> Append(r.styles, style)]
<1>1. ASSUME NEW style \in Looks, NEW state \in States, NEW now \in Paces,
             now = "to the end" => state = "base"
      PROVE  styled(style, state, now) \in Runs
  <2>1. Append(r.styles, style) \in Seq(Looks)
    BY AppendProperties DEF Runs
  <2>2. styled(style, state, now) \in [state : States, now : Paces, styles : Seq(Looks)]
    BY <2>1
  <2>3. styled(style, state, now).now = now /\ styled(style, state, now).state = state
    OBVIOUS
  <2> HIDE DEF styled
  <2> QED BY <1>1, <2>2, <2>3 DEF Runs
<1>2. [state |-> "comment", now |-> "plain",
       styles |-> Front(r.styles) \o <<"comment", "comment">>] \in Runs
  <2> PICK t : t = r.styles
    OBVIOUS
  <2> PICK f : f = Front(t)
    OBVIOUS
  <2>1. t \in Seq(Looks) /\ Len(t) \in Nat
    BY LenProperties DEF Runs
  <2>2. f \in Seq(Looks)
    <3>1. \A i \in 1..Len(t) - 1 : t[i] \in Looks
      BY <2>1, LenProperties
    <3> QED BY <2>1, <3>1, SubSeqProperties DEF Front
  <2>3. <<"comment", "comment">> \in Seq(Looks)
    BY DEF Looks
  <2>4. f \o <<"comment", "comment">> \in Seq(Looks)
    BY <2>2, <2>3, ConcatProperties
  <2> QED BY <2>4 DEF Runs, States, Paces
<1>3. CASE r.now = "to the end"
  <2>0. r.state = "base"
    BY <1>3 DEF Runs
  <2>1. Step(r, ch) = styled("comment", "base", r.now)
    BY <1>3, <2>0 DEF Step
  <2> HIDE DEF styled
  <2> QED BY <1>1, <1>3, <2>1 DEF Looks, States, Paces
<1>4. CASE r.now # "to the end" /\ r.state = "literal"
  <2>1. Step(r, ch) = styled("string", IF ch = "'" /\ r.now # "escaped" THEN "base" ELSE "literal",
                             IF ch = "\\" /\ r.now # "escaped" THEN "escaped" ELSE "plain")
    BY <1>4 DEF Step
  <2> HIDE DEF styled
  <2> QED BY <1>1, <2>1 DEF Looks, States, Paces
<1>5. CASE r.now # "to the end" /\ r.state = "comment"
  <2>1. Step(r, ch) = styled("comment", IF ch = "/" /\ r.now = "star" THEN "base" ELSE "comment",
                             IF ch = "*" THEN "star" ELSE "plain")
    BY <1>5 DEF Step
  <2> HIDE DEF styled
  <2> QED BY <1>1, <2>1 DEF Looks, States, Paces
<1>6. CASE r.now # "to the end" /\ r.state = "base"
  <2>1. Step(r, ch) =
             IF ch = "'" THEN styled("string", "literal", "plain")
             ELSE IF ch = "#" THEN styled("comment", "base", "to the end")
             ELSE IF ch = "*" /\ r.now = "slash"
             THEN [state |-> "comment", now |-> "plain",
                   styles |-> Front(r.styles) \o <<"comment", "comment">>]
             ELSE styled("none", "base", IF ch = "/" THEN "slash" ELSE "plain")
    BY <1>6 DEF Step
  <2> HIDE DEF styled
  <2> QED BY <1>1, <1>2, <2>1 DEF Looks, States, Paces
<1> QED BY <1>3, <1>4, <1>5, <1>6 DEF Runs, States

\* The mode comes to the end of a line in one of its states.
LEMMA RunTyped ==
  ASSUME NEW text \in Seq(STRING), NEW state \in States
  PROVE  RunMode(text, state) \in Runs
<1> PICK n : n = Len(text)
  OBVIOUS
<1> PICK base : base = [state |-> state, now |-> "plain", styles |-> <<>>]
  OBVIOUS
<1> PICK st : st = [p \in (1..n) \X Runs |-> Step(p[2], text[p[1]])]
  OBVIOUS
<1>1. n \in Nat /\ DOMAIN text = 1..n
  BY LenProperties
<1>2. base \in Runs
  <2>1. <<>> \in Seq(Looks)
    OBVIOUS
  <2> QED BY <2>1 DEF Runs, Paces
<1>3. st \in [(1..n) \X Runs -> Runs]
  BY StepTyped
<1>4. PICK G \in [SUBSET (1..n) -> Runs] : Folds(G, n, base, st)
  BY <1>1, <1>2, <1>3, SequenceWalk
<1> DEFINE iter[s \in SUBSET (1..n)] ==
      IF s = {} THEN base ELSE LET x == Max(s) IN Step(iter[s \ {x}], text[x])
<1>5. RunMode(text, state) = iter[1..n]
  BY <1>1 DEF RunMode, FoldLeft, MapThenFoldSet
<1> DEFINE Solved(g) ==
      g = [s \in SUBSET (1..n) |->
             IF s = {} THEN base ELSE Step(g[s \ {Max(s)}], text[Max(s)])]
<1>6. Solved(G)
  <2>1. ASSUME NEW s \in SUBSET (1..n), s # {}
        PROVE  st[<<Max(s), G[s \ {Max(s)}]>>] = Step(G[s \ {Max(s)}], text[Max(s)])
    <3>1. Max(s) \in 1..n /\ s \ {Max(s)} \in SUBSET (1..n)
      BY <1>1, <2>1, LastTaken
    <3> QED BY <3>1
  <2> QED BY <1>4, <2>1 DEF Folds
<1>7. Solved(iter)
  BY <1>6
<1> HIDE DEF iter
<1>8. iter[1..n] = G[1..n]
  <2>1. iter[{}] = G[{}]
    BY <1>6, <1>7
  <2>2. ASSUME NEW s \in SUBSET (1..n), s # {}, iter[s \ {Max(s)}] = G[s \ {Max(s)}]
        PROVE  iter[s] = G[s]
    BY ONLY <1>6, <1>7, <2>2, ZenonT(60)
  <2> QED BY ONLY <1>1, <2>1, <2>2, SameWalk
<1> QED BY <1>5, <1>8

-----------------------------------------------------------------------------
\* Lines, and a document of so many of them.
Kept == Seq(Looks) \cup {Unknown}
LineSet == [text : Seq(STRING), styles : Kept, after : States \cup {NoneKept},
            shown : Kept, skipped : BOOLEAN]
Documents(N) == [1..N -> LineSet]

\* What a run gives is never taken for nothing kept.
LEMMA NotKept ==
  ASSUME NEW text \in Seq(STRING), NEW state \in States
  PROVE  /\ StateAfter(text, state) \in States /\ StateAfter(text, state) # NoneKept
         /\ RunMode(text, state).state = StateAfter(text, state)
         /\ RunMode(text, state).styles \in Kept
         /\ RunMode(text, state).styles # Unknown
<1>1. RunMode(text, state) \in Runs
  BY RunTyped
<1>2. RunMode(text, state).state \in States /\ RunMode(text, state).styles \in Seq(Looks)
  BY <1>1 DEF Runs
<1>3. ASSUME NEW t \in Seq(Looks) PROVE t # Unknown
  <2>1. Unknown[1] = "none kept" /\ Len(Unknown) = 1
    BY DEF Unknown
  <2>2. Len(t) = 1 => t[1] \in Looks
    <3>1. \A i \in 1..Len(t) : t[i] \in Looks
      BY <1>3
    <3>2. Len(t) = 1 => 1 \in 1..Len(t)
      OBVIOUS
    <3> QED BY <3>1, <3>2
  <2> QED BY <2>1, <2>2 DEF Looks
<1>4. \A state2 \in States : state2 # NoneKept
  BY DEF States, NoneKept
<1> QED BY <1>2, <1>3, <1>4 DEF StateAfter, Kept

\* A document as a sequence.
LEMMA DocumentIs ==
  ASSUME NEW N \in Nat, NEW lines \in Documents(N)
  PROVE  /\ lines \in Seq(LineSet) /\ Len(lines) = N /\ DOMAIN lines = 1..N
         /\ \A i \in 1..N : lines[i] \in LineSet
BY DEF Documents

\* The state after the first n lines, from the top.
RightAt(lines, n) ==
  FoldLeft(LAMBDA state, row : StateAfter(row.text, state), "base", SubSeq(lines, 1, n))

\* Line by line: the state after a line is from the state before it.
LEMMA RightStages ==
  ASSUME NEW N \in Nat, NEW lines \in Documents(N), NEW n \in 0..N
  PROVE  \E F \in [0..n -> States] :
           /\ F[0] = "base" /\ F[n] = RightAt(lines, n)
           /\ \A i \in 1..n : F[i] = StateAfter(lines[i].text, F[i - 1])
<1> PICK seq : seq = SubSeq(lines, 1, n)
  OBVIOUS
<1> PICK st : st = [p \in (1..n) \X States |-> StateAfter(seq[p[1]].text, p[2])]
  OBVIOUS
<1>1. n \in Nat /\ DOMAIN seq = 1..n /\ \A i \in 1..n : seq[i] = lines[i] /\ seq[i] \in LineSet
  <2>1. n \in Nat /\ \A i \in 1..n : lines[i] \in LineSet
    BY DocumentIs
  <2>2. /\ seq \in Seq(LineSet) /\ Len(seq) = IF 1 <= n THEN n - 1 + 1 ELSE 0
        /\ \A i \in 1..n - 1 + 1 : seq[i] = lines[1 + i - 1]
    BY <2>1, SubSeqProperties
  <2>3. Len(seq) = n
    BY <2>1, <2>2
  <2>4. DOMAIN seq = 1..n
    BY <2>2, <2>3, LenProperties
  <2> QED BY <2>1, <2>2, <2>4
<1>2. "base" \in States
  BY DEF States
<1>3. st \in [(1..n) \X States -> States]
  <2>1. ASSUME NEW i \in 1..n, NEW r \in States PROVE StateAfter(seq[i].text, r) \in States
    <3>1. seq[i].text \in Seq(STRING)
      BY <1>1 DEF LineSet
    <3> QED BY <3>1, NotKept
  <2> QED BY <2>1
<1> DEFINE op(state, row) == StateAfter(row.text, state)
<1> DEFINE iter[s \in SUBSET (1..n)] ==
      IF s = {} THEN "base" ELSE LET x == Max(s) IN op(iter[s \ {x}], seq[x])
<1>4. RightAt(lines, n) = FoldLeft(op, "base", seq)
  BY DEF RightAt
<1>5. FoldLeft(op, "base", seq) = iter[1..n]
  BY <1>1 DEF FoldLeft, MapThenFoldSet
<1> DEFINE Solved(g) ==
      g = [s \in SUBSET (1..n) |->
             IF s = {} THEN "base" ELSE op(g[s \ {Max(s)}], seq[Max(s)])]
<1>6. \E g : Solved(g)
  <2>1. PICK G \in [SUBSET (1..n) -> States] : Folds(G, n, "base", st)
    BY <1>1, <1>2, <1>3, SequenceWalk
  <2>2. ASSUME NEW s \in SUBSET (1..n), s # {}
        PROVE  st[<<Max(s), G[s \ {Max(s)}]>>] = op(G[s \ {Max(s)}], seq[Max(s)])
    <3>1. Max(s) \in 1..n /\ s \ {Max(s)} \in SUBSET (1..n)
      BY <1>1, <2>2, LastTaken
    <3>2. G[s \ {Max(s)}] \in States
      BY <3>1
    <3> QED BY <3>1, <3>2
  <2>3. Solved(G)
    <3> HIDE DEF op
    <3> QED BY <2>1, <2>2, Zenon DEF Folds
  <2> QED BY <2>3
<1>7. Solved(iter)
  <2> HIDE DEF op
  <2> QED BY <1>6
<1> HIDE DEF iter
<1>8. iter[{}] = "base"
  BY <1>7
<1>9. ASSUME NEW s \in SUBSET (1..n), s # {}, iter[s \ {Max(s)}] \in States
      PROVE  iter[s] = st[<<Max(s), iter[s \ {Max(s)}]>>]
  <2>1. Max(s) \in 1..n
    BY <1>1, <1>9, LastTaken
  <2>2. iter[s] = op(iter[s \ {Max(s)}], seq[Max(s)])
    BY <1>7, <1>9
  <2> QED BY <1>9, <2>1, <2>2
<1>10. PICK F : Staged(F, n, States, "base", st, iter[1..n])
  <2> PICK h : h = iter
    OBVIOUS
  <2>1. Walks(h, n, States, "base", st)
    BY <1>8, <1>9 DEF Walks
  <2> QED BY <1>1, <1>2, <1>3, <2>1, WalkStages
<1>11. ASSUME NEW i \in 1..n PROVE F[i] = StateAfter(lines[i].text, F[i - 1])
  <2>1. F[i] = st[<<i, F[i - 1]>>] /\ seq[i] = lines[i]
    BY <1>1, <1>10 DEF Staged
  <2>2. F[i - 1] \in States
    <3>1. i - 1 \in 0..n
      BY <1>1
    <3> QED BY <1>10, <3>1 DEF Staged
  <2>3. st[<<i, F[i - 1]>>] = StateAfter(seq[i].text, F[i - 1])
    BY <2>2
  <2> QED BY <2>1, <2>3
<1> QED BY <1>4, <1>5, <1>10, <1>11 DEF Staged

\* It is a state of the mode,
LEMMA RightTyped ==
  ASSUME NEW N \in Nat, NEW lines \in Documents(N), NEW n \in 0..N
  PROVE  RightAt(lines, n) \in States
BY RightStages

\* it is the first state before the first line,
LEMMA RightZero ==
  ASSUME NEW N \in Nat, NEW lines \in Documents(N)
  PROVE  RightAt(lines, 0) = "base"
BY RightStages

\* Lines further down do not matter.
LEMMA RightSame ==
  ASSUME NEW N \in Nat, NEW lines \in Documents(N), NEW M \in Nat, NEW other \in Documents(M),
         NEW n \in 0..N, n <= M, \A i \in 1..n : lines[i].text = other[i].text
  PROVE  RightAt(lines, n) = RightAt(other, n)
<1>1. PICK F \in [0..n -> States] :
           /\ F[0] = "base" /\ F[n] = RightAt(lines, n)
           /\ \A i \in 1..n : F[i] = StateAfter(lines[i].text, F[i - 1])
  BY RightStages
<1>2. PICK G \in [0..n -> States] :
           /\ G[0] = "base" /\ G[n] = RightAt(other, n)
           /\ \A i \in 1..n : G[i] = StateAfter(other[i].text, G[i - 1])
  <2>1. n \in 0..M
    OBVIOUS
  <2> QED BY <2>1, RightStages
<1>3. F[n] = G[n]
  <2>1. n \in Nat /\ F[0] = G[0] /\ \A i \in 1..n : F[i - 1] = G[i - 1] => F[i] = G[i]
    BY <1>1, <1>2
  <2> QED BY ONLY <2>1, SameStages
<1> QED BY <1>1, <1>2, <1>3

\* and the next one is from it and the text of the line.
LEMMA RightNext ==
  ASSUME NEW N \in Nat, NEW lines \in Documents(N), NEW n \in 0..(N - 1)
  PROVE  RightAt(lines, n + 1) = StateAfter(lines[n + 1].text, RightAt(lines, n))
<1>1. PICK F \in [0..n -> States] :
           /\ F[0] = "base" /\ F[n] = RightAt(lines, n)
           /\ \A i \in 1..n : F[i] = StateAfter(lines[i].text, F[i - 1])
  <2>1. n \in 0..N
    OBVIOUS
  <2> QED BY <2>1, RightStages
<1> PICK m : m = n + 1
  OBVIOUS
<1>2. m \in 0..N /\ m \in 1..m /\ n = m - 1
  OBVIOUS
<1>3. PICK G \in [0..m -> States] :
           /\ G[0] = "base" /\ G[m] = RightAt(lines, m)
           /\ \A i \in 1..m : G[i] = StateAfter(lines[i].text, G[i - 1])
  BY <1>2, RightStages
<1>4. F[n] = G[n]
  <2>1. n \in Nat /\ F[0] = G[0] /\ \A i \in 1..n : F[i - 1] = G[i - 1] => F[i] = G[i]
    BY <1>1, <1>3
  <2> QED BY ONLY <2>1, SameStages
<1>5. G[m] = StateAfter(lines[m].text, G[n])
  BY <1>2, <1>3
<1> QED BY <1>1, <1>3, <1>4, <1>5

-----------------------------------------------------------------------------
(* Where the search for a state begins.                                    *)

\* The states before each line and after the last one, from the top.
Rights(lines) == [n \in 0..Len(lines) |-> RightAt(lines, n)]
Follow(R, lines) ==
  /\ R \in [0..Len(lines) -> States] /\ R[0] = "base"
  /\ \A i \in 1..Len(lines) : R[i] = StateAfter(lines[i].text, R[i - 1])

\* What is known of a line below the frontier: line k, kept as line.
LineRight(R, row, k) ==
  /\ row.after \in {NoneKept, R[k + 1]}
  /\ k % Every = 0 => row.after # NoneKept
  /\ row.styles \in {Unknown, RunMode(row.text, R[k]).styles} \/ row.skipped
Good(R, lines, m) == \A k \in 0..m - 1 : LineRight(R, lines[k + 1], k)

\* The kept states are not far apart.
LEMMA KeptIsNear ==
  ASSUME NEW a \in Nat
  PROVE  \E c \in Nat : c <= a /\ a - c < Every /\ c % Every = 0
<1>0. Every \in Nat \ {0}
  BY HighlightAssumption
<1> PICK q \in Int : q = a \div Every
  BY <1>0
<1> PICK c \in Int : c = Every * q
  BY <1>0
<1>1. a = Every * (a \div Every) + (a % Every) /\ a % Every \in 0..Every - 1
  BY <1>0
<1>2. a \div Every \in Nat
  BY <1>0
<1>3. c \in Nat
  BY <1>0, <1>2
<1>4. c % Every = 0
  BY <1>0, <1>3
<1>5. c <= a /\ a - c < Every
  <2>1. a = c + (a % Every)
    BY <1>1
  <2> QED BY <1>0, <1>1, <2>1
<1> QED BY <1>3, <1>4, <1>5

\* getStateBefore begins below the frontier with what is right there.
LEMMA StartRight ==
  ASSUME NEW N \in Nat, NEW lines \in Documents(N), NEW R, Follow(R, lines),
         NEW m \in 0..N, NEW n \in 0..N, Good(R, lines, m),
         NEW from, from = FindStartLine(lines, n),
         NEW first,
         first = IF from > 0 /\ At(lines, from - 1).after # NoneKept
                 THEN At(lines, from - 1).after ELSE "base"
  PROVE  /\ from \in 0..n /\ first \in States
         /\ from < m \/ n <= m => first = R[from]
<1>0. /\ Lookback \in Nat \ {0} /\ Every \in Nat \ {0} /\ Lookback >= Every
      /\ m \in Nat /\ n \in Nat /\ "base" \in States /\ R[0] = "base"
  BY HighlightAssumption DEF States, Follow
<1> PICK kept : kept = {k \in 1..n : n - k < Lookback /\ At(lines, k - 1).after # NoneKept}
  OBVIOUS
<1>1. ASSUME NEW k \in 1..n
      PROVE  At(lines, k - 1) = lines[k] /\ lines[k].after \in States \cup {NoneKept}
  <2>1. lines[k] \in LineSet
    BY <1>0, DocumentIs
  <2>2. At(lines, k - 1) = lines[k]
    BY DEF At
  <2> QED BY <2>1, <2>2 DEF LineSet
<1>2. from = IF kept # {} THEN CHOOSE k \in kept : \A j \in kept : j <= k
             ELSE IF n < Lookback THEN 0 ELSE n - 1
  BY DEF FindStartLine
<1>3. CASE kept # {}
  <2>1. \E k \in kept : \A j \in kept : j <= k
    <3>1. kept \subseteq Int /\ kept \subseteq 1..n
      OBVIOUS
    <3>2. IsFiniteSet(1..n)
      BY <1>0, FS_Interval
    <3>3. IsFiniteSet(kept)
      BY <3>1, <3>2, FS_Subset
    <3> QED BY <1>3, <3>1, <3>3, MaxIn
  <2>2. from \in kept
    BY <1>2, <1>3, <2>1
  <2>3. from \in 1..n /\ lines[from].after # NoneKept /\ At(lines, from - 1) = lines[from]
    BY <2>2, <1>1
  <2>4. first = lines[from].after /\ first \in States
    BY <2>3, <1>0, <1>1
  <2>5. ASSUME from <= m PROVE first = R[from]
    <3>1. from - 1 \in 0..m - 1 /\ from - 1 + 1 = from
      BY <2>3, <2>5, <1>0
    <3>2. LineRight(R, lines[from], from - 1)
      BY <3>1 DEF Good
    <3>3. lines[from].after \in {NoneKept, R[from]}
      BY <3>1, <3>2 DEF LineRight
    <3> QED BY <3>3, <2>3, <2>4
  <2> QED BY <2>3, <2>4, <2>5, <1>0
<1>4. CASE kept = {} /\ n < Lookback
  BY <1>0, <1>2, <1>4
<1>5. CASE kept = {} /\ n >= Lookback
  <2>1. from = n - 1 /\ n >= 1
    BY <1>0, <1>2, <1>5
  <2>2. first \in States
    <3>1. from > 0 => At(lines, from - 1).after \in States \cup {NoneKept}
      BY <2>1, <1>0, <1>1
    <3> QED BY <3>1, <1>0
  <2>3. ~(n <= m)
    <3> SUFFICES ASSUME n <= m PROVE FALSE
      OBVIOUS
    <3>1. PICK c \in Nat : c <= n - 1 /\ n - 1 - c < Every /\ c % Every = 0
      <4>1. n - 1 \in Nat
        BY <2>1, <1>0
      <4> QED BY <4>1, KeptIsNear
    <3>2. c + 1 \in 1..n /\ n - (c + 1) < Lookback /\ c \in 0..m - 1
      BY <3>1, <1>0
    <3>3. LineRight(R, lines[c + 1], c)
      BY <3>2 DEF Good
    <3>4. lines[c + 1].after # NoneKept
      BY <3>1, <3>3 DEF LineRight
    <3>5. c + 1 \in kept
      BY <3>2, <3>4, <1>1
    <3> QED BY <3>5, <1>5
  <2> QED BY <2>1, <2>2, <2>3, <1>0
<1> QED BY <1>3, <1>4, <1>5, <1>0

\* So the right states follow one another.
LEMMA RightsFollow ==
  ASSUME NEW N \in Nat, NEW lines \in Documents(N)
  PROVE  Follow(Rights(lines), lines)
<1>1. Len(lines) = N
  BY DocumentIs
<1>2. \A n \in 0..N : RightAt(lines, n) \in States
  BY RightTyped
<1>3. ASSUME NEW i \in 1..N
      PROVE  RightAt(lines, i) = StateAfter(lines[i].text, RightAt(lines, i - 1))
  <2> PICK n : n = i - 1
    OBVIOUS
  <2>1. n \in 0..(N - 1) /\ n + 1 = i
    OBVIOUS
  <2>2. RightAt(lines, n + 1) = StateAfter(lines[n + 1].text, RightAt(lines, n))
    BY <2>1, RightNext
  <2> QED BY <2>1, <2>2
<1>4. RightAt(lines, 0) = "base"
  BY RightZero
<1> QED BY <1>1, <1>2, <1>3, <1>4 DEF Follow, Rights

\* Two documents that begin with the same texts.
LEMMA RightsSame ==
  ASSUME NEW N \in Nat, NEW lines \in Documents(N), NEW M \in Nat, NEW other \in Documents(M),
         NEW n \in 0..N, n <= M, \A i \in 1..n : lines[i].text = other[i].text
  PROVE  \A k \in 0..n : Rights(lines)[k] = Rights(other)[k]
<1> SUFFICES ASSUME NEW k \in 0..n PROVE Rights(lines)[k] = Rights(other)[k]
  OBVIOUS
<1>1. Len(lines) = N /\ Len(other) = M
  BY DocumentIs
<1>2. k \in 0..N /\ k <= M /\ k \in 0..M /\ \A i \in 1..k : lines[i].text = other[i].text
  OBVIOUS
<1>3. RightAt(lines, k) = RightAt(other, k)
  BY <1>2, RightSame
<1> QED BY <1>1, <1>2, <1>3 DEF Rights

-----------------------------------------------------------------------------
(* getStateBefore keeps what is right, and finds the right state below the *)
(* frontier.                                                               *)

\* Only the states kept may differ.
OnlyStates(lines, out) ==
  \A i \in DOMAIN lines : out[i] = [lines[i] EXCEPT !.after = out[i].after]
Walkers(N) == [lines : Documents(N), state : States]

\* What stays of a line when only its state may differ.
LEMMA OnlyStatesSame ==
  ASSUME NEW N \in Nat, NEW lines \in Documents(N), NEW out \in Documents(N),
         OnlyStates(lines, out), NEW i \in 1..N
  PROVE  /\ out[i].text = lines[i].text /\ out[i].styles = lines[i].styles
         /\ out[i].shown = lines[i].shown /\ out[i].skipped = lines[i].skipped
<1>1. out[i] = [lines[i] EXCEPT !.after = out[i].after]
  BY DocumentIs DEF OnlyStates
<1>2. lines[i] \in LineSet
  BY DocumentIs
<1> QED BY <1>1, <1>2 DEF LineSet

\* The right states are of the texts alone.
LEMMA FollowSame ==
  ASSUME NEW N \in Nat, NEW lines \in Documents(N), NEW out \in Documents(N),
         \A i \in 1..N : out[i].text = lines[i].text, NEW R, Follow(R, lines)
  PROVE  Follow(R, out)
BY DocumentIs DEF Follow

\* Lines and state stay what they are when a line is passed.
LEMMA PassedTyped ==
  ASSUME NEW N \in Nat, NEW r \in Walkers(N), NEW k \in 0..N - 1, NEW save \in BOOLEAN
  PROVE  Passed(r.lines, k, StateAfter(At(r.lines, k).text, r.state), save) \in Walkers(N)
<1> PICK lines : lines = r.lines
  OBVIOUS
<1> PICK n \in 1..N : n = k + 1
  OBVIOUS
<1>0. r.state \in States /\ lines \in Documents(N)
  BY DEF Walkers
<1>1. lines[n] \in LineSet /\ At(lines, k) = lines[n]
  BY <1>0, DocumentIs DEF At
<1>2. StateAfter(lines[n].text, r.state) \in States
  <2>1. lines[n].text \in Seq(STRING)
    BY <1>1 DEF LineSet
  <2> QED BY <1>0, <2>1, NotKept
<1>3. \A after \in States \cup {NoneKept} : [lines[n] EXCEPT !.after = after] \in LineSet
  BY <1>1 DEF LineSet
<1>4. \A after \in States \cup {NoneKept} :
        [lines EXCEPT ![n] = [lines[n] EXCEPT !.after = after]] \in Documents(N)
  BY <1>0, <1>3 DEF Documents
<1> PICK next \in States : next = StateAfter(lines[n].text, r.state)
  BY <1>2
<1> PICK after \in States \cup {NoneKept} : after = IF save THEN next ELSE NoneKept
  OBVIOUS
<1>5. Passed(lines, k, next, save) =
        [lines |-> [lines EXCEPT ![n] = [lines[n] EXCEPT !.after = after]], state |-> next]
  BY <1>1 DEF Passed
<1>6. Passed(lines, k, next, save) \in Walkers(N)
  BY <1>4, <1>5 DEF Walkers
<1> QED BY <1>1, <1>6

\* One line is passed.
LEMMA PassedIs ==
  ASSUME NEW N \in Nat, NEW lines \in Documents(N), NEW R, Follow(R, lines),
         NEW m \in 0..N, Good(R, lines, m), NEW k \in 0..N - 1, NEW state \in States,
         k < m => state = R[k],
         NEW save \in BOOLEAN, k % Every = 0 => save,
         NEW next, next = StateAfter(At(lines, k).text, state),
         NEW out, out = Passed(lines, k, next, save)
  PROVE  /\ out.lines \in Documents(N) /\ out.state \in States
         /\ OnlyStates(lines, out.lines) /\ Good(R, out.lines, m)
         /\ state = R[k] => out.state = R[k + 1]
<1> PICK n \in 1..N : n = k + 1
  OBVIOUS
<1> PICK after : after = IF save THEN next ELSE NoneKept
  OBVIOUS
<1>0. /\ lines[n] \in LineSet /\ At(lines, k) = lines[n] /\ DOMAIN lines = 1..N
      /\ lines[n].text \in Seq(STRING)
  BY DocumentIs DEF At, LineSet
<1>1. next \in States /\ (state = R[k] => next = R[n]) /\ next # NoneKept
  <2>1. next \in States /\ next # NoneKept
    BY <1>0, NotKept
  <2>2. R[n] = StateAfter(lines[n].text, R[n - 1]) /\ n - 1 = k
    BY <1>0, DocumentIs DEF Follow
  <2> QED BY <1>0, <2>1, <2>2
<1>2. out.lines = [lines EXCEPT ![n] = [lines[n] EXCEPT !.after = after]] /\ out.state = next
  BY <1>0 DEF Passed
<1>3. [lines[n] EXCEPT !.after = after] \in LineSet
  BY <1>0, <1>1 DEF LineSet
<1>4. out.lines \in Documents(N)
  BY <1>2, <1>3 DEF Documents
<1>5. \A i \in 1..N : i # n => out.lines[i] = lines[i]
  BY <1>0, <1>2
<1>6. out.lines[n] = [lines[n] EXCEPT !.after = after] /\ out.lines[n].after = after
  BY <1>0, <1>2 DEF LineSet
<1>7. OnlyStates(lines, out.lines)
  <2> SUFFICES ASSUME NEW i \in 1..N
               PROVE  out.lines[i] = [lines[i] EXCEPT !.after = out.lines[i].after]
    BY <1>0 DEF OnlyStates
  <2>1. lines[i] = [lines[i] EXCEPT !.after = lines[i].after]
    BY DocumentIs DEF LineSet
  <2> QED BY <2>1, <1>5, <1>6
<1>8. ASSUME NEW j \in 0..m - 1 PROVE LineRight(R, out.lines[j + 1], j)
  <2>1. LineRight(R, lines[j + 1], j)
    BY DEF Good
  <2>2. CASE j # k
    BY <1>5, <2>1, <2>2
  <2>3. CASE j = k
    <3>1. /\ out.lines[n].styles = lines[n].styles /\ out.lines[n].text = lines[n].text
          /\ out.lines[n].skipped = lines[n].skipped
      BY <1>4, <1>7, OnlyStatesSame
    <3>2. after \in {NoneKept, R[n]} /\ (k % Every = 0 => after # NoneKept)
      BY <1>1, <2>3
    <3> QED BY <1>6, <2>1, <2>3, <3>1, <3>2 DEF LineRight
  <2> QED BY <2>2, <2>3
<1> QED BY <1>1, <1>2, <1>4, <1>7, <1>8 DEF Good

\* Twice only the states may differ: only the states differ.
LEMMA OnlyStatesOn ==
  ASSUME NEW N \in Nat, NEW lines \in Documents(N), NEW mid \in Documents(N),
         NEW out \in Documents(N), OnlyStates(lines, mid), OnlyStates(mid, out)
  PROVE  OnlyStates(lines, out)
<1> SUFFICES ASSUME NEW i \in 1..N PROVE out[i] = [lines[i] EXCEPT !.after = out[i].after]
  BY DocumentIs DEF OnlyStates
<1>1. mid[i] = [lines[i] EXCEPT !.after = mid[i].after]
  BY DocumentIs DEF OnlyStates
<1>2. out[i] = [mid[i] EXCEPT !.after = out[i].after]
  BY DocumentIs DEF OnlyStates
<1> QED BY <1>1, <1>2

\* All lines are passed.
LEMMA BeforeIs ==
  ASSUME NEW N \in Nat, NEW h, h.lines \in Documents(N), NEW R, Follow(R, h.lines),
         NEW m \in 0..N, Good(R, h.lines, m), NEW n \in 0..N,
         NEW out, out = StateBefore(h, n)
  PROVE  /\ out.lines \in Documents(N) /\ out.state \in States
         /\ OnlyStates(h.lines, out.lines) /\ Good(R, out.lines, m)
         /\ n <= m => out.state = R[n]
<1> PICK lines : lines = h.lines
  OBVIOUS
<1> PICK from : from = FindStartLine(lines, n)
  OBVIOUS
<1> PICK first : first = IF from > 0 /\ At(lines, from - 1).after # NoneKept
                         THEN At(lines, from - 1).after ELSE "base"
  OBVIOUS
<1>0. /\ lines \in Documents(N) /\ Follow(R, lines) /\ Good(R, lines, m)
      /\ m \in Nat /\ n \in Nat /\ Every \in Nat \ {0}
  BY HighlightAssumption
<1>1. /\ from \in 0..n /\ first \in States
      /\ from < m \/ n <= m => first = R[from]
  BY ONLY <1>0, n \in 0..N, m \in 0..N, N \in Nat,
          from = FindStartLine(lines, n),
          first = IF from > 0 /\ At(lines, from - 1).after # NoneKept
                  THEN At(lines, from - 1).after ELSE "base", StartRight
<1> PICK size \in Nat : size = n - from
  BY <1>0, <1>1
<1> PICK seq : seq = [i \in 1..size |-> from + i - 1]
  OBVIOUS
<1> PICK X : X = Walkers(N)
  OBVIOUS
<1> PICK base : base = [lines |-> lines, state |-> first]
  OBVIOUS
<1> DEFINE save(k) == k = n - 1 \/ k % Every = 0 \/ Drawn(h.view, k)
<1> DEFINE op(r, k) == Passed(r.lines, k, StateAfter(At(r.lines, k).text, r.state), save(k))
<1> PICK st : st = [p \in (1..size) \X X |-> op(p[2], seq[p[1]])]
  OBVIOUS
<1> DEFINE iter[s \in SUBSET (1..size)] ==
      IF s = {} THEN base ELSE LET x == Max(s) IN op(iter[s \ {x}], seq[x])
<1>2. out = FoldLeft(op, base, seq)
  BY DEF StateBefore
<1>3. FoldLeft(op, base, seq) = iter[1..size]
  BY DEF FoldLeft, MapThenFoldSet
<1>4. ASSUME NEW i \in 1..size PROVE seq[i] = from + i - 1 /\ seq[i] \in 0..N - 1
  BY <1>0, <1>1
<1>5. ASSUME NEW r \in X, Follow(R, r.lines), Good(R, r.lines, m), NEW k \in 0..N - 1,
             k < m => r.state = R[k]
      PROVE  /\ op(r, k).lines \in Documents(N) /\ op(r, k).state \in States
             /\ OnlyStates(r.lines, op(r, k).lines) /\ Good(R, op(r, k).lines, m)
             /\ r.state = R[k] => op(r, k).state = R[k + 1]
  <2> PICK flag \in BOOLEAN : flag = save(k)
    OBVIOUS
  <2> PICK a : a = r.lines
    OBVIOUS
  <2> PICK state : state = r.state
    OBVIOUS
  <2> PICK next : next = StateAfter(At(a, k).text, state)
    OBVIOUS
  <2> PICK o : o = Passed(a, k, next, flag)
    OBVIOUS
  <2>1. /\ a \in Documents(N) /\ Follow(R, a) /\ Good(R, a, m) /\ state \in States
        /\ k < m => state = R[k]
        /\ k % Every = 0 => flag
    BY <1>5 DEF Walkers
  <2>2. /\ o.lines \in Documents(N) /\ o.state \in States
        /\ OnlyStates(a, o.lines) /\ Good(R, o.lines, m)
        /\ state = R[k] => o.state = R[k + 1]
    BY ONLY <2>1, N \in Nat, m \in 0..N, k \in 0..N - 1, flag \in BOOLEAN,
            next = StateAfter(At(a, k).text, state), o = Passed(a, k, next, flag), PassedIs
  <2>3. op(r, k) = o
    OBVIOUS
  <2> QED BY <2>2, <2>3
<1>6. base \in X
  BY <1>0, <1>1 DEF Walkers
<1>7. st \in [(1..size) \X X -> X]
  <2>1. ASSUME NEW r \in X, NEW k \in 0..N - 1 PROVE op(r, k) \in X
    <3> PICK flag \in BOOLEAN : flag = save(k)
      OBVIOUS
    <3>1. Passed(r.lines, k, StateAfter(At(r.lines, k).text, r.state), flag) \in X
      BY PassedTyped
    <3> QED BY <3>1
  <2> HIDE DEF op
  <2> QED BY <1>4, <2>1
<1> HIDE DEF op
<1> DEFINE Solved(g) ==
      g = [s \in SUBSET (1..size) |->
             IF s = {} THEN base ELSE op(g[s \ {Max(s)}], seq[Max(s)])]
<1>8. \E g : Solved(g)
  <2>1. PICK G \in [SUBSET (1..size) -> X] : Folds(G, size, base, st)
    BY ONLY size \in Nat, <1>6, <1>7, SequenceWalk
  <2>2. ASSUME NEW s \in SUBSET (1..size), s # {}
        PROVE  st[<<Max(s), G[s \ {Max(s)}]>>] = op(G[s \ {Max(s)}], seq[Max(s)])
    <3>1. Max(s) \in 1..size /\ s \ {Max(s)} \in SUBSET (1..size)
      BY <2>2, LastTaken
    <3>2. G[s \ {Max(s)}] \in X
      BY <3>1
    <3> QED BY <3>1, <3>2
  <2>3. Solved(G)
    BY ONLY <2>1, <2>2 DEF Folds
  <2> QED BY ONLY <2>3, ZenonT(60)
<1>9. Solved(iter)
  BY <1>8
<1> HIDE DEF iter
<1>10. PICK F : Staged(F, size, X, base, st, iter[1..size])
  <2> PICK g : g = iter
    OBVIOUS
  <2>1. g[{}] = base
    BY <1>9
  <2>2. ASSUME NEW s \in SUBSET (1..size), s # {}, g[s \ {Max(s)}] \in X
        PROVE  g[s] = st[<<Max(s), g[s \ {Max(s)}]>>]
    <3>1. Max(s) \in 1..size
      BY <2>2, LastTaken
    <3>2. g[s] = op(g[s \ {Max(s)}], seq[Max(s)])
      BY <1>9, <2>2
    <3> QED BY <2>2, <3>1, <3>2
  <2>3. Walks(g, size, X, base, st)
    BY <2>1, <2>2 DEF Walks
  <2> QED BY <1>6, <1>7, <2>3, WalkStages
<1> PICK S : S = {i \in 0..size : /\ OnlyStates(lines, F[i].lines) /\ Good(R, F[i].lines, m)
                                  /\ first = R[from] => F[i].state = R[from + i]}
  OBVIOUS
<1>11. 0 \in S
  <2>1. F[0] = base
    BY <1>10 DEF Staged
  <2>2. OnlyStates(lines, lines)
    <3>1. \A i \in 1..N : lines[i] \in LineSet /\ DOMAIN lines = 1..N
      BY <1>0, DocumentIs
    <3>2. \A i \in 1..N : lines[i] = [lines[i] EXCEPT !.after = lines[i].after]
      BY <3>1 DEF LineSet
    <3> QED BY <1>0, <3>2, DocumentIs DEF OnlyStates
  <2> QED BY <1>0, <1>1, <2>1, <2>2
<1>12. ASSUME NEW i \in 0..size, i \in S, i < size PROVE i + 1 \in S
  <2> PICK j \in 1..size : j = i + 1
    BY <1>12
  <2> PICK k \in 0..N - 1 : k = from + i
    BY <1>4
  <2> PICK r : r = F[i]
    OBVIOUS
  <2>1. /\ r \in X /\ F[j] = st[<<j, r>>]
    <3>1. j - 1 = i
      OBVIOUS
    <3> QED BY <1>10, <3>1, ZenonT(60) DEF Staged
  <2>2. seq[j] = k
    <3>1. seq[j] = from + j - 1
      BY <1>4
    <3> QED BY <3>1, <1>1, <1>0
  <2>3. F[j] = op(r, k)
    BY <2>1, <2>2
  <2>4. /\ OnlyStates(lines, r.lines) /\ Good(R, r.lines, m) /\ r.lines \in Documents(N)
        /\ first = R[from] => r.state = R[k]
    BY <1>12, <2>1 DEF Walkers
  <2>5. Follow(R, r.lines)
    <3>1. \A n2 \in 1..N : r.lines[n2].text = lines[n2].text
      BY <1>0, <2>4, OnlyStatesSame
    <3> QED BY ONLY <1>0, <2>4, <3>1, FollowSame, ZenonT(60)
  <2>6. k < m => first = R[from]
    BY <1>0, <1>1
  <2>7. /\ op(r, k).lines \in Documents(N) /\ op(r, k).state \in States
        /\ OnlyStates(r.lines, op(r, k).lines) /\ Good(R, op(r, k).lines, m)
        /\ r.state = R[k] => op(r, k).state = R[k + 1]
    BY <1>5, <2>1, <2>4, <2>5, <2>6
  <2>8. OnlyStates(lines, op(r, k).lines)
    BY <1>0, <2>4, <2>7, OnlyStatesOn
  <2>9. first = R[from] => F[j].state = R[from + j]
    <3>1. k + 1 = from + j
      BY <1>1
    <3> QED BY <2>3, <2>4, <2>7, <3>1
  <2>10. j \in S
    BY <2>3, <2>7, <2>8, <2>9
  <2> QED BY <2>10
<1>13. size \in S
  <2>1. (0..size) \subseteq S
    <3>1. size \in Nat /\ 0 \in S /\ \A i \in 0..size : i \in S /\ i < size => i + 1 \in S
      BY <1>11, <1>12
    <3> QED BY ONLY <3>1, StageInduction
  <2> QED BY <2>1
<1>14. out = F[size] /\ F[size] \in X
  BY <1>2, <1>3, <1>10 DEF Staged
<1>15. from + size = n
  BY <1>0, <1>1
<1> QED BY <1>1, <1>13, <1>14, <1>15 DEF Walkers

-----------------------------------------------------------------------------
(* getLineStyles.                                                          *)

ViewsOf(N) == {v \in [from : 0..N, to : 0..N] : v.from <= v.to}
Sights(N) == [lines : Documents(N), frontier : 0..N, view : ViewsOf(N)]

\* The texts and the view stay, and the frontier is not lowered.
Goes(h, out) ==
  /\ out.view = h.view /\ h.frontier <= out.frontier
  /\ \A i \in DOMAIN h.lines : out.lines[i].text = h.lines[i].text

\* Only line n may have got other styles.
ColoursOf(h, out, n) ==
  \A i \in DOMAIN h.lines :
    /\ out.lines[i].shown = h.lines[i].shown
    /\ i # n + 1 => out.lines[i].styles = h.lines[i].styles

\* A line is coloured, and right if it is not above the frontier.
LEMMA ColouredIs ==
  ASSUME NEW N \in Nat, NEW h \in Sights(N), NEW R, Follow(R, h.lines), NEW n \in 0..N - 1,
         NEW moves \in BOOLEAN, NEW out, out = Coloured(h, n, moves)
  PROVE  /\ out \in Sights(N) /\ Goes(h, out) /\ ColoursOf(h, out, n)
         /\ out.lines[n + 1].styles # Unknown
         /\ Good(R, h.lines, h.frontier) => Good(R, out.lines, out.frontier)
<1> PICK lines \in Documents(N) : lines = h.lines
  BY DEF Sights
<1> PICK m \in 0..N : m = h.frontier
  BY DEF Sights
<1> PICK l \in 1..N : l = n + 1
  OBVIOUS
<1>0. DOMAIN lines = 1..N /\ At(lines, n) = lines[l] /\ Len(lines) = N
  BY DocumentIs DEF At
<1>1. CASE lines[l].styles # Unknown
  <2>1. out = h
    BY <1>0, <1>1 DEF Coloured
  <2> QED BY <1>0, <1>1, <2>1 DEF Goes, ColoursOf
<1>2. CASE lines[l].styles = Unknown
  <2> PICK before : before = StateBefore(h, n)
    OBVIOUS
  <2> PICK mid : mid = before.lines
    OBVIOUS
  <2>1. /\ mid \in Documents(N) /\ before.state \in States /\ OnlyStates(lines, mid)
    <3>1. 0 \in 0..N /\ n \in 0..N /\ Good(R, h.lines, 0)
      BY DEF Good
    <3>2. /\ before.lines \in Documents(N) /\ before.state \in States
          /\ OnlyStates(h.lines, before.lines)
      BY <3>1, BeforeIs
    <3> QED BY <3>2
  <2>2. ASSUME Good(R, lines, m) PROVE Good(R, mid, m) /\ (n <= m => before.state = R[n])
    <3>1. n \in 0..N
      OBVIOUS
    <3>2. Good(R, before.lines, m) /\ (n <= m => before.state = R[n])
      BY <2>2, <3>1, BeforeIs
    <3> QED BY <3>2
  <2> PICK run : run = RunMode(mid[l].text, before.state)
    OBVIOUS
  <2>3. /\ mid[l] \in LineSet /\ mid[l].text \in Seq(STRING) /\ DOMAIN mid = 1..N
        /\ \A i \in 1..N : mid[i].text = lines[i].text /\ mid[i].styles = lines[i].styles
                           /\ mid[i].shown = lines[i].shown
    BY ONLY <2>1, DocumentIs, OnlyStatesSame DEF LineSet
  <2>4. /\ run.state \in States /\ run.state # NoneKept /\ run.styles \in Kept
        /\ run.styles # Unknown /\ run.state = StateAfter(mid[l].text, before.state)
    BY <2>1, <2>3, NotKept
  <2> PICK row : row = [mid[l] EXCEPT !.styles = run.styles, !.after = run.state, !.skipped = FALSE]
    OBVIOUS
  <2>5. /\ row \in LineSet /\ row.text = mid[l].text /\ row.shown = mid[l].shown
        /\ row.styles = run.styles /\ row.after = run.state
    BY ONLY <2>3, <2>4, ZenonT(60),
            row = [mid[l] EXCEPT !.styles = run.styles, !.after = run.state, !.skipped = FALSE]
       DEF LineSet
  <2> PICK new : new = [mid EXCEPT ![l] = row]
    OBVIOUS
  <2>6. /\ new \in Documents(N) /\ DOMAIN new = 1..N /\ new[l] = row
        /\ \A i \in 1..N : i # l => new[i] = mid[i]
    BY <2>1, <2>3, <2>5 DEF Documents
  <2> PICK to \in 0..N : to = IF moves /\ m = n THEN m + 1 ELSE m
    OBVIOUS
  <2>7. out = [h EXCEPT !.lines = new, !.frontier = to]
    <3>1. StyledAfter(before, n) = new
      BY DEF StyledAfter, Styled
    <3> QED BY <1>0, <1>2, <3>1 DEF Coloured
  <2>8. /\ out.lines = new /\ out.frontier = to /\ out.view = h.view /\ out \in Sights(N)
    BY ONLY <2>6, <2>7, ZenonT(60) DEF Sights
  <2>9. Goes(h, out)
    BY <1>0, <2>3, <2>5, <2>6, <2>8 DEF Goes
  <2>10. ColoursOf(h, out, n) /\ new[l].styles # Unknown
    BY <1>0, <2>3, <2>4, <2>5, <2>6, <2>8 DEF ColoursOf
  <2>11. ASSUME Good(R, lines, m) PROVE Good(R, new, to)
    <3> SUFFICES ASSUME NEW k \in 0..to - 1 PROVE LineRight(R, new[k + 1], k)
      BY DEF Good
    <3>1. CASE k # n
      <4>1. k \in 0..m - 1 /\ k + 1 \in 1..N /\ k + 1 # l
        BY <3>1
      <4> QED BY <2>2, <2>6, <2>11, <4>1 DEF Good
    <3>2. CASE k = n
      <4>1. n <= m /\ k + 1 = l
        BY <3>2
      <4>2. before.state = R[k]
        BY <2>2, <2>11, <3>2, <4>1
      <4>3. R[l] = StateAfter(lines[l].text, R[k])
        <5>1. l - 1 = k
          BY <3>2
        <5> QED BY <1>0, <5>1 DEF Follow
      <4>4. run.state = R[k + 1] /\ run.styles = RunMode(row.text, R[k]).styles
        BY <2>3, <2>4, <2>5, <4>1, <4>2, <4>3
      <4> QED BY <2>4, <2>5, <2>6, <4>1, <4>4 DEF LineRight
    <3> QED BY <3>1, <3>2
  <2> QED BY <2>8, <2>9, <2>10, <2>11
<1> QED BY <1>1, <1>2

-----------------------------------------------------------------------------
(* Drawing.                                                                *)

\* A line that is not drawn again is drawn as it is kept.
Fresh(h, noted) ==
  \A i \in DOMAIN h.lines :
    Drawn(h.view, i - 1) /\ h.lines[i].shown # Unknown /\ i - 1 \notin noted =>
      h.lines[i].shown = h.lines[i].styles
AsKept(row) == row.shown = row.styles /\ row.shown # Unknown
ShownWell(view, row, n) ==
  IF Drawn(view, n) THEN AsKept(row) ELSE row.shown = Unknown

\* And so on.
LEMMA GoesOn ==
  ASSUME NEW N \in Nat, NEW h \in Sights(N), NEW mid \in Sights(N), NEW out \in Sights(N),
         Goes(h, mid), Goes(mid, out)
  PROVE  Goes(h, out)
<1>1. /\ h.frontier \in Nat /\ mid.frontier \in Nat /\ out.frontier \in Nat
      /\ DOMAIN h.lines = 1..N /\ DOMAIN mid.lines = 1..N
  BY DocumentIs DEF Sights
<1> QED BY <1>1 DEF Goes

\* Line n is drawn, unless it may be kept.
DrawAt(h, n, keep) == IF keep THEN h ELSE ShownAt(Coloured(h, n, TRUE), n)

\* One line of the view is drawn.
LEMMA DrawnOne ==
  ASSUME NEW N \in Nat, NEW h \in Sights(N), NEW R, Follow(R, h.lines), NEW n \in 0..N - 1,
         NEW keep \in BOOLEAN, NEW out, out = DrawAt(h, n, keep)
  PROVE  /\ out \in Sights(N) /\ Goes(h, out)
         /\ \A i \in 1..N : i # n + 1 => /\ out.lines[i].shown = h.lines[i].shown
                                         /\ out.lines[i].styles = h.lines[i].styles
         /\ keep => out = h
         /\ ~keep => AsKept(out.lines[n + 1])
         /\ Good(R, h.lines, h.frontier) => Good(R, out.lines, out.frontier)
<1>0. h.lines \in Documents(N) /\ h.frontier \in Nat /\ DOMAIN h.lines = 1..N
  BY DocumentIs DEF Sights
<1>1. CASE keep
  BY <1>0, <1>1 DEF Goes, DrawAt
<1>2. CASE ~keep
  <2> PICK mid : mid = Coloured(h, n, TRUE)
    OBVIOUS
  <2> PICK l \in 1..N : l = n + 1
    OBVIOUS
  <2>1. /\ mid \in Sights(N) /\ Goes(h, mid) /\ ColoursOf(h, mid, n)
        /\ mid.lines[n + 1].styles # Unknown
        /\ Good(R, h.lines, h.frontier) => Good(R, mid.lines, mid.frontier)
    BY ColouredIs
  <2> PICK old : old = mid.lines
    OBVIOUS
  <2>2. /\ old \in Documents(N) /\ DOMAIN old = 1..N /\ old[l] \in LineSet
        /\ At(old, n) = old[l]
    BY <2>1, DocumentIs DEF Sights, At
  <2> PICK row : row = [old[l] EXCEPT !.shown = old[l].styles]
    OBVIOUS
  <2>3. /\ row \in LineSet /\ row.text = old[l].text /\ row.styles = old[l].styles
        /\ row.after = old[l].after /\ row.skipped = old[l].skipped
        /\ row.shown = old[l].styles
    BY <2>2 DEF LineSet
  <2> PICK new : new = [old EXCEPT ![l] = row]
    OBVIOUS
  <2>4. new \in Documents(N) /\ new[l] = row /\ \A i \in 1..N : i # l => new[i] = old[i]
    BY <2>2, <2>3 DEF Documents
  <2>5. out = [mid EXCEPT !.lines = new]
    <3>1. ShownAt(mid, n) = [mid EXCEPT !.lines = new]
      BY <2>1, <2>2 DEF ShownAt, Sights
    <3> QED BY <1>2, <3>1 DEF DrawAt
  <2>6. out \in Sights(N) /\ out.lines = new /\ out.frontier = mid.frontier /\ out.view = mid.view
    BY <2>1, <2>4, <2>5 DEF Sights
  <2>7. Goes(h, out)
    <3>1. \A i \in 1..N : new[i].text = old[i].text
      BY ONLY <2>3, <2>4, ZenonT(60)
    <3> QED BY <1>0, <2>1, <2>6, <3>1, ZenonT(60) DEF Goes
  <2>8. \A i \in 1..N : i # l => /\ new[i].shown = h.lines[i].shown
                                /\ new[i].styles = h.lines[i].styles
    <3> SUFFICES ASSUME NEW i \in 1..N, i # l
                 PROVE  new[i].shown = h.lines[i].shown /\ new[i].styles = h.lines[i].styles
      OBVIOUS
    <3>1. i \in DOMAIN h.lines /\ i # n + 1 /\ new[i] = old[i]
      BY <1>0, <2>4
    <3> QED BY <2>1, <3>1, ZenonT(60) DEF ColoursOf
  <2>9. AsKept(new[l])
    BY <2>1, <2>3, <2>4 DEF AsKept
  <2>10. ASSUME Good(R, h.lines, h.frontier) PROVE Good(R, new, out.frontier)
    <3> SUFFICES ASSUME NEW k \in 0..out.frontier - 1 PROVE LineRight(R, new[k + 1], k)
      BY DEF Good
    <3>1. LineRight(R, old[k + 1], k)
      BY <2>1, <2>6, <2>10 DEF Good
    <3>2. k + 1 \in 1..N
      <4> PICK to \in 0..N : to = out.frontier
        BY <2>6 DEF Sights
      <4>1. k \in 0..to - 1
        OBVIOUS
      <4> QED BY ONLY N \in Nat, to \in 0..N, <4>1
    <3>3. CASE k + 1 # l
      BY <2>4, <3>1, <3>2, <3>3
    <3>4. CASE k + 1 = l
      <4>1. new[k + 1] = row /\ LineRight(R, old[l], k)
        BY <2>4, <3>1, <3>4
      <4>2. LineRight(R, row, k)
        BY <2>3, <4>1, Zenon DEF LineRight
      <4> QED BY <4>1, <4>2
    <3> QED BY <3>3, <3>4
  <2> QED BY <1>2, <2>6, <2>7, <2>8, <2>9, <2>10
<1> QED BY <1>1, <1>2

\* All lines of the view are drawn as they are kept, and no other line.
LEMMA RedrawnIs ==
  ASSUME NEW N \in Nat, NEW h \in Sights(N), NEW R, Follow(R, h.lines), NEW noted,
         Fresh(h, noted), NEW out, out = Redrawn(h, noted)
  PROVE  /\ out \in Sights(N) /\ Goes(h, out)
         /\ \A i \in 1..N : ShownWell(out.view, out.lines[i], i - 1)
         /\ Good(R, h.lines, h.frontier) => Good(R, out.lines, out.frontier)
<1> PICK top \in 0..N : top = h.view.from
  BY DEF Sights, ViewsOf
<1> PICK end \in 0..N : end = h.view.to
  BY DEF Sights, ViewsOf
<1>0. top <= end /\ DOMAIN h.lines = 1..N
  BY DocumentIs DEF Sights, ViewsOf
<1> PICK size \in Nat : size = end - top
  BY <1>0
<1> PICK seq : seq = [i \in 1..size |-> top + i - 1]
  OBVIOUS
<1> PICK X : X = Sights(N)
  OBVIOUS
<1> DEFINE op(r, n) == IF At(r.lines, n).shown # Unknown /\ n \notin noted THEN r
                       ELSE ShownAt(Coloured(r, n, TRUE), n)
<1> PICK st : st = [p \in (1..size) \X X |-> op(p[2], seq[p[1]])]
  OBVIOUS
<1> DEFINE iter[s \in SUBSET (1..size)] ==
      IF s = {} THEN h ELSE LET x == Max(s) IN op(iter[s \ {x}], seq[x])
<1> PICK drawn : drawn = FoldLeft(op, h, seq)
  OBVIOUS
<1>1. out = [drawn EXCEPT !.lines = [i \in DOMAIN @ |->
                                       IF Drawn(h.view, i - 1) THEN @[i]
                                       ELSE [@[i] EXCEPT !.shown = Unknown]]]
  BY ZenonT(60) DEF Redrawn
<1>2. FoldLeft(op, h, seq) = iter[1..size]
  BY DEF FoldLeft, MapThenFoldSet
<1>3. ASSUME NEW i \in 1..size PROVE seq[i] = top + i - 1 /\ seq[i] \in 0..N - 1
  <2>1. seq[i] = top + i - 1
    OBVIOUS
  <2>2. top + i - 1 \in 0..N - 1
    BY ONLY N \in Nat, top \in 0..N, end \in 0..N, size = end - top, i \in 1..size
  <2> QED BY <2>1, <2>2
<1>4. ASSUME NEW r \in X, NEW Q, Follow(Q, r.lines), NEW n \in 0..N - 1
      PROVE  LET keep == At(r.lines, n).shown # Unknown /\ n \notin noted
                 o == op(r, n)
             IN  /\ o \in Sights(N) /\ Goes(r, o)
                 /\ \A i \in 1..N : i # n + 1 => /\ o.lines[i].shown = r.lines[i].shown
                                                 /\ o.lines[i].styles = r.lines[i].styles
                 /\ keep => o = r
                 /\ ~keep => AsKept(o.lines[n + 1])
                 /\ Good(Q, r.lines, r.frontier) => Good(Q, o.lines, o.frontier)
  <2> PICK keep \in BOOLEAN : keep = (At(r.lines, n).shown # Unknown /\ n \notin noted)
    OBVIOUS
  <2> PICK o : o = op(r, n)
    OBVIOUS
  <2>1. o = DrawAt(r, n, keep)
    BY DEF DrawAt
  <2>2. r \in Sights(N) /\ Follow(Q, r.lines)
    BY <1>4
  <2>3. /\ o \in Sights(N) /\ Goes(r, o)
        /\ \A i \in 1..N : i # n + 1 => /\ o.lines[i].shown = r.lines[i].shown
                                        /\ o.lines[i].styles = r.lines[i].styles
        /\ keep => o = r
        /\ ~keep => AsKept(o.lines[n + 1])
        /\ Good(Q, r.lines, r.frontier) => Good(Q, o.lines, o.frontier)
    BY ONLY N \in Nat, n \in 0..N - 1, keep \in BOOLEAN, <2>1, <2>2, DrawnOne
  <2> HIDE DEF op
  <2> QED BY <2>3
<1>5. st \in [(1..size) \X X -> X]
  <2>1. ASSUME NEW r \in X, NEW n \in 0..N - 1 PROVE op(r, n) \in X
    <3>1. Follow(Rights(r.lines), r.lines)
      BY RightsFollow DEF Sights
    <3> HIDE DEF op
    <3> QED BY <1>4, <3>1
  <2> HIDE DEF op
  <2> QED BY SMTT(30), <1>3, <2>1
<1> HIDE DEF op
<1> DEFINE Solved(g) ==
      g = [s \in SUBSET (1..size) |->
             IF s = {} THEN h ELSE op(g[s \ {Max(s)}], seq[Max(s)])]
<1>6. \E g : Solved(g)
  <2>1. PICK G \in [SUBSET (1..size) -> X] : Folds(G, size, h, st)
    <3>1. h \in X
      OBVIOUS
    <3> QED BY ONLY size \in Nat, <1>5, <3>1, SequenceWalk
  <2>2. ASSUME NEW s \in SUBSET (1..size), s # {}
        PROVE  st[<<Max(s), G[s \ {Max(s)}]>>] = op(G[s \ {Max(s)}], seq[Max(s)])
    <3>1. Max(s) \in 1..size /\ s \ {Max(s)} \in SUBSET (1..size)
      BY <2>2, LastTaken
    <3>2. G[s \ {Max(s)}] \in X
      BY <3>1
    <3> QED BY <3>1, <3>2
  <2>3. Solved(G)
    BY ONLY <2>1, <2>2 DEF Folds
  <2> QED BY ONLY ZenonT(60), <2>3
<1>7. Solved(iter)
  BY <1>6
<1> HIDE DEF iter
<1>8. PICK F : Staged(F, size, X, h, st, iter[1..size])
  <2> PICK g : g = iter
    OBVIOUS
  <2>1. g[{}] = h
    BY <1>7
  <2>2. ASSUME NEW s \in SUBSET (1..size), s # {}, g[s \ {Max(s)}] \in X
        PROVE  g[s] = st[<<Max(s), g[s \ {Max(s)}]>>]
    <3>1. Max(s) \in 1..size
      BY <2>2, LastTaken
    <3>2. g[s] = op(g[s \ {Max(s)}], seq[Max(s)])
      BY <1>7, <2>2
    <3> QED BY <2>2, <3>1, <3>2
  <2>3. Walks(g, size, X, h, st)
    BY <2>1, <2>2 DEF Walks
  <2> QED BY <1>5, <2>3, WalkStages
<1> DEFINE Stage(r, i) ==
      /\ Goes(h, r)
      /\ Good(R, h.lines, h.frontier) => Good(R, r.lines, r.frontier)
      /\ \A j \in 1..N : IF top < j /\ j <= top + i THEN AsKept(r.lines[j])
                         ELSE /\ r.lines[j].shown = h.lines[j].shown
                              /\ r.lines[j].styles = h.lines[j].styles
<1> PICK S : S = {i \in 0..size : Stage(F[i], i)}
  OBVIOUS
<1>9. 0 \in S
  <2>1. F[0] = h
    BY <1>8 DEF Staged
  <2>2. h.frontier \in Nat
    BY DEF Sights
  <2>3. Goes(h, h)
    BY <2>2 DEF Goes
  <2> QED BY <2>1, <2>3
<1>10. ASSUME NEW i \in 0..size, i \in S, i < size PROVE i + 1 \in S
  <2> PICK j \in 1..size : j = i + 1
    BY <1>10
  <2> PICK k \in 0..N - 1 : k = top + i
    BY SMTT(30), <1>3
  <2> PICK r : r = F[i]
    OBVIOUS
  <2>1. r \in X /\ F[j] = st[<<j, r>>]
    <3>1. j - 1 = i
      OBVIOUS
    <3> QED BY ZenonT(60), <1>8, <3>1 DEF Staged
  <2>2. seq[j] = k
    <3>1. seq[j] = top + j - 1
      BY <1>3
    <3> QED BY <3>1
  <2> PICK o : o = op(r, k)
    OBVIOUS
  <2>3. F[j] = o
    BY <2>1, <2>2
  <2>4. Stage(r, i)
    BY <1>10
  <2>5. Follow(R, r.lines)
    <3>1. r.lines \in Documents(N) /\ h.lines \in Documents(N)
      BY <2>1 DEF Sights
    <3>2. \A n \in 1..N : r.lines[n].text = h.lines[n].text
      BY <1>0, <2>4 DEF Goes
    <3> QED BY <3>1, <3>2, FollowSame
  <2> PICK keep \in BOOLEAN : keep = (At(r.lines, k).shown # Unknown /\ k \notin noted)
    OBVIOUS
  <2>6. /\ o \in Sights(N) /\ Goes(r, o)
        /\ \A n \in 1..N : n # k + 1 => /\ o.lines[n].shown = r.lines[n].shown
                                        /\ o.lines[n].styles = r.lines[n].styles
        /\ keep => o = r
        /\ ~keep => AsKept(o.lines[k + 1])
        /\ Good(R, r.lines, r.frontier) => Good(R, o.lines, o.frontier)
    BY ZenonT(60), <1>4, <2>1, <2>5
  <2>7. Goes(h, o)
    BY <2>1, <2>4, <2>6, GoesOn
  <2>8. AsKept(o.lines[k + 1])
    <3>1. CASE ~keep
      BY ONLY SMTT(30), <2>6, <3>1
    <3>2. CASE keep
      <4>1. k + 1 \in 1..N /\ ~(k + 1 <= top + i) /\ k + 1 - 1 = k
        BY ONLY N \in Nat, top \in 0..N, size \in Nat, i \in 0..size, k \in 0..N - 1, k = top + i
      <4>2. /\ r.lines[k + 1].shown = h.lines[k + 1].shown
            /\ r.lines[k + 1].styles = h.lines[k + 1].styles
        BY <2>4, <4>1
      <4>3. Drawn(h.view, k + 1 - 1)
        <5>1. top <= k /\ k < end
          BY SMTT(30), <1>10
        <5> QED BY SMTT(30), <5>1 DEF Drawn
      <4>4. r.lines[k + 1].shown # Unknown /\ k + 1 - 1 \notin noted
        <5>1. At(r.lines, k) = r.lines[k + 1]
          BY DEF At
        <5>2. At(r.lines, k).shown # Unknown /\ k \notin noted
          BY <3>2
        <5> QED BY <4>1, <5>1, <5>2
      <4>5. r.lines[k + 1].shown = r.lines[k + 1].styles
        <5>1. k + 1 \in DOMAIN h.lines
          BY <1>0, <4>1
        <5>2. h.lines[k + 1].shown = h.lines[k + 1].styles
          <6> PICK n : n = k + 1
            OBVIOUS
          <6>1. /\ n \in DOMAIN h.lines /\ h.lines[n].shown # Unknown /\ n - 1 \notin noted
                /\ Drawn(h.view, n - 1)
            <7>1. n - 1 = k + 1 - 1 /\ n - 1 = k
              BY ONLY SMTT(30), k \in 0..N - 1, N \in Nat, n = k + 1
            <7>2. n \in DOMAIN h.lines /\ h.lines[n].shown # Unknown
              BY <4>2, <4>4, <5>1
            <7>3. k \notin noted /\ Drawn(h.view, k)
              BY <4>1, <4>3, <4>4
            <7> QED BY <7>1, <7>2, <7>3
          <6>2. h.lines[n].shown = h.lines[n].styles
            BY <6>1 DEF Fresh
          <6> QED BY <6>2
        <5> QED BY <4>2, <5>2
      <4> QED BY ONLY <2>6, <3>2, <4>4, <4>5 DEF AsKept
    <3> QED BY ONLY <3>1, <3>2
  <2>9. ASSUME NEW n \in 1..N
        PROVE  IF top < n /\ n <= top + j THEN AsKept(o.lines[n])
               ELSE /\ o.lines[n].shown = h.lines[n].shown
                    /\ o.lines[n].styles = h.lines[n].styles
    <3>1. CASE n = k + 1
      BY SMTT(30), <2>8, <3>1
    <3>2. CASE n # k + 1
      <4>1. (top < n /\ n <= top + j) <=> (top < n /\ n <= top + i)
        BY ONLY N \in Nat, top \in 0..N, size \in Nat, i \in 0..size, k \in 0..N - 1, k = top + i,
                j \in 1..size, j = i + 1, n \in 1..N, <3>2
      <4>2. o.lines[n].shown = r.lines[n].shown /\ o.lines[n].styles = r.lines[n].styles
        BY <2>6, <3>2
      <4> QED BY <2>4, <4>1, <4>2 DEF AsKept
    <3> QED BY ONLY <3>1, <3>2
  <2>10. Stage(F[j], j)
    BY ONLY <2>3, <2>4, <2>6, <2>7, <2>9
  <2> HIDE DEF Stage
  <2> QED BY <2>10
<1>11. size \in S
  <2>1. (0..size) \subseteq S
    <3>1. size \in Nat /\ 0 \in S /\ \A i \in 0..size : i \in S /\ i < size => i + 1 \in S
      BY <1>9, <1>10
    <3> QED BY ONLY <3>1, StageInduction
  <2>2. size \in 0..size
    OBVIOUS
  <2> QED BY <2>1, <2>2
<1>12. drawn = F[size] /\ drawn \in X /\ Stage(drawn, size)
  <2>1. F[size] = iter[1..size] /\ F[size] \in X
    <3>1. size \in 0..size
      OBVIOUS
    <3> QED BY <1>8, <3>1 DEF Staged
  <2>2. drawn = F[size]
    BY <1>2, <2>1
  <2>3. Stage(F[size], size)
    <3> HIDE DEF Stage
    <3> QED BY <1>11
  <2> HIDE DEF Stage
  <2> QED BY <2>1, <2>2, <2>3
<1> PICK old : old = drawn.lines
  OBVIOUS
<1> PICK new : new = [i \in DOMAIN old |-> IF Drawn(h.view, i - 1) THEN old[i]
                                         ELSE [old[i] EXCEPT !.shown = Unknown]]
  OBVIOUS
<1>13. old \in Documents(N) /\ DOMAIN old = 1..N /\ \A i \in 1..N : old[i] \in LineSet
  BY ZenonT(60), <1>12, DocumentIs DEF Sights
<1>14. out = [drawn EXCEPT !.lines = new]
  BY ZenonT(60), <1>1, <1>12 DEF Sights
<1>15. ASSUME NEW i \in 1..N
       PROVE  /\ new[i] \in LineSet /\ new[i].text = old[i].text /\ new[i].styles = old[i].styles
              /\ new[i].after = old[i].after /\ new[i].skipped = old[i].skipped
              /\ new[i].shown = IF Drawn(h.view, i - 1) THEN old[i].shown ELSE Unknown
  <2>1. CASE Drawn(h.view, i - 1)
    BY <1>13, <2>1, ZenonT(60)
  <2>2. CASE ~Drawn(h.view, i - 1)
    <3> PICK row \in LineSet : row = old[i]
      BY ONLY <1>13
    <3>1. new[i] = [row EXCEPT !.shown = Unknown]
      BY ZenonT(60), <1>13, <2>2
    <3>2. Unknown \in Kept
      BY ONLY DEF Kept
    <3>3. [row EXCEPT !.shown = Unknown] \in LineSet
      BY <3>2 DEF LineSet
    <3>4. LET l == [row EXCEPT !.shown = Unknown]
          IN  /\ l.text = row.text /\ l.styles = row.styles /\ l.after = row.after
              /\ l.skipped = row.skipped /\ l.shown = Unknown
      BY DEF LineSet
    <3> QED BY <2>2, <3>1, <3>3, <3>4, Zenon
  <2> QED BY <2>1, <2>2, ZenonT(60)
<1>16. new \in Documents(N)
  BY <1>13, <1>15, ZenonT(60) DEF Documents
<1>17. /\ out \in Sights(N) /\ out.lines = new /\ out.frontier = drawn.frontier
       /\ out.view = drawn.view /\ drawn.view = h.view
  BY <1>12, <1>14, <1>16, ZenonT(60) DEF Sights, Goes
<1>18. Goes(h, out)
  BY <1>0, <1>12, <1>15, <1>17, ZenonT(60) DEF Goes
<1>19. ASSUME NEW i \in 1..N PROVE ShownWell(out.view, out.lines[i], i - 1)
  <2>1. CASE Drawn(h.view, i - 1)
    <3>1. top < i /\ i <= top + size
      <4>1. top <= i - 1 /\ i - 1 < end
        BY <2>1 DEF Drawn
      <4> QED BY <4>1
    <3>2. AsKept(old[i])
      BY <1>12, <3>1
    <3>3. AsKept(new[i])
      <4>1. new[i].shown = old[i].shown /\ new[i].styles = old[i].styles
        BY <1>15, <2>1, ZenonT(60)
      <4> QED BY <3>2, <4>1, ZenonT(60) DEF AsKept
    <3> QED BY <1>17, <2>1, <3>3, Zenon DEF ShownWell
  <2>2. CASE ~Drawn(h.view, i - 1)
    <3>1. new[i].shown = Unknown
      BY ONLY <1>15, <2>2, ZenonT(60)
    <3> QED BY <1>17, <2>2, <3>1, ZenonT(60) DEF ShownWell
  <2> QED BY <2>1, <2>2
<1>20. ASSUME Good(R, h.lines, h.frontier) PROVE Good(R, new, out.frontier)
  <2> PICK to \in 0..N : to = out.frontier
    BY ZenonT(60), <1>17 DEF Sights
  <2>1. Good(R, old, to)
    BY <1>12, <1>17, <1>20, Zenon
  <2> SUFFICES ASSUME NEW k \in 0..to - 1 PROVE LineRight(R, new[k + 1], k)
    BY ZenonT(60) DEF Good
  <2> PICK i \in 1..N : i = k + 1
    OBVIOUS
  <2>2. LineRight(R, old[i], k)
    BY <2>1 DEF Good
  <2>3. LineRight(R, new[i], k)
    BY ONLY <1>15, <2>2, Zenon DEF LineRight
  <2> QED BY ZenonT(60), <2>3
<1> QED BY <1>17, <1>18, <1>19, <1>20, Zenon

-----------------------------------------------------------------------------
(* The timer.                                                              *)

Passes(N) == [lines : Documents(N), state : States, noted : SUBSET (0..N - 1)]

\* highlightWorker at line k, which is seen or out of sight.
PassAt(r, k, seen) ==
  LET out == RunMode(At(r.lines, k).text, r.state)
  IN  [lines |-> [r.lines EXCEPT ![k + 1] =
                    [@ EXCEPT !.styles = IF seen THEN out.styles ELSE At(r.lines, k).styles,
                              !.after = IF seen \/ k % Every = 0 THEN out.state
                                        ELSE NoneKept,
                              !.skipped = ~seen /\ At(r.lines, k).styles # Unknown]],
       state |-> out.state,
       noted |-> IF seen /\ At(r.lines, k).styles # out.styles
                 THEN r.noted \cup {k} ELSE r.noted]

\* What has got other styles is noted, what is drawn stays.
Notes(r, o) ==
  /\ r.noted \subseteq o.noted
  /\ \A i \in DOMAIN r.lines :
       /\ o.lines[i].text = r.lines[i].text /\ o.lines[i].shown = r.lines[i].shown
       /\ o.lines[i].styles # r.lines[i].styles => i - 1 \in o.noted

\* One line is gone over: right, if the state before it was.
LEMMA PassOne ==
  ASSUME NEW N \in Nat, NEW r \in Passes(N), NEW k \in 0..N - 1, NEW seen \in BOOLEAN,
         NEW R, NEW o, o = PassAt(r, k, seen)
  PROVE  /\ o \in Passes(N) /\ Notes(r, o)
         /\ \A i \in 1..N : i # k + 1 => o.lines[i] = r.lines[i]
         /\ Follow(R, r.lines) /\ r.state = R[k] =>
              o.state = R[k + 1] /\ LineRight(R, o.lines[k + 1], k)
<1> PICK lines \in Documents(N) : lines = r.lines
  BY DEF Passes
<1> PICK l \in 1..N : l = k + 1
  OBVIOUS
<1> PICK old \in LineSet : old = lines[l]
  BY DocumentIs
<1> PICK run : run = RunMode(old.text, r.state)
  OBVIOUS
<1>0. DOMAIN lines = 1..N /\ At(lines, k) = old /\ Len(lines) = N
  BY DocumentIs DEF At
<1>1. /\ run.state \in States /\ run.state # NoneKept /\ run.styles \in Kept
      /\ run.styles # Unknown /\ run.state = StateAfter(old.text, r.state)
  <2>1. old.text \in Seq(STRING) /\ r.state \in States
    BY DEF LineSet, Passes
  <2> QED BY <2>1, NotKept
<1> PICK styles \in Kept : styles = IF seen THEN run.styles ELSE old.styles
  BY <1>1 DEF LineSet
<1> PICK after \in States \cup {NoneKept} :
      after = IF seen \/ k % Every = 0 THEN run.state ELSE NoneKept
  BY <1>1
<1> PICK skipped \in BOOLEAN : skipped = (~seen /\ old.styles # Unknown)
  OBVIOUS
<1> PICK row : row = [old EXCEPT !.styles = styles, !.after = after, !.skipped = skipped]
  OBVIOUS
<1>2. /\ row \in LineSet /\ row.text = old.text /\ row.shown = old.shown
      /\ row.styles = styles /\ row.after = after /\ row.skipped = skipped
  BY ZenonT(60) DEF LineSet
<1> PICK new : new = [lines EXCEPT ![l] = row]
  OBVIOUS
<1>3. new \in Documents(N) /\ new[l] = row /\ \A i \in 1..N : i # l => new[i] = lines[i]
  BY <1>0, <1>2 DEF Documents
<1> PICK noted : noted = IF seen /\ old.styles # run.styles THEN r.noted \cup {k} ELSE r.noted
  OBVIOUS
<1>4. o = [lines |-> new, state |-> run.state, noted |-> noted]
  <2>1. RunMode(At(r.lines, k).text, r.state) = run /\ At(r.lines, k) = old
    BY <1>0
  <2>2. [lines EXCEPT ![k + 1] =
           [@ EXCEPT !.styles = IF seen THEN run.styles ELSE old.styles,
                     !.after = IF seen \/ k % Every = 0 THEN run.state ELSE NoneKept,
                     !.skipped = ~seen /\ old.styles # Unknown]] = new
    BY <1>0
  <2> QED BY <2>1, <2>2 DEF PassAt
<1>5. noted \in SUBSET (0..N - 1) /\ r.noted \subseteq noted
  BY SMTT(30) DEF Passes
<1>6. o \in Passes(N) /\ o.lines = new /\ o.state = run.state /\ o.noted = noted
  BY <1>1, <1>3, <1>4, <1>5 DEF Passes
<1>7. Notes(r, o)
  <2>1. /\ DOMAIN r.lines = 1..N /\ r.lines = lines /\ o.lines = new
        /\ r.noted \subseteq noted /\ o.noted = noted
    BY <1>0, <1>5, <1>6
  <2>2. ASSUME NEW i \in 1..N
        PROVE  /\ new[i].text = lines[i].text /\ new[i].shown = lines[i].shown
               /\ new[i].styles # lines[i].styles => i - 1 \in noted
    <3>1. CASE i # l
      BY ONLY <1>3, <3>1
    <3>2. CASE i = l
      <4>1. i - 1 = k
        BY <3>2
      <4> QED BY <1>2, <1>3, <3>2, <4>1
    <3> QED BY ONLY <3>1, <3>2
  <2> QED BY ONLY SMTT(30), <2>1, <2>2 DEF Notes
<1>8. ASSUME Follow(R, lines), r.state = R[k]
      PROVE  run.state = R[l] /\ LineRight(R, row, k)
  <2>1. R[l] = StateAfter(old.text, R[k])
    <3>1. l - 1 = k
      OBVIOUS
    <3>2. R[l] = StateAfter(lines[l].text, R[l - 1])
      BY <1>0, <1>8 DEF Follow
    <3> QED BY <3>1, <3>2
  <2>2. run.state = R[l] /\ run.styles = RunMode(row.text, R[k]).styles
    BY <1>1, <1>2, <1>8, <2>1
  <2>3. row.after \in {NoneKept, R[k + 1]} /\ (k % Every = 0 => row.after # NoneKept)
    BY <1>1, <1>2, <2>2
  <2>4. row.styles \in {Unknown, RunMode(row.text, R[k]).styles} \/ row.skipped
    BY <1>2, <2>2
  <2> QED BY <2>2, <2>3, <2>4 DEF LineRight
<1> QED BY <1>3, <1>6, <1>7, <1>8

\* The timer makes lines right up to where it stops, and has those drawn
\* again that come out otherwise.
LEMMA RecolouredIs ==
  ASSUME NEW N \in Nat, NEW h \in Sights(N), NEW R, Follow(R, h.lines),
         Good(R, h.lines, h.frontier),
         \A i \in 1..N : ShownWell(h.view, h.lines[i], i - 1),
         NEW stop \in 0..N, h.frontier <= stop, NEW out, out = Recoloured(h, stop)
  PROVE  /\ out \in Sights(N) /\ Goes(h, out)
         /\ \A i \in 1..N : ShownWell(out.view, out.lines[i], i - 1)
         /\ Good(R, out.lines, out.frontier)
<1> PICK lines \in Documents(N) : lines = h.lines
  BY DEF Sights
<1> PICK top \in 0..N : top = h.frontier
  BY DEF Sights
<1>0. DOMAIN lines = 1..N /\ top <= stop /\ Good(R, lines, top) /\ Follow(R, lines)
  BY DocumentIs
<1> PICK size \in Nat : size = stop - top
  BY <1>0
<1> PICK seq : seq = [i \in 1..size |-> top + i - 1]
  OBVIOUS
<1> PICK X : X = Passes(N)
  OBVIOUS
<1> PICK before : before = StateBefore(h, top)
  OBVIOUS
<1> PICK base : base = [lines |-> before.lines, state |-> before.state, noted |-> {}]
  OBVIOUS
<1> DEFINE op(r, k) == PassAt(r, k, k >= h.view.from)
<1> PICK st : st = [p \in (1..size) \X X |-> op(p[2], seq[p[1]])]
  OBVIOUS
<1> DEFINE iter[s \in SUBSET (1..size)] ==
      IF s = {} THEN base ELSE LET x == Max(s) IN op(iter[s \ {x}], seq[x])
<1> PICK passed : passed = FoldLeft(op, base, seq)
  OBVIOUS
<1> PICK mid : mid = [h EXCEPT !.lines = passed.lines, !.frontier = stop]
  OBVIOUS
<1>1. out = Redrawn(mid, passed.noted)
  BY DEF Recoloured, PassAt
<1>2. FoldLeft(op, base, seq) = iter[1..size]
  BY DEF FoldLeft, MapThenFoldSet
<1>3. ASSUME NEW i \in 1..size PROVE seq[i] = top + i - 1 /\ seq[i] \in 0..N - 1
  <2>1. seq[i] = top + i - 1
    OBVIOUS
  <2>2. top + i - 1 \in 0..N - 1
    BY ONLY N \in Nat, top \in 0..N, stop \in 0..N, size = stop - top, i \in 1..size
  <2> QED BY <2>1, <2>2
<1>4. ASSUME NEW r \in X, NEW k \in 0..N - 1
      PROVE  /\ op(r, k) \in Passes(N) /\ Notes(r, op(r, k))
             /\ \A i \in 1..N : i # k + 1 => op(r, k).lines[i] = r.lines[i]
             /\ Follow(R, r.lines) /\ r.state = R[k] =>
                  op(r, k).state = R[k + 1] /\ LineRight(R, op(r, k).lines[k + 1], k)
  <2> PICK from \in 0..N : from = h.view.from
    BY DEF Sights, ViewsOf
  <2>0. (k >= from) \in BOOLEAN
    <3>1. k \in Int /\ from \in Int
      BY ONLY N \in Nat, k \in 0..N - 1, from \in 0..N
    <3> QED BY ONLY <3>1
  <2> PICK seen \in BOOLEAN : seen = (k >= from)
    BY <2>0, Zenon
  <2> PICK o : o = PassAt(r, k, seen)
    OBVIOUS
  <2>1. /\ o \in Passes(N) /\ Notes(r, o)
        /\ \A i \in 1..N : i # k + 1 => o.lines[i] = r.lines[i]
        /\ Follow(R, r.lines) /\ r.state = R[k] =>
             o.state = R[k + 1] /\ LineRight(R, o.lines[k + 1], k)
    <3>1. r \in Passes(N)
      OBVIOUS
    <3> QED BY ONLY N \in Nat, <3>1, k \in 0..N - 1, seen \in BOOLEAN,
                    o = PassAt(r, k, seen), PassOne
  <2>2. op(r, k) = o
    OBVIOUS
  <2> HIDE DEF op
  <2> QED BY <2>1, <2>2
<1> HIDE DEF op
<1>5. st \in [(1..size) \X X -> X]
  BY <1>3, <1>4
<1>6. /\ base \in X /\ OnlyStates(lines, before.lines) /\ Good(R, before.lines, top)
      /\ before.lines \in Documents(N) /\ before.state = R[top]
  <2>1. /\ before.lines \in Documents(N) /\ before.state \in States
        /\ OnlyStates(h.lines, before.lines) /\ Good(R, before.lines, top)
        /\ top <= top => before.state = R[top]
    <3>1. h.lines \in Documents(N) /\ Follow(R, h.lines) /\ Good(R, h.lines, top)
      BY <1>0
    <3> QED BY ONLY N \in Nat, top \in 0..N, <3>1, before = StateBefore(h, top), BeforeIs
  <2> QED BY <2>1 DEF Passes
<1> DEFINE Solved(g) ==
      g = [s \in SUBSET (1..size) |->
             IF s = {} THEN base ELSE op(g[s \ {Max(s)}], seq[Max(s)])]
<1>7. \E g : Solved(g)
  <2>1. PICK G \in [SUBSET (1..size) -> X] : Folds(G, size, base, st)
    BY ONLY size \in Nat, <1>5, <1>6, SequenceWalk
  <2>2. ASSUME NEW s \in SUBSET (1..size), s # {}
        PROVE  st[<<Max(s), G[s \ {Max(s)}]>>] = op(G[s \ {Max(s)}], seq[Max(s)])
    <3>1. Max(s) \in 1..size /\ s \ {Max(s)} \in SUBSET (1..size)
      BY <2>2, LastTaken
    <3>2. G[s \ {Max(s)}] \in X
      BY <3>1
    <3> QED BY <3>1, <3>2
  <2>3. Solved(G)
    BY ONLY <2>1, <2>2 DEF Folds
  <2> QED BY ONLY <2>3
<1>8. Solved(iter)
  BY <1>7
<1> HIDE DEF iter
<1>9. PICK F : Staged(F, size, X, base, st, iter[1..size])
  <2> PICK g : g = iter
    OBVIOUS
  <2>1. g[{}] = base
    BY <1>8
  <2>2. ASSUME NEW s \in SUBSET (1..size), s # {}, g[s \ {Max(s)}] \in X
        PROVE  g[s] = st[<<Max(s), g[s \ {Max(s)}]>>]
    <3>1. Max(s) \in 1..size
      BY <2>2, LastTaken
    <3>2. g[s] = op(g[s \ {Max(s)}], seq[Max(s)])
      BY <1>8, <2>2
    <3> QED BY <2>2, <3>1, <3>2
  <2>3. Walks(g, size, X, base, st)
    BY <2>1, <2>2 DEF Walks
  <2> QED BY <1>5, <1>6, <2>3, WalkStages
<1> DEFINE Stage(r, i) ==
      /\ r.state = R[top + i] /\ Good(R, r.lines, top + i)
      /\ \A j \in 1..N :
           /\ r.lines[j].text = lines[j].text /\ r.lines[j].shown = lines[j].shown
           /\ r.lines[j].styles # lines[j].styles => j - 1 \in r.noted
<1> PICK S : S = {i \in 0..size : Stage(F[i], i)}
  OBVIOUS
<1>10. 0 \in S
  <2>1. F[0] = base
    BY <1>9 DEF Staged
  <2>2. top + 0 = top
    OBVIOUS
  <2>3. \A j \in 1..N : /\ before.lines[j].text = lines[j].text
                       /\ before.lines[j].shown = lines[j].shown
                       /\ before.lines[j].styles = lines[j].styles
    BY <1>6, OnlyStatesSame
  <2>4. Stage(base, 0)
    BY <1>6, <2>2, <2>3
  <2> HIDE DEF Stage
  <2> QED BY <2>1, <2>4
<1>11. ASSUME NEW i \in 0..size, i \in S, i < size PROVE i + 1 \in S
  <2> PICK j \in 1..size : j = i + 1
    BY <1>11
  <2> PICK k \in 0..N - 1 : k = top + i
    BY <1>3
  <2> PICK r : r = F[i]
    OBVIOUS
  <2>1. r \in X /\ F[j] = st[<<j, r>>]
    <3>1. j - 1 = i
      OBVIOUS
    <3> QED BY <1>9, <3>1 DEF Staged
  <2>2. seq[j] = k
    <3>1. seq[j] = top + j - 1
      BY <1>3
    <3> QED BY <3>1
  <2> PICK o : o = op(r, k)
    OBVIOUS
  <2>3. F[j] = o
    BY <2>1, <2>2
  <2>4. Stage(r, i) /\ r.lines \in Documents(N) /\ DOMAIN r.lines = 1..N
    BY <1>11, <2>1, DocumentIs DEF Passes
  <2>5. Follow(R, r.lines)
    BY <1>0, <2>4, FollowSame
  <2>6. /\ Notes(r, o) /\ o.state = R[k + 1] /\ LineRight(R, o.lines[k + 1], k)
        /\ \A n \in 1..N : n # k + 1 => o.lines[n] = r.lines[n]
    BY <1>4, <2>1, <2>4, <2>5
  <2>7. k + 1 = top + j
    OBVIOUS
  <2>8. ASSUME NEW n \in 0..(top + j) - 1 PROVE LineRight(R, o.lines[n + 1], n)
    <3>1. CASE n = k
      BY ONLY <2>6, <3>1
    <3>2. CASE n # k
      <4>1. n \in 0..(top + i) - 1 /\ n + 1 \in 1..N /\ n + 1 # k + 1
        BY ONLY N \in Nat, top \in 0..N, stop \in 0..N, size = stop - top, i \in 0..size,
                j \in 1..size, j = i + 1, k = top + i, n \in 0..(top + j) - 1, <3>2
      <4>2. LineRight(R, r.lines[n + 1], n)
        BY <2>4, <4>1 DEF Good
      <4> QED BY <2>6, <4>1, <4>2
    <3> QED BY <3>1, <3>2
  <2>9. ASSUME NEW n \in 1..N
        PROVE  /\ o.lines[n].text = lines[n].text /\ o.lines[n].shown = lines[n].shown
               /\ o.lines[n].styles # lines[n].styles => n - 1 \in o.noted
    <3>1. /\ r.lines[n].text = lines[n].text /\ r.lines[n].shown = lines[n].shown
          /\ r.lines[n].styles # lines[n].styles => n - 1 \in r.noted
      BY <2>4
    <3>2. /\ o.lines[n].text = r.lines[n].text /\ o.lines[n].shown = r.lines[n].shown
          /\ o.lines[n].styles # r.lines[n].styles => n - 1 \in o.noted
          /\ r.noted \subseteq o.noted
      BY <2>4, <2>6 DEF Notes
    <3> QED BY <3>1, <3>2
  <2>10. Good(R, o.lines, top + j)
    BY <2>8 DEF Good
  <2>11. Stage(F[j], j)
    BY ONLY <2>3, <2>6, <2>7, <2>9, <2>10
  <2> HIDE DEF Stage
  <2> QED BY <2>11
<1>12. size \in S
  <2>1. (0..size) \subseteq S
    <3>1. size \in Nat /\ 0 \in S /\ \A i \in 0..size : i \in S /\ i < size => i + 1 \in S
      BY <1>10, <1>11
    <3> QED BY ONLY SMTT(30), <3>1, StageInduction
  <2>2. size \in 0..size
    OBVIOUS
  <2> QED BY <2>1, <2>2
<1>13. passed \in X /\ Stage(passed, size)
  <2>1. F[size] = iter[1..size] /\ F[size] \in X
    <3>1. size \in 0..size
      OBVIOUS
    <3> QED BY <1>9, <3>1 DEF Staged
  <2>2. passed = F[size]
    BY <1>2, <2>1
  <2>3. Stage(F[size], size)
    <3> HIDE DEF Stage
    <3> QED BY <1>12
  <2> HIDE DEF Stage
  <2> QED BY <2>1, <2>2, <2>3
<1>14. /\ mid \in Sights(N) /\ mid.lines = passed.lines /\ mid.frontier = stop
       /\ mid.view = h.view /\ DOMAIN passed.lines = 1..N
  BY <1>13, DocumentIs, ZenonT(60) DEF Sights, Passes
<1>15. Fresh(mid, passed.noted)
  <2>1. ASSUME NEW i \in 1..N, Drawn(h.view, i - 1), i - 1 \notin passed.noted
        PROVE  passed.lines[i].shown = passed.lines[i].styles
    <3>1. lines[i].shown = lines[i].styles
      BY <2>1 DEF ShownWell, AsKept
    <3>2. /\ passed.lines[i].shown = lines[i].shown
          /\ passed.lines[i].styles # lines[i].styles => i - 1 \in passed.noted
      BY <1>13
    <3> QED BY <2>1, <3>1, <3>2
  <2> QED BY ONLY <1>14, <2>1 DEF Fresh
<1>16. Follow(R, mid.lines)
  <2>1. passed.lines \in Documents(N)
    BY <1>13 DEF Passes
  <2> PICK new : new = passed.lines
    OBVIOUS
  <2>2. new \in Documents(N) /\ \A i \in 1..N : new[i].text = lines[i].text
    BY <1>13, <2>1
  <2>3. Follow(R, new)
    BY ONLY N \in Nat, lines \in Documents(N), <1>0, <2>2, FollowSame
  <2> QED BY <1>14, <2>3
<1>17. Good(R, mid.lines, mid.frontier)
  <2>1. top + size = stop
    OBVIOUS
  <2> QED BY <1>13, <1>14, <2>1
<1>18. /\ out \in Sights(N) /\ Goes(mid, out)
       /\ \A i \in 1..N : ShownWell(out.view, out.lines[i], i - 1)
       /\ Good(R, out.lines, out.frontier)
  <2>1. mid \in Sights(N)
    BY ONLY <1>14
  <2> PICK noted : noted = passed.noted
    OBVIOUS
  <2>2. Fresh(mid, noted) /\ out = Redrawn(mid, noted)
    BY ONLY <1>1, <1>15, noted = passed.noted
  <2>3. /\ out \in Sights(N) /\ Goes(mid, out)
        /\ \A i \in 1..N : ShownWell(out.view, out.lines[i], i - 1)
        /\ Good(R, mid.lines, mid.frontier) => Good(R, out.lines, out.frontier)
    BY ONLY N \in Nat, <1>16, <2>1, <2>2, RedrawnIs
  <2> QED BY ONLY <1>17, <2>3
<1>19. Goes(h, mid)
  <2>1. \A i \in 1..N : passed.lines[i].text = lines[i].text
    BY <1>13
  <2>2. mid.view = h.view /\ mid.frontier = stop /\ mid.lines = passed.lines
    BY <1>14
  <2> QED BY ONLY <1>0, <2>1, <2>2, h.frontier <= stop, lines = h.lines DEF Goes
<1>20. Goes(h, out)
  BY <1>14, <1>18, <1>19, GoesOn
<1> QED BY <1>18, <1>20

-----------------------------------------------------------------------------
(* All actions.                                                            *)

Sound(h, N, timer) ==
  /\ h \in Sights(N) /\ Good(Rights(h.lines), h.lines, h.frontier)
  /\ \A i \in 1..N : ShownWell(h.view, h.lines[i], i - 1)
  /\ h.frontier < h.view.to => timer
HInv == Len(sql) \in Nat /\ Sound(Here, Len(sql), worker)

\* A line that is drawn as it is kept, or not drawn.
Drawable == {row \in LineSet : row.shown = Unknown \/ row.shown = row.styles}

\* What is known of lines depends on them and on the right states only.
LEMMA GoodSame ==
  ASSUME NEW m \in Nat, NEW lines, NEW other, NEW R, NEW Q, Good(R, lines, m),
         \A i \in 1..m : other[i] = lines[i],
         \A k \in 0..m : R[k] = Q[k]
  PROVE  Good(Q, other, m)
<1> SUFFICES ASSUME NEW k \in 0..m - 1 PROVE LineRight(Q, other[k + 1], k)
  BY DEF Good
<1>1. k \in 0..m /\ k + 1 \in 0..m /\ k + 1 \in 1..m
  OBVIOUS
<1>2. LineRight(R, lines[k + 1], k)
  BY DEF Good
<1>3. other[k + 1] = lines[k + 1] /\ R[k] = Q[k] /\ R[k + 1] = Q[k + 1]
  BY <1>1
<1> QED BY <1>2, <1>3 DEF LineRight

\* What is right stays right as long as the lines before are the same.
LEMMA GoodStays ==
  ASSUME NEW N \in Nat, NEW lines \in Documents(N), NEW M \in Nat, NEW other \in Documents(M),
         NEW n \in 0..N, n <= M, \A i \in 1..n : other[i] = lines[i],
         NEW m \in 0..n, Good(Rights(lines), lines, m)
  PROVE  Good(Rights(other), other, m)
<1> PICK R : R = Rights(lines)
  OBVIOUS
<1> PICK Q : Q = Rights(other)
  OBVIOUS
<1>1. \A i \in 1..n : lines[i].text = other[i].text
  OBVIOUS
<1>2. \A k \in 0..n : Rights(lines)[k] = Rights(other)[k]
  BY <1>1, RightsSame
<1>3. m \in Nat /\ Good(R, lines, m) /\ \A i \in 1..m : i \in 1..n
  OBVIOUS
<1>4. \A k \in 0..m : R[k] = Q[k]
  <2>1. \A k \in 0..m : k \in 0..n
    OBVIOUS
  <2> QED BY <1>2, <2>1
<1>5. \A i \in 1..m : other[i] = lines[i]
  BY <1>3
<1>6. Good(Q, other, m)
  BY ONLY <1>3, <1>4, <1>5, GoodSame
<1> QED BY <1>6

\* And with the texts of all lines the same.
LEMMA GoodTexts ==
  ASSUME NEW N \in Nat, NEW lines \in Documents(N), NEW other \in Documents(N),
         \A i \in 1..N : other[i].text = lines[i].text,
         NEW m \in 0..N, Good(Rights(lines), other, m)
  PROVE  Good(Rights(other), other, m)
<1> PICK R : R = Rights(lines)
  OBVIOUS
<1> PICK Q : Q = Rights(other)
  OBVIOUS
<1>1. N \in 0..N /\ N <= N /\ \A i \in 1..N : lines[i].text = other[i].text
  OBVIOUS
<1>2. \A k \in 0..N : Rights(lines)[k] = Rights(other)[k]
  BY <1>1, RightsSame
<1>3. m \in Nat /\ Good(R, other, m) /\ \A k \in 0..m : k \in 0..N
  OBVIOUS
<1>4. \A k \in 0..m : R[k] = Q[k]
  BY <1>2, <1>3
<1>5. Good(Q, other, m)
  <2>1. \A i \in 1..m : other[i] = other[i]
    OBVIOUS
  <2> QED BY ONLY <1>3, <1>4, <2>1, GoodSame
<1> QED BY <1>5

\* A sound state of affairs that comes about.
LEMMA BecomesSound ==
  ASSUME NEW N \in Nat, NEW h, NEW timer \in BOOLEAN, Sound(h, N, timer), Becomes(h, timer)
  PROVE  HInv'
<1>1. /\ h.lines \in Documents(N) /\ Len(h.lines) = N
      /\ h = [lines |-> h.lines, frontier |-> h.frontier, view |-> h.view]
  BY DocumentIs DEF Sound, Sights
<1>2. sql' = h.lines /\ frontier' = h.frontier /\ inView' = h.view /\ worker' = timer
  BY DEF Becomes
<1>3. Here' = h /\ Len(sql') = N
  BY <1>1, <1>2 DEF Here
<1>4. Sound(Here', Len(sql'), worker')
  BY <1>2, <1>3
<1> QED BY <1>3, <1>4 DEF HInv

\* Whatever is drawn is sound once the timer is set where it has to be.
LEMMA RedrawnSound ==
  ASSUME NEW N \in Nat, NEW h \in Sights(N), Good(Rights(h.lines), h.lines, h.frontier),
         NEW noted, Fresh(h, noted), NEW out, out = Redrawn(h, noted), NEW timer,
         (h.frontier < h.view.to => timer) \/ (out.frontier < out.view.to => timer)
  PROVE  Sound(out, N, timer)
<1> PICK R : R = Rights(h.lines)
  OBVIOUS
<1>1. h.lines \in Documents(N) /\ h.frontier \in 0..N
  BY DEF Sights
<1>2. Follow(R, h.lines)
  BY <1>1, RightsFollow
<1>3. /\ out \in Sights(N) /\ Goes(h, out)
      /\ \A i \in 1..N : ShownWell(out.view, out.lines[i], i - 1)
      /\ Good(R, h.lines, h.frontier) => Good(R, out.lines, out.frontier)
  BY <1>2, RedrawnIs
<1>4. out.lines \in Documents(N) /\ out.frontier \in 0..N
  BY <1>3 DEF Sights
<1>5. \A i \in 1..N : h.lines[i].text = out.lines[i].text
  BY <1>1, <1>3, DocumentIs DEF Goes
<1>7. Good(Rights(out.lines), out.lines, out.frontier)
  <2> PICK lines : lines = h.lines
    OBVIOUS
  <2> PICK other : other = out.lines
    OBVIOUS
  <2> PICK m : m = out.frontier
    OBVIOUS
  <2>1. /\ lines \in Documents(N) /\ other \in Documents(N) /\ m \in 0..N
        /\ \A i \in 1..N : other[i].text = lines[i].text
        /\ Good(Rights(lines), other, m)
    BY <1>1, <1>3, <1>4, <1>5
  <2>2. Good(Rights(other), other, m)
    BY ONLY N \in Nat, <2>1, GoodTexts
  <2> QED BY <2>2
<1>8. out.frontier < out.view.to => timer
  <2> PICK a \in Int : a = h.frontier
    BY <1>1
  <2> PICK b \in Int : b = out.frontier
    BY <1>4
  <2> PICK c \in Int : c = h.view.to
    BY DEF Sights, ViewsOf
  <2>1. a <= b /\ out.view.to = c
    BY <1>3 DEF Goes
  <2> QED BY <2>1
<1> QED BY <1>3, <1>7, <1>8 DEF Sound

\* What is known here, in the words of the actions.
LEMMA HereIs ==
  ASSUME HInv
  PROVE  /\ Len(sql) \in Nat /\ sql \in Documents(Len(sql)) /\ DOMAIN sql = 1..Len(sql)
         /\ frontier \in 0..Len(sql) /\ inView \in ViewsOf(Len(sql))
         /\ Here \in Sights(Len(sql))
         /\ Here.lines = sql /\ Here.frontier = frontier /\ Here.view = inView
         /\ Good(Rights(sql), sql, frontier) /\ Follow(Rights(sql), sql)
         /\ \A i \in 1..Len(sql) : sql[i] \in Drawable /\ ShownWell(inView, sql[i], i - 1)
         /\ frontier < inView.to => worker
<1> PICK N : N = Len(sql)
  OBVIOUS
<1>1. Here.lines = sql /\ Here.frontier = frontier /\ Here.view = inView
  BY DEF Here
<1>2. N \in Nat /\ Sound(Here, N, worker)
  BY DEF HInv
<1>3. Here \in Sights(N)
  BY <1>2 DEF Sound
<1>4. sql \in Documents(N) /\ frontier \in 0..N /\ inView \in ViewsOf(N)
  BY <1>1, <1>3 DEF Sights
<1>5. DOMAIN sql = 1..N /\ \A i \in 1..N : sql[i] \in LineSet
  BY <1>2, <1>4, DocumentIs
<1>6. \A i \in 1..N : ShownWell(inView, sql[i], i - 1)
  BY <1>1, <1>2 DEF Sound
<1>7. \A i \in 1..N : sql[i] \in Drawable
  BY <1>5, <1>6 DEF Drawable, ShownWell, AsKept
<1>8. Good(Rights(sql), sql, frontier) /\ (frontier < inView.to => worker)
  BY <1>1, <1>2 DEF Sound
<1>9. Follow(Rights(sql), sql)
  BY <1>2, <1>4, RightsFollow
<1> QED BY <1>1, <1>2, <1>3, <1>4, <1>5, <1>6, <1>7, <1>8, <1>9

\* The view is another.
LEMMA ScrollSound ==
  ASSUME HInv, worker \in BOOLEAN, NEW view \in Views(Len(sql)), ScrollSql(view)
  PROVE  HInv' /\ worker' \in BOOLEAN
<1> PICK N : N = Len(sql)
  OBVIOUS
<1> PICK h : h = [Here EXCEPT !.view = view]
  OBVIOUS
<1> PICK out : out = Redrawn(h, {})
  OBVIOUS
<1>0. /\ N \in Nat /\ DOMAIN sql = 1..N /\ Here \in Sights(N) /\ Here.lines = sql
      /\ Here.frontier = frontier /\ Good(Rights(sql), sql, frontier)
      /\ \A i \in 1..N : sql[i] \in Drawable
      /\ frontier < inView.to => worker
  BY HereIs
<1>1. view \in ViewsOf(N)
  BY <1>0 DEF Views, ViewsOf
<1>2. h \in Sights(N) /\ h.lines = sql /\ h.frontier = frontier /\ h.view = view
  BY <1>0, <1>1 DEF Sights
<1>3. Fresh(h, {})
  BY <1>0, <1>2 DEF Fresh, Drawable
<1>4. Good(Rights(h.lines), h.lines, h.frontier)
  BY <1>0, <1>2
<1>5. worker' = WorkerStarts(out) /\ Becomes(out, worker')
  BY DEF ScrollSql, Becomes
<1>6. out \in Sights(N)
  <2>1. Sound(out, N, TRUE)
    BY <1>0, <1>2, <1>3, <1>4, RedrawnSound
  <2> QED BY <2>1 DEF Sound
<1>7. worker' \in BOOLEAN /\ (out.frontier < out.view.to => worker')
  <2> PICK a \in Int : a = out.frontier
    BY <1>6 DEF Sights
  <2> PICK b \in Int : b = out.view.to
    BY <1>6 DEF Sights, ViewsOf
  <2>1. WorkerStarts(out) = (worker \/ a < b)
    BY DEF WorkerStarts
  <2> QED BY <1>5, <2>1
<1>8. Sound(out, N, worker')
  <2> PICK timer : timer = worker'
    OBVIOUS
  <2>1. out.frontier < out.view.to => timer
    BY <1>7
  <2>2. Sound(out, N, timer)
    BY <1>0, <1>2, <1>3, <1>4, <2>1, RedrawnSound
  <2> QED BY <2>2
<1> QED BY <1>0, <1>5, <1>7, <1>8, BecomesSound

\* A line says something else.
LEMMA TypeSound ==
  ASSUME HInv, worker \in BOOLEAN, NEW n \in 0..Len(sql) - 1, NEW text \in SqlLines,
         TypeSql(n, text)
  PROVE  HInv' /\ worker' \in BOOLEAN
<1> PICK N : N = Len(sql)
  OBVIOUS
<1>0. /\ N \in Nat /\ DOMAIN sql = 1..N /\ Here \in Sights(N) /\ sql \in Documents(N)
      /\ frontier \in 0..N /\ inView \in ViewsOf(N)
      /\ Good(Rights(sql), sql, frontier)
      /\ \A i \in 1..N : sql[i] \in Drawable
  BY HereIs
<1> PICK l \in 1..N : l = n + 1
  BY <1>0
<1> PICK row : row = [sql[l] EXCEPT !.text = text, !.styles = Unknown, !.after = NoneKept,
                                      !.skipped = FALSE]
  OBVIOUS
<1> PICK new : new = [sql EXCEPT ![l] = row]
  OBVIOUS
<1> PICK to \in 0..N : to = Lowered(n)
  BY <1>0 DEF Lowered
<1> PICK h : h = [lines |-> new, frontier |-> to, view |-> inView]
  OBVIOUS
<1> PICK out : out = Redrawn(h, {n})
  OBVIOUS
<1>1. row \in LineSet
  <2>1. text \in Seq(STRING)
    BY HighlightAssumption
  <2>2. sql[l] \in LineSet /\ Unknown \in Kept
    BY <1>0 DEF Drawable, Kept
  <2> QED BY <2>1, <2>2 DEF LineSet
<1>2. new \in Documents(N) /\ new[l] = row /\ \A i \in 1..N : i # l => new[i] = sql[i]
  BY <1>0, <1>1 DEF Documents
<1>3. h \in Sights(N) /\ h.lines = new /\ h.frontier = to /\ h.view = inView
  BY <1>0, <1>2 DEF Sights
<1>4. to <= n /\ to <= frontier
  BY <1>0 DEF Lowered
<1>5. Good(Rights(new), new, to)
  <2> PICK old : old = sql
    OBVIOUS
  <2>1. \A i \in 1..n : i \in 1..N /\ i # l
    BY <1>0
  <2>2. \A i \in 1..n : new[i] = old[i]
    BY <1>2, <2>1
  <2>3. n \in 0..N /\ n <= N /\ to \in 0..n
    <3>1. N \in Nat /\ frontier \in 0..N /\ n \in 0..N - 1
      BY <1>0
    <3> QED BY ONLY <3>1, to \in 0..N, <1>4
  <2>4. old \in Documents(N) /\ new \in Documents(N) /\ Good(Rights(old), old, to)
    BY <1>0, <1>2, <1>4 DEF Good
  <2> QED BY ONLY N \in Nat, <2>2, <2>3, <2>4, GoodStays
<1>6. Fresh(h, {n})
  <2>1. ASSUME NEW i \in 1..N, new[i].shown # Unknown, i - 1 \notin {n}
        PROVE  new[i].shown = new[i].styles
    <3>1. i # l
      BY <2>1
    <3> QED BY <1>0, <1>2, <2>1, <3>1 DEF Drawable
  <2>2. DOMAIN new = 1..N
    BY <1>2 DEF Documents
  <2> QED BY <1>3, <2>1, <2>2 DEF Fresh
<1>7. worker' = WorkerStarts(h) /\ Becomes(out, worker')
  <2>1. At(sql, n) = sql[l] /\ n + 1 = l
    BY DEF At
  <2>2. h = [lines |-> [sql EXCEPT ![n + 1] =
                          [@ EXCEPT !.text = text, !.styles = Unknown, !.after = NoneKept,
                                    !.skipped = FALSE]],
             frontier |-> Lowered(n), view |-> inView]
    BY <1>0, <2>1
  <2> QED BY <2>2 DEF TypeSql, Becomes
<1>8. worker' \in BOOLEAN /\ (h.frontier < h.view.to => worker')
  <2> PICK b \in Int : b = inView.to
    BY <1>0 DEF ViewsOf
  <2>1. WorkerStarts(h) = (worker \/ to < b)
    BY <1>3 DEF WorkerStarts
  <2> QED BY <1>3, <1>7, <2>1
<1>9. Sound(out, N, worker')
  <2> PICK timer : timer = worker'
    OBVIOUS
  <2>1. h.frontier < h.view.to => timer
    BY <1>8
  <2>2. Sound(out, N, timer)
    BY <1>0, <1>3, <1>5, <1>6, <2>1, RedrawnSound
  <2> QED BY <2>2
<1> QED BY <1>0, <1>7, <1>8, <1>9, BecomesSound

\* Lines are put in the place of others.
LEMMA ReplacedSound ==
  ASSUME HInv, worker \in BOOLEAN, NEW n \in 0..Len(sql), NEW gone \in Nat,
         NEW lines \in Seq(Drawable), Replaced(n, lines, gone)
  PROVE  HInv' /\ worker' \in BOOLEAN
<1> PICK N : N = Len(sql)
  OBVIOUS
<1> PICK old : old = sql
  OBVIOUS
<1>0. /\ N \in Nat /\ DOMAIN old = 1..N /\ old \in Documents(N) /\ Len(old) = N
      /\ frontier \in 0..N /\ inView \in ViewsOf(N)
      /\ Good(Rights(old), old, frontier)
      /\ \A i \in 1..N : old[i] \in Drawable
  BY HereIs
<1> PICK all : all = Spliced(old, n, n + gone, lines)
  OBVIOUS
<1> PICK M : M = Len(all)
  OBVIOUS
<1>1. all \in Seq(Drawable) /\ M \in Nat /\ n <= M /\ \A i \in 1..n : all[i] = old[i]
  <2>1. old \in Seq(Drawable)
    <3>1. old \in [1..N -> Drawable]
      BY <1>0 DEF Documents
    <3> QED BY ONLY <1>0, <3>1
  <2> PICK to \in Int : to = n + gone
    BY <1>0
  <2>2. n \in 0..Len(old) /\ n <= to /\ all = Spliced(old, n, to, lines)
    BY <1>0
  <2>3. /\ all \in Seq(Drawable) /\ Len(all) >= n + Len(lines)
        /\ \A i \in 1..n : all[i] = old[i]
    <3> PICK C : C = Drawable
      OBVIOUS
    <3> PICK word : word = lines
      OBVIOUS
    <3>1. /\ old \in Seq(C) /\ word \in Seq(C) /\ n \in 0..Len(old) /\ n <= to
          /\ all = Spliced(old, n, to, word)
      BY <2>1, <2>2
    <3>2. /\ all \in Seq(C) /\ Len(all) >= n + Len(word)
          /\ \A i \in 1..n : all[i] = old[i]
      BY ONLY <3>1, to \in Int, PutIn
    <3> QED BY <3>2
  <2>4. Len(lines) \in Nat /\ Len(all) \in Nat /\ n \in Nat
    BY <1>0, <2>3, LenProperties
  <2> QED BY <2>3, <2>4
<1>2. all \in Documents(M) /\ DOMAIN all = 1..M /\ \A i \in 1..M : all[i] \in Drawable
  <2>1. DOMAIN all = 1..M /\ all = [i \in 1..M |-> all[i]] /\ \A i \in 1..M : all[i] \in Drawable
    BY <1>1, LenProperties
  <2>2. \A i \in 1..M : all[i] \in LineSet
    BY <2>1 DEF Drawable
  <2> QED BY <2>1, <2>2 DEF Documents
<1> PICK to : to = Lowered(n)
  OBVIOUS
<1>3. to \in 0..n /\ to <= frontier /\ to \in 0..M /\ n \in 0..N
  <2>1. frontier \in Nat /\ n \in Nat /\ n \in 0..N
    BY <1>0
  <2>2. to \in Nat /\ to <= n /\ to <= frontier
    BY <2>1 DEF Lowered
  <2> QED BY <1>1, <2>1, <2>2
<1>4. Good(Rights(all), all, to)
  <2>1. Good(Rights(old), old, to)
    BY <1>0, <1>3 DEF Good
  <2> QED BY ONLY <1>0, <1>1, <1>2, <1>3, <2>1, GoodStays
<1> PICK before : before = [lines |-> all, frontier |-> to, view |-> inView]
  OBVIOUS
<1>5. \E view \in Views(M) :
        LET out == Redrawn([before EXCEPT !.view = view], {})
        IN  Becomes(out, WorkerStarts(before) \/ WorkerStarts(out))
  <2>1. SubSeq(sql, 1, n) \o lines \o SubSeq(sql, n + gone + 1, Len(sql)) = all
    BY DEF Spliced
  <2> QED BY <2>1 DEF Replaced
<1> PICK view \in Views(M) :
        LET out == Redrawn([before EXCEPT !.view = view], {})
        IN  Becomes(out, WorkerStarts(before) \/ WorkerStarts(out))
  BY <1>5
<1> PICK h : h = [before EXCEPT !.view = view]
  OBVIOUS
<1> PICK out : out = Redrawn(h, {})
  OBVIOUS
<1>6. view \in ViewsOf(M)
  BY <1>1 DEF Views, ViewsOf
<1>7. h \in Sights(M) /\ h.lines = all /\ h.frontier = to /\ h.view = view
  BY <1>2, <1>3, <1>6 DEF Sights
<1>8. Fresh(h, {})
  BY <1>2, <1>7 DEF Fresh, Drawable
<1>9. Good(Rights(h.lines), h.lines, h.frontier)
  BY <1>4, <1>7
<1>10. worker' = (WorkerStarts(before) \/ WorkerStarts(out)) /\ Becomes(out, worker')
  BY DEF Becomes
<1>11. out \in Sights(M)
  <2>1. Sound(out, M, TRUE)
    BY <1>1, <1>7, <1>8, <1>9, RedrawnSound
  <2> QED BY <2>1 DEF Sound
<1>12. worker' \in BOOLEAN /\ (out.frontier < out.view.to => worker')
  <2> PICK a \in Int : a = out.frontier
    BY <1>11 DEF Sights
  <2> PICK b \in Int : b = out.view.to
    BY <1>11 DEF Sights, ViewsOf
  <2> PICK c \in Int : c = to
    BY <1>3
  <2> PICK d \in Int : d = inView.to
    BY <1>0 DEF ViewsOf
  <2>1. WorkerStarts(out) = (worker \/ a < b) /\ WorkerStarts(before) = (worker \/ c < d)
    BY DEF WorkerStarts
  <2> QED BY <1>10, <2>1
<1> PICK timer \in BOOLEAN : timer = worker'
  BY <1>12
<1>13. Sound(out, M, timer)
  <2>1. out.frontier < out.view.to => timer
    BY <1>12
  <2> QED BY <1>1, <1>7, <1>8, <1>9, <2>1, RedrawnSound
<1>14. Becomes(out, timer)
  BY <1>10
<1>15. HInv'
  BY ONLY <1>1, <1>13, <1>14, timer \in BOOLEAN, BecomesSound
<1> QED BY <1>12, <1>15

\* A new line is not drawn yet.
LEMMA NewLineIs ==
  ASSUME NEW text \in Seq(STRING) PROVE NewLine(text) \in Drawable
BY DEF NewLine, Drawable, LineSet, Kept, NoneKept

\* A line is put in.
LEMMA InsertSound ==
  ASSUME HInv, worker \in BOOLEAN, NEW n \in 0..Len(sql), NEW text \in SqlLines,
         InsertSql(n, text)
  PROVE  HInv' /\ worker' \in BOOLEAN
<1>1. text \in Seq(STRING)
  BY HighlightAssumption
<1>2. <<NewLine(text)>> \in Seq(Drawable)
  BY <1>1, NewLineIs
<1> QED BY <1>2, ReplacedSound DEF InsertSql

\* A line goes.
LEMMA DeleteSound ==
  ASSUME HInv, worker \in BOOLEAN, NEW n \in 0..Len(sql) - 1, DeleteSql(n)
  PROVE  HInv' /\ worker' \in BOOLEAN
<1>1. n \in 0..Len(sql) /\ <<>> \in Seq(Drawable)
  BY DEF HInv
<1> QED BY <1>1, ReplacedSound DEF DeleteSql

\* A token is looked up.
LEMMA TokenSound ==
  ASSUME HInv, worker \in BOOLEAN, NEW n \in 0..Len(sql) - 1, TokenAt(n)
  PROVE  HInv' /\ worker' \in BOOLEAN
<1> PICK N : N = Len(sql)
  OBVIOUS
<1> PICK old : old = sql
  OBVIOUS
<1>0. /\ N \in Nat /\ old \in Documents(N) /\ Here \in Sights(N) /\ Here.lines = old
      /\ Here.frontier = frontier /\ Here.view = inView /\ frontier \in 0..N
      /\ Good(Rights(old), old, frontier) /\ Follow(Rights(old), old)
      /\ \A i \in 1..N : ShownWell(inView, old[i], i - 1)
      /\ frontier < inView.to => worker
  BY HereIs
<1> PICK h : h = Here
  OBVIOUS
<1> PICK new : new = StateBefore(h, n).lines
  OBVIOUS
<1> PICK out : out = [h EXCEPT !.lines = new]
  OBVIOUS
<1>1. new \in Documents(N) /\ OnlyStates(old, new) /\ Good(Rights(old), new, frontier)
  <2> PICK R : R = Rights(old)
    OBVIOUS
  <2> PICK m : m = frontier
    OBVIOUS
  <2> PICK before : before = StateBefore(h, n)
    OBVIOUS
  <2>1. /\ N \in Nat /\ h.lines \in Documents(N) /\ Follow(R, h.lines) /\ m \in 0..N
        /\ Good(R, h.lines, m) /\ n \in 0..N
    BY <1>0
  <2>2. /\ before.lines \in Documents(N)
        /\ OnlyStates(h.lines, before.lines) /\ Good(R, before.lines, m)
    BY ONLY <2>1, before = StateBefore(h, n), BeforeIs
  <2> QED BY <1>0, <2>2
<1>2. \A i \in 1..N : /\ new[i].text = old[i].text /\ new[i].styles = old[i].styles
                     /\ new[i].shown = old[i].shown
  BY ONLY <1>0, <1>1, OnlyStatesSame
<1>3. Good(Rights(new), new, frontier)
  <2> PICK m : m = frontier
    OBVIOUS
  <2>1. m \in 0..N /\ Good(Rights(old), new, m)
    BY <1>0, <1>1
  <2>2. Good(Rights(new), new, m)
    BY ONLY <1>0, <1>1, <1>2, <2>1, GoodTexts
  <2> QED BY <2>2
<1>4. out \in Sights(N) /\ out.lines = new /\ out.frontier = frontier /\ out.view = inView
  BY <1>0, <1>1 DEF Sights
<1>5. \A i \in 1..N : ShownWell(inView, new[i], i - 1)
  BY <1>0, <1>2 DEF ShownWell, AsKept
<1>6. Sound(out, N, worker)
  BY <1>0, <1>3, <1>4, <1>5 DEF Sound
<1>7. Becomes(out, worker)
  BY DEF TokenAt
<1>8. HInv'
  BY <1>0, <1>6, <1>7, BecomesSound
<1>9. worker' = worker
  BY <1>7 DEF Becomes
<1> QED BY <1>8, <1>9

\* A line out of sight is measured.
LEMMA MeasureSound ==
  ASSUME HInv, worker \in BOOLEAN, NEW n \in 0..Len(sql) - 1, MeasureSql(n)
  PROVE  HInv' /\ worker' \in BOOLEAN
<1> PICK N : N = Len(sql)
  OBVIOUS
<1> PICK old : old = sql
  OBVIOUS
<1>0. /\ N \in Nat /\ old \in Documents(N) /\ Here \in Sights(N) /\ Here.lines = old
      /\ Here.frontier = frontier /\ Here.view = inView /\ frontier \in 0..N
      /\ inView \in ViewsOf(N) /\ DOMAIN old = 1..N
      /\ Good(Rights(old), old, frontier) /\ Follow(Rights(old), old)
      /\ \A i \in 1..N : ShownWell(inView, old[i], i - 1)
      /\ frontier < inView.to => worker
  BY HereIs
<1> PICK h : h = Here
  OBVIOUS
<1> PICK out : out = Coloured(h, n, FALSE)
  OBVIOUS
<1> PICK R : R = Rights(old)
  OBVIOUS
<1>1. /\ out \in Sights(N) /\ Goes(h, out) /\ ColoursOf(h, out, n)
      /\ Good(R, h.lines, h.frontier) => Good(R, out.lines, out.frontier)
  <2>1. N \in Nat /\ h \in Sights(N) /\ Follow(R, h.lines) /\ n \in 0..N - 1 /\ FALSE \in BOOLEAN
    BY <1>0
  <2> QED BY ONLY <2>1, out = Coloured(h, n, FALSE), ColouredIs
<1> PICK new : new = out.lines
  OBVIOUS
<1> PICK m : m = out.frontier
  OBVIOUS
<1>2. /\ new \in Documents(N) /\ m \in 0..N /\ frontier <= m /\ out.view = inView
      /\ \A i \in 1..N : new[i].text = old[i].text
  BY <1>0, <1>1 DEF Sights, Goes
<1>3. Good(Rights(old), new, m)
  BY <1>0, <1>1
<1>4. Good(Rights(new), new, m)
  BY ONLY <1>0, <1>2, <1>3, GoodTexts
<1>5. ASSUME NEW i \in 1..N PROVE ShownWell(inView, new[i], i - 1)
  <2>1. new[i].shown = old[i].shown /\ (i # n + 1 => new[i].styles = old[i].styles)
    BY <1>0, <1>1 DEF ColoursOf
  <2>2. ~Drawn(inView, n) /\ (i = n + 1 => i - 1 = n)
    BY <1>0 DEF MeasureSql
  <2>3. ShownWell(inView, old[i], i - 1)
    BY <1>0
  <2>4. CASE i = n + 1
    BY <2>1, <2>2, <2>3, <2>4 DEF ShownWell
  <2>5. CASE i # n + 1
    BY <2>1, <2>3, <2>5 DEF ShownWell, AsKept
  <2> QED BY <2>4, <2>5
<1>6. m < inView.to => worker
  <2>1. m \in Int /\ frontier \in Int /\ inView.to \in Int
    <3>1. m \in 0..N /\ frontier \in 0..N /\ inView.to \in 0..N
      BY <1>0, <1>2 DEF ViewsOf
    <3> QED BY ONLY <1>0, <3>1
  <2>2. m < inView.to => frontier < inView.to
    BY ONLY <2>1, <1>2
  <2> QED BY <1>0, <2>2
<1>7. Sound(out, N, worker)
  BY <1>1, <1>2, <1>4, <1>5, <1>6 DEF Sound
<1>8. Becomes(out, worker)
  BY DEF MeasureSql
<1>9. HInv'
  BY <1>0, <1>7, <1>8, BecomesSound
<1>10. worker' = worker
  BY <1>8 DEF Becomes
<1> QED BY <1>9, <1>10

\* The timer goes on, or stops.
LEMMA WorkSound ==
  ASSUME HInv, worker \in BOOLEAN, Work
  PROVE  HInv' /\ worker' \in BOOLEAN
<1> PICK N : N = Len(sql)
  OBVIOUS
<1> PICK old : old = sql
  OBVIOUS
<1>0. /\ N \in Nat /\ old \in Documents(N) /\ Here \in Sights(N) /\ Here.lines = old
      /\ Here.frontier = frontier /\ Here.view = inView /\ frontier \in 0..N
      /\ inView \in ViewsOf(N) /\ DOMAIN old = 1..N
      /\ Good(Rights(old), old, frontier) /\ Follow(Rights(old), old)
      /\ \A i \in 1..N : ShownWell(inView, old[i], i - 1)
  BY HereIs
<1> PICK h : h = Here
  OBVIOUS
<1>1. CASE frontier >= inView.to
  <2>1. Becomes(h, FALSE)
    BY <1>1 DEF Work
  <2>2. ~(frontier < inView.to)
    <3>1. frontier \in Int /\ inView.to \in Int
      BY <1>0 DEF ViewsOf
    <3> QED BY ONLY <3>1, <1>1
  <2>3. Sound(h, N, FALSE)
    BY <1>0, <2>2 DEF Sound
  <2>4. HInv'
    BY <1>0, <2>1, <2>3, BecomesSound
  <2>5. worker' = FALSE
    BY <2>1 DEF Becomes
  <2> QED BY <2>4, <2>5
<1>2. CASE ~(frontier >= inView.to)
  <2> PICK end : end = IF inView.to + Ahead < N THEN inView.to + Ahead ELSE N
    OBVIOUS
  <2>1. \E stop \in frontier + 1..end :
          LET out == Recoloured(h, stop) IN Becomes(out, out.frontier < out.view.to)
    BY <1>2 DEF Work
  <2> PICK stop \in frontier + 1..end :
          LET out == Recoloured(h, stop) IN Becomes(out, out.frontier < out.view.to)
    BY <2>1
  <2>2. end \in Int /\ end <= N
    <3>1. inView.to \in Int /\ Ahead \in Int /\ N \in Int
      BY <1>0, HighlightAssumption DEF ViewsOf
    <3> QED BY ONLY <3>1, end = IF inView.to + Ahead < N THEN inView.to + Ahead ELSE N
  <2>3. stop \in 0..N /\ frontier <= stop
    <3>1. stop \in frontier + 1..end /\ frontier \in 0..N /\ N \in Nat
      BY <1>0
    <3> QED BY ONLY <2>2, <3>1
  <2> PICK out : out = Recoloured(h, stop)
    OBVIOUS
  <2> PICK R : R = Rights(old)
    OBVIOUS
  <2>4. /\ out \in Sights(N) /\ Goes(h, out)
        /\ \A i \in 1..N : ShownWell(out.view, out.lines[i], i - 1)
        /\ Good(R, out.lines, out.frontier)
    <3>1. /\ N \in Nat /\ h \in Sights(N) /\ Follow(R, h.lines)
          /\ Good(R, h.lines, h.frontier)
          /\ \A i \in 1..N : ShownWell(h.view, h.lines[i], i - 1)
          /\ stop \in 0..N /\ h.frontier <= stop
      BY <1>0, <2>3
    <3> QED BY ONLY <3>1, out = Recoloured(h, stop), RecolouredIs
  <2> PICK new : new = out.lines
    OBVIOUS
  <2> PICK m : m = out.frontier
    OBVIOUS
  <2>5. /\ new \in Documents(N) /\ m \in 0..N /\ out.view \in ViewsOf(N)
        /\ \A i \in 1..N : new[i].text = old[i].text
        /\ Good(Rights(old), new, m)
    BY <1>0, <2>4 DEF Sights, Goes
  <2>6. Good(Rights(new), new, m)
    BY ONLY <1>0, <2>5, GoodTexts
  <2>7. (m < out.view.to) \in BOOLEAN
    <3>1. m \in Int /\ out.view.to \in Int
      BY <2>5 DEF ViewsOf
    <3> QED BY ONLY <3>1
  <2> PICK timer \in BOOLEAN : timer = (m < out.view.to)
    BY <2>7, Zenon
  <2>8. m < out.view.to => timer
    BY Zenon
  <2>9. Sound(out, N, timer)
    BY <2>4, <2>6, <2>8 DEF Sound
  <2>10. Becomes(out, timer)
    OBVIOUS
  <2>11. HInv'
    BY <1>0, <2>9, <2>10, BecomesSound
  <2>12. worker' = timer
    BY <2>10 DEF Becomes
  <2> QED BY <2>11, <2>12
<1> QED BY <1>1, <1>2

\* At the start there is one empty line, and none is drawn.
LEMMA BeginsSound == HighlightInit => HInv /\ worker \in BOOLEAN
<1> SUFFICES ASSUME HighlightInit PROVE HInv /\ worker \in BOOLEAN
  OBVIOUS
<1> PICK row : row = NewLine(<<>>)
  OBVIOUS
<1>1. sql = <<row>> /\ frontier = 0 /\ inView = [from |-> 0, to |-> 0] /\ worker = FALSE
  BY DEF HighlightInit
<1>2. row \in LineSet /\ row.shown = Unknown
  <2>1. <<>> \in Seq(STRING)
    OBVIOUS
  <2> QED BY <2>1, NewLineIs DEF Drawable, NewLine
<1>3. Len(sql) = 1 /\ sql[1] = row /\ sql \in Documents(1)
  BY <1>1, <1>2 DEF Documents
<1>4. Here \in Sights(1) /\ Here.lines = sql /\ Here.frontier = 0 /\ Here.view = inView
  <2>1. inView \in ViewsOf(1) /\ frontier \in 0..1
    BY <1>1 DEF ViewsOf
  <2> QED BY <1>1, <1>3, <2>1 DEF Here, Sights
<1>5. Good(Rights(sql), sql, 0)
  BY DEF Good
<1>6. \A i \in 1..1 : ShownWell(inView, sql[i], i - 1)
  <2>1. ~Drawn(inView, 0)
    BY <1>1 DEF Drawn
  <2> QED BY <1>2, <1>3, <2>1 DEF ShownWell
<1>7. Sound(Here, 1, worker)
  <2>1. ~(0 < inView.to)
    BY <1>1
  <2> QED BY <1>4, <1>5, <1>6, <2>1 DEF Sound
<1> QED BY <1>1, <1>3, <1>7 DEF HInv

\* Every step keeps what is sound.
LEMMA NextSound ==
  ASSUME HInv, worker \in BOOLEAN, [HighlightNext]_sqlVars
  PROVE  HInv' /\ worker' \in BOOLEAN
<1>1. ASSUME NEW view \in Views(Len(sql)), ScrollSql(view) PROVE HInv' /\ worker' \in BOOLEAN
  BY <1>1, ScrollSound
<1>2. ASSUME NEW n \in 0..Len(sql) - 1, NEW text \in SqlLines, TypeSql(n, text)
      PROVE  HInv' /\ worker' \in BOOLEAN
  BY <1>2, TypeSound
<1>3. ASSUME NEW n \in 0..Len(sql) - 1, DeleteSql(n) PROVE HInv' /\ worker' \in BOOLEAN
  BY <1>3, DeleteSound
<1>4. ASSUME NEW n \in 0..Len(sql) - 1, TokenAt(n) PROVE HInv' /\ worker' \in BOOLEAN
  BY <1>4, TokenSound
<1>5. ASSUME NEW n \in 0..Len(sql) - 1, MeasureSql(n) PROVE HInv' /\ worker' \in BOOLEAN
  BY <1>5, MeasureSound
<1>6. ASSUME NEW n \in 0..Len(sql), NEW text \in SqlLines, InsertSql(n, text)
      PROVE  HInv' /\ worker' \in BOOLEAN
  BY <1>6, InsertSound
<1>7. ASSUME Work PROVE HInv' /\ worker' \in BOOLEAN
  BY <1>7, WorkSound
<1>8. ASSUME UNCHANGED sqlVars PROVE HInv' /\ worker' \in BOOLEAN
  <2>1. sql' = sql /\ Here' = Here /\ worker' = worker
    BY <1>8 DEF sqlVars, Here
  <2> QED BY <2>1 DEF HInv
<1> QED BY <1>1, <1>2, <1>3, <1>4, <1>5, <1>6, <1>7, <1>8 DEF HighlightNext

\* The invariant says of all lines below the frontier what the property does.
LEMMA SoundSettles == HInv => ColoursSettle
<1> SUFFICES ASSUME HInv PROVE ColoursSettle
  OBVIOUS
<1> PICK N : N = Len(sql)
  OBVIOUS
<1>0. /\ N \in Nat /\ sql \in Documents(N) /\ frontier \in 0..N
      /\ Good(Rights(sql), sql, frontier)
      /\ \A i \in 1..N : ShownWell(inView, sql[i], i - 1)
      /\ frontier < inView.to => worker
  BY HereIs
<1>1. ASSUME NEW n \in 0..N - 1
      PROVE  LET row == At(sql, n)
                 right == RunMode(row.text, TrueState(n))
             IN  /\ n < frontier =>
                      /\ row.after \in {NoneKept, right.state}
                      /\ row.styles \in {Unknown, right.styles} \/ row.skipped
                 /\ Drawn(inView, n) => row.shown = row.styles /\ row.shown # Unknown
  <2> PICK l \in 1..N : l = n + 1
    BY <1>0
  <2> PICK row : row = sql[l]
    OBVIOUS
  <2> PICK R : R = Rights(sql)
    OBVIOUS
  <2>1. At(sql, n) = row /\ l - 1 = n
    BY DEF At
  <2>2. R[n] = TrueState(n)
    <3>1. n \in 0..Len(sql)
      BY <1>0
    <3> QED BY <3>1 DEF Rights, RightAt, TrueState
  <2>3. R[l] = RunMode(row.text, R[n]).state
    <3>1. Follow(R, sql) /\ Len(sql) = N
      BY <1>0, RightsFollow
    <3>2. R[l] = StateAfter(sql[l].text, R[l - 1])
      BY <3>1 DEF Follow
    <3> QED BY <2>1, <3>2 DEF StateAfter
  <2>4. ASSUME n < frontier PROVE LineRight(R, row, n)
    <3>1. n \in 0..frontier - 1
      BY <1>0, <2>4
    <3> QED BY <1>0, <3>1 DEF Good
  <2>5. ShownWell(inView, row, n)
    BY <1>0, <2>1
  <2> QED BY <2>1, <2>2, <2>3, <2>4, <2>5 DEF LineRight, ShownWell, AsKept
<1> QED BY <1>0, <1>1 DEF ColoursSettle

(***************************************************************************)
(* However the document is changed, scrolled, looked into and measured     *)
(* while the timer goes over it: below the frontier every state kept and   *)
(* every line's colours are those of the text from the top, apart from the *)
(* lines the timer left as they were out of sight; what is drawn is what   *)
(* is kept; and the timer is set while a line in sight is not known to be  *)
(* right (highlightWorker, getStateBefore, getLineStyles, updateDisplay).  *)
(***************************************************************************)
THEOREM ColoursDoSettle == HighlightSpec => []ColoursSettle
<1>1. HighlightInit => HInv /\ worker \in BOOLEAN
  BY BeginsSound
<1>2. HInv /\ worker \in BOOLEAN /\ [HighlightNext]_sqlVars => (HInv /\ worker \in BOOLEAN)'
  BY NextSound
<1>3. HInv => ColoursSettle
  BY SoundSettles
<1> QED BY <1>1, <1>2, <1>3, PTL DEF HighlightSpec

-----------------------------------------------------------------------------
(* The views of the lines. *)

\* The view of a line, what is drawn for one, and the line from which on the
\* numbers drawn are wrong.
Entry == [line : Int, node : Nat, changed : BOOLEAN]
Element == [current : BOOLEAN, number : Int]
Numbers == Nat \cup {NoNumber}

\* The elements of the views are in the order of the lines.
Sorted(view) ==
  \A i, j \in 1..Len(view) :
    j < i => view[j].node < view[i].node \/ view[i].node = 0 \/ view[j].node = 0

\* A view of line n, and what is out of date in its element is noted.
Shows(e, n, drawn, numbers) ==
  /\ e.line = n /\ e.node \in 0..Len(drawn)
  /\ e.node # 0 =>
       /\ e.changed \/ drawn[e.node].current
       /\ drawn[e.node].number = n \/ (numbers # NoNumber /\ numbers <= n)

\* Views of the lines from up to to.
Fits(view, from, to, drawn, numbers) ==
  /\ view \in Seq(Entry) /\ from <= to /\ Len(view) = to - from /\ Sorted(view)
  /\ \A i \in 1..to - from : Shows(view[i], from + i - 1, drawn, numbers)

\* A sequence is a function on the numbers up to its length.
LEMMA PartsIn ==
  ASSUME NEW E, NEW s \in Seq(E)
  PROVE  Len(s) \in Nat /\ DOMAIN s = 1..Len(s) /\ \A i \in 1..Len(s) : s[i] \in E
BY ONLY s \in Seq(E), LenProperties, ElementOfSeq

\* A function on the numbers up to m is a sequence.
LEMMA SequenceIs ==
  ASSUME NEW E, NEW m \in Nat, NEW s \in [1..m -> E]
  PROVE  s \in Seq(E) /\ Len(s) = m
BY SeqDef, LenProperties

\* New views, which no element shows yet.
LEMMA BuiltFits ==
  ASSUME NEW from \in Nat, NEW to \in Nat, from <= to, NEW drawn \in Seq(Element),
         NEW numbers, NEW built, built = BuildView(from, to)
  PROVE  /\ Fits(built, from, to, drawn, numbers)
         /\ \A i \in 1..Len(built) : built[i].node = 0
<1> DEFINE new(i) == [line |-> from + i - 1, node |-> 0, changed |-> FALSE]
<1>0. to - from \in Nat /\ Len(drawn) \in Nat
  BY LenProperties
<1>1. built = [i \in 1..to - from |-> new(i)]
  BY DEF BuildView
<1>2. ASSUME NEW i \in 1..to - from PROVE new(i) \in Entry
  BY <1>0 DEF Entry
<1>3. built \in Seq(Entry) /\ Len(built) = to - from
  <2>1. built \in [1..to - from -> Entry]
    BY ONLY <1>1, <1>2
  <2> QED BY ONLY <1>0, <2>1, SeqDef, LenProperties
<1>4. ASSUME NEW i \in 1..to - from
      PROVE  built[i].line = from + i - 1 /\ built[i].node = 0
  <2>1. built[i] = new(i)
    BY ONLY <1>1, i \in 1..to - from
  <2> QED BY ONLY <2>1
<1> HIDE DEF new
<1>5. Sorted(built)
  BY ONLY <1>3, <1>4 DEF Sorted
<1>6. ASSUME NEW i \in 1..to - from PROVE Shows(built[i], from + i - 1, drawn, numbers)
  <2>1. 0 \in 0..Len(drawn)
    BY ONLY <1>0
  <2> QED BY ONLY <1>4, i \in 1..to - from, <2>1 DEF Shows
<1> QED BY ONLY <1>3, <1>4, <1>5, <1>6, from <= to DEF Fits

\* They have no element.
LEMMA BuiltNew ==
  ASSUME NEW from \in Nat, NEW to \in Nat, from <= to, NEW built, built = BuildView(from, to)
  PROVE  \A i \in 1..Len(built) : built[i].node = 0
<1> PICK none \in Seq(Element) : none = <<>>
  BY EmptySeq
<1>1. Fits(built, from, to, none, NoNumber)
  BY ONLY from \in Nat, to \in Nat, from <= to, built = BuildView(from, to),
          none \in Seq(Element), BuiltFits
<1>2. Len(built) = to - from
  BY ONLY <1>1 DEF Fits
<1>3. ASSUME NEW i \in 1..to - from PROVE built[i].node = 0
  BY ONLY built = BuildView(from, to), i \in 1..to - from DEF BuildView
<1> QED BY ONLY <1>2, <1>3

\* The first n of some views.
LEMMA AboveFits ==
  ASSUME NEW view \in Seq(Entry), Sorted(view), NEW n \in 0..Len(view), NEW from \in Nat,
         NEW drawn, NEW numbers,
         \A i \in 1..n : Shows(view[i], from + i - 1, drawn, numbers),
         NEW above, above = SubSeq(view, 1, n)
  PROVE  Fits(above, from, from + n, drawn, numbers) /\ IsPart(above, view, 0, n)
<1>0. Len(view) \in Nat /\ n \in Nat /\ n <= Len(view) /\ from <= from + n /\ from + n - from = n
  BY LenProperties
<1>1. above \in Seq(Entry) /\ IsPart(above, view, 0, n)
  BY HeadIs
<1>2. Len(above) = n /\ \A i \in 1..n : above[i] = view[i]
  BY ONLY <1>0, <1>1 DEF IsPart
<1>3. Sorted(above)
  <2>1. \A i \in 1..n : i \in 1..Len(view)
    BY ONLY <1>0
  <2> QED BY ONLY <1>2, <2>1, Sorted(view) DEF Sorted
<1>4. ASSUME NEW i \in 1..n PROVE Shows(above[i], from + i - 1, drawn, numbers)
  BY <1>2
<1> QED BY ONLY <1>0, <1>1, <1>2, <1>3, <1>4 DEF Fits

\* What is left when the first n are taken away.
LEMMA BelowFits ==
  ASSUME NEW view \in Seq(Entry), Sorted(view), NEW n \in 0..Len(view), NEW from \in Nat,
         NEW drawn, NEW numbers, NEW m, m = Len(view) - n,
         \A i \in 1..m : Shows(view[n + i], from + i - 1, drawn, numbers),
         NEW below, below = SubSeq(view, n + 1, Len(view))
  PROVE  Fits(below, from, from + m, drawn, numbers) /\ IsPart(below, view, n, Len(view))
<1>0. /\ Len(view) \in Nat /\ n \in Nat /\ n <= Len(view) /\ m \in Nat
      /\ from <= from + m /\ from + m - from = m
  BY LenProperties
<1>1. below \in Seq(Entry) /\ IsPart(below, view, n, Len(view))
  <2>1. Len(view) \in n..Len(view)
    BY ONLY <1>0
  <2> QED BY <2>1, PartIs
<1>2. Len(below) = m /\ \A i \in 1..m : below[i] = view[n + i]
  BY ONLY <1>0, <1>1, m = Len(view) - n DEF IsPart
<1>3. Sorted(below)
  <2>1. \A i \in 1..m : n + i \in 1..Len(view)
    BY ONLY <1>0, m = Len(view) - n
  <2>2. \A i, j \in 1..m : j < i => n + j < n + i
    BY ONLY <1>0
  <2> QED BY ONLY SMTT(30), <1>2, <2>1, <2>2, Sorted(view) DEF Sorted
<1>4. ASSUME NEW i \in 1..m PROVE Shows(below[i], from + i - 1, drawn, numbers)
  BY <1>2
<1> QED BY ONLY <1>0, <1>1, <1>2, <1>3, <1>4 DEF Fits

\* Views one after the other.
LEMMA BothFit ==
  ASSUME NEW from \in Nat, NEW mid \in Nat, NEW to \in Nat, NEW drawn, NEW numbers,
         NEW a, Fits(a, from, mid, drawn, numbers), NEW b, Fits(b, mid, to, drawn, numbers),
         \A i \in 1..Len(a) : \A j \in 1..Len(b) :
           a[i].node < b[j].node \/ a[i].node = 0 \/ b[j].node = 0,
         NEW both, both = a \o b
  PROVE  Fits(both, from, to, drawn, numbers) /\ IsBoth(both, a, b)
<1>0. /\ a \in Seq(Entry) /\ b \in Seq(Entry) /\ from <= mid /\ mid <= to
      /\ Len(a) = mid - from /\ Len(b) = to - mid /\ Sorted(a) /\ Sorted(b)
  BY DEF Fits
<1>1. both \in Seq(Entry) /\ IsBoth(both, a, b)
  BY ONLY <1>0, both = a \o b, BothIs
<1>2. /\ Len(both) = to - from
      /\ \A i \in 1..Len(a) : both[i] = a[i]
      /\ \A i \in 1..Len(b) : both[Len(a) + i] = b[i]
  BY ONLY <1>0, <1>1, from \in Nat, mid \in Nat, to \in Nat DEF IsBoth
<1>3. ASSUME NEW i \in 1..to - from
      PROVE  \/ i \in 1..Len(a)
             \/ i - Len(a) \in 1..Len(b) /\ i = Len(a) + (i - Len(a))
  BY ONLY <1>0, from \in Nat, mid \in Nat, to \in Nat, i \in 1..to - from
<1>4. Sorted(both)
  <2> PICK k : k = to - from
    OBVIOUS
  <2>0. Len(both) = k
    BY <1>2
  <2> SUFFICES ASSUME NEW i \in 1..k, NEW j \in 1..k, j < i
               PROVE  both[j].node < both[i].node \/ both[i].node = 0 \/ both[j].node = 0
    BY <2>0 DEF Sorted
  <2>1. CASE i \in 1..Len(a)
    <3>1. j \in 1..Len(a)
      BY ONLY <1>0, <2>1, j < i, j \in 1..k, k = to - from, from \in Nat, mid \in Nat
    <3> QED BY ONLY <1>0, <1>2, <2>1, <3>1, j < i DEF Sorted
  <2>2. CASE i - Len(a) \in 1..Len(b) /\ i = Len(a) + (i - Len(a))
    <3> PICK p : p = i - Len(a)
      OBVIOUS
    <3>1. p \in 1..Len(b) /\ both[i] = b[p]
      BY <1>2, <2>2
    <3>2. CASE j \in 1..Len(a)
      BY <1>2, <3>1, <3>2
    <3>3. CASE j - Len(a) \in 1..Len(b) /\ j = Len(a) + (j - Len(a))
      <4> PICK q : q = j - Len(a)
        OBVIOUS
      <4>1. q \in 1..Len(b) /\ both[j] = b[q]
        BY <1>2, <3>3
      <4>2. q < p
        BY ONLY <1>0, q = j - Len(a), p = i - Len(a), j < i, i \in 1..to - from,
                j \in 1..k, k = to - from, from \in Nat, mid \in Nat
      <4> QED BY ONLY <1>0, <3>1, <4>1, <4>2 DEF Sorted
    <3> QED BY <1>3, <3>2, <3>3, k = to - from
  <2> QED BY <1>3, <2>1, <2>2, k = to - from
<1>5. ASSUME NEW i \in 1..to - from PROVE Shows(both[i], from + i - 1, drawn, numbers)
  <2>1. CASE i \in 1..Len(a)
    <3>1. i \in 1..mid - from
      BY ONLY <1>0, <2>1
    <3> QED BY <1>2, <2>1, <3>1 DEF Fits
  <2>2. CASE i - Len(a) \in 1..Len(b) /\ i = Len(a) + (i - Len(a))
    <3> PICK p : p = i - Len(a)
      OBVIOUS
    <3>1. p \in 1..to - mid /\ both[i] = b[p]
      BY <1>0, <1>2, <2>2
    <3>2. mid + p - 1 = from + i - 1
      BY ONLY <1>0, p = i - Len(a), i \in 1..to - from, from \in Nat, mid \in Nat
    <3>3. Shows(b[p], mid + p - 1, drawn, numbers)
      BY <3>1 DEF Fits
    <3> QED BY ONLY <3>1, <3>2, <3>3
  <2> QED BY <1>3, <2>1, <2>2
<1> QED BY ONLY <1>0, <1>1, <1>2, <1>4, <1>5, from \in Nat, mid \in Nat, to \in Nat DEF Fits

-----------------------------------------------------------------------------
(* The state of the screen. *)

\* The view on the side, and what there is of the screen.
Sides == [line : Int, lineN : Int, current : BOOLEAN]
ScreenStates ==
  [size : Nat, view : Seq(Entry), viewFrom : Nat, viewTo : Nat, drawn : Seq(Element),
   rendered : BOOLEAN, numbers : Numbers, digits : {1, 2}, ext : Sides,
   must : BOOLEAN, force : BOOLEAN]

\* The view on the side is that of the line at its number, if there is one.
SideRight(ext, size) ==
  \/ ext = NoView
  \/ /\ ext.lineN \in Nat
     /\ IF ext.lineN < size THEN ext.line = ext.lineN /\ ext.current ELSE ext.line = Gone

\* No view on the side is right for every document.
LEMMA NoSide == NoView \in Sides /\ \A size : SideRight(NoView, size)
BY DEF NoView, Sides, Gone, SideRight

\* After the elements were made, each view has the one at its place.
InOrder(s) ==
  s.rendered => /\ Len(s.drawn) = Len(s.view)
                /\ \A i \in 1..Len(s.view) : s.view[i].node = i

\* What holds at all times.
SoundScreen(s) ==
  /\ s \in ScreenStates /\ s.size >= 1
  /\ s.viewFrom <= s.viewTo /\ Len(s.view) = s.viewTo - s.viewFrom
  /\ SideRight(s.ext, s.size) /\ InOrder(s)

\* The views are those of lines there are.
Placed(s) == s.viewTo <= s.size /\ Fits(s.view, s.viewFrom, s.viewTo, s.drawn, s.numbers)

-----------------------------------------------------------------------------
(* A change of the document. *)

\* The lines from..to are replaced by count lines.
ChangeOf(s, c) ==
  /\ c.from \in Nat /\ c.to \in Nat /\ c.from <= c.to /\ c.to < s.size
  /\ c.count \in Nat /\ c.count >= 1 /\ c.whole \in BOOLEAN

\* The document changed and not yet the views.
Updated(n, s, c, d) ==
  /\ n \in ScreenStates /\ n.size = s.size + d
  /\ n.viewFrom = s.viewFrom /\ n.viewTo = s.viewTo /\ n.rendered = s.rendered
  /\ n.numbers = s.numbers /\ n.digits = s.digits /\ n.must = s.must /\ n.force = s.force
  /\ Len(n.view) = Len(s.view) /\ Len(n.drawn) = Len(s.drawn)
  /\ \A i \in 1..Len(s.view) :
       /\ n.view[i].node = s.view[i].node /\ n.view[i].changed = s.view[i].changed
       /\ n.view[i].line = Place(c, s.view[i].line)
  /\ \A k \in 1..Len(s.drawn) : n.drawn[k].number = s.drawn[k].number
  /\ \A i \in 1..Len(s.view) :
       s.view[i].node \in 1..Len(s.drawn) /\ ~Touched(c, s.view[i].line) =>
         n.drawn[s.view[i].node].current = s.drawn[s.view[i].node].current
  /\ n.ext.line = Place(c, s.ext.line) /\ n.ext.lineN = s.ext.lineN
  /\ n.ext.current <=> s.ext.current /\ ~Touched(c, s.ext.line)

\* Where a change takes a line is a number, as that of a line that is gone.
LEMMA PlaceIs ==
  ASSUME NEW s, NEW c, ChangeOf(s, c), NEW n \in Int
  PROVE  Place(c, n) \in Int
BY DEF ChangeOf, Place, Lendiff, Gone

\* What UpdateDoc leaves of the views and the elements (updateDoc).
LEMMA DocUpdated ==
  ASSUME NEW s \in ScreenStates, NEW c, ChangeOf(s, c), NEW d, d = Lendiff(c),
         NEW n, n = UpdateDoc(s, c)
  PROVE  Updated(n, s, c, d) /\ d \in Int
<1> DEFINE touched(k) == \A i \in DOMAIN s.view :
                           s.view[i].node = k => Touched(c, s.view[i].line)
<1> PICK size : size = s.size + d
  OBVIOUS
<1> PICK view : view = [i \in DOMAIN s.view |->
                          [s.view[i] EXCEPT !.line = Place(c, s.view[i].line)]]
  OBVIOUS
<1> PICK drawn : drawn = [k \in DOMAIN s.drawn |->
                            [s.drawn[k] EXCEPT !.current = @ /\ ~touched(k)]]
  OBVIOUS
<1> PICK ext : ext = [line |-> Place(c, s.ext.line), lineN |-> s.ext.lineN,
                      current |-> s.ext.current /\ ~Touched(c, s.ext.line)]
  OBVIOUS
<1>0. /\ s.size \in Nat /\ s.view \in Seq(Entry) /\ s.drawn \in Seq(Element) /\ s.ext \in Sides
      /\ Len(s.view) \in Nat /\ DOMAIN s.view = 1..Len(s.view)
      /\ Len(s.drawn) \in Nat /\ DOMAIN s.drawn = 1..Len(s.drawn)
      /\ \A i \in 1..Len(s.view) : s.view[i] \in Entry
      /\ \A k \in 1..Len(s.drawn) : s.drawn[k] \in Element
  <2>1. s.size \in Nat /\ s.view \in Seq(Entry) /\ s.drawn \in Seq(Element) /\ s.ext \in Sides
    BY DEF ScreenStates
  <2> QED BY ONLY <2>1, LenProperties
<1>1. d \in Int /\ size \in Nat
  BY <1>0 DEF ChangeOf, Lendiff
<1>2. ASSUME NEW e \in Entry
      PROVE  LET f == [e EXCEPT !.line = Place(c, e.line)]
             IN  f \in Entry /\ f.node = e.node /\ f.changed = e.changed
                 /\ f.line = Place(c, e.line)
  <2>1. e.line \in Int
    BY DEF Entry
  <2>2. Place(c, e.line) \in Int
    BY <2>1, PlaceIs
  <2> QED BY ONLY <2>2, e \in Entry DEF Entry
<1>3. /\ view \in Seq(Entry) /\ Len(view) = Len(s.view)
      /\ \A i \in 1..Len(s.view) :
           /\ view[i].node = s.view[i].node /\ view[i].changed = s.view[i].changed
           /\ view[i].line = Place(c, s.view[i].line)
  <2>1. \A i \in 1..Len(s.view) : view[i] = [s.view[i] EXCEPT !.line = Place(c, s.view[i].line)]
    BY <1>0
  <2>2. view \in [1..Len(s.view) -> Entry]
    BY <1>0, <1>2
  <2>3. view \in Seq(Entry) /\ Len(view) = Len(s.view)
    BY ONLY <1>0, <2>2, SequenceIs
  <2> QED BY ONLY <1>0, <1>2, <2>1, <2>3
<1> HIDE DEF touched
<1>4. /\ drawn \in Seq(Element) /\ Len(drawn) = Len(s.drawn)
      /\ \A k \in 1..Len(s.drawn) : /\ drawn[k].number = s.drawn[k].number
                                    /\ ~touched(k) => drawn[k].current = s.drawn[k].current
  <2>1. \A k \in 1..Len(s.drawn) :
          drawn[k] = [s.drawn[k] EXCEPT !.current = @ /\ ~touched(k)]
    BY <1>0
  <2>2. ASSUME NEW k \in 1..Len(s.drawn)
        PROVE  /\ drawn[k] \in Element /\ drawn[k].number = s.drawn[k].number
               /\ ~touched(k) => drawn[k].current = s.drawn[k].current
    <3>1. s.drawn[k] \in Element
      BY <1>0
    <3>2. drawn[k] = [s.drawn[k] EXCEPT !.current = s.drawn[k].current /\ ~touched(k)]
      BY <2>1
    <3> QED BY ONLY <3>1, <3>2 DEF Element
  <2>3. drawn \in [1..Len(s.drawn) -> Element]
    BY <1>0, <2>2
  <2>4. drawn \in Seq(Element) /\ Len(drawn) = Len(s.drawn)
    BY ONLY <1>0, <2>3, SequenceIs
  <2> QED BY <2>2, <2>4
<1>5. /\ ext \in Sides /\ ext.line = Place(c, s.ext.line) /\ ext.lineN = s.ext.lineN
      /\ ext.current <=> s.ext.current /\ ~Touched(c, s.ext.line)
  <2>1. s.ext.line \in Int
    BY <1>0 DEF Sides
  <2>2. Place(c, s.ext.line) \in Int
    BY <2>1, PlaceIs
  <2> QED BY <1>0, <2>2 DEF Sides
<1>6. n = [s EXCEPT !.size = size, !.drawn = drawn, !.view = view, !.ext = ext]
  BY Zenon DEF UpdateDoc, touched
<1>7. /\ n \in ScreenStates /\ n.size = size /\ n.view = view /\ n.drawn = drawn /\ n.ext = ext
      /\ n.viewFrom = s.viewFrom /\ n.viewTo = s.viewTo /\ n.rendered = s.rendered
      /\ n.numbers = s.numbers /\ n.digits = s.digits /\ n.must = s.must /\ n.force = s.force
  BY ONLY <1>1, <1>3, <1>4, <1>5, <1>6, s \in ScreenStates DEF ScreenStates
<1>8. \A i \in 1..Len(s.view) :
        s.view[i].node \in 1..Len(s.drawn) /\ ~Touched(c, s.view[i].line) =>
          drawn[s.view[i].node].current = s.drawn[s.view[i].node].current
  BY <1>0, <1>4 DEF touched
<1> QED BY ONLY <1>1, <1>3, <1>4, <1>5, <1>7, <1>8, size = s.size + d DEF Updated

\* regChange notes from where on the numbers are wrong, if lines are moved.
Renumbered(numbers, s, c, d) ==
  numbers = IF d # 0 /\ c.to + 1 < s.viewTo /\ (s.numbers = NoNumber \/ s.numbers > c.from)
            THEN c.from ELSE s.numbers

\* The views of the lines before the change and of those after it, which are
\* d lines further on now.
LEMMA UpdatedShows ==
  ASSUME NEW s, SoundScreen(s), Placed(s), NEW c, ChangeOf(s, c), ~c.full, NEW d, d = Lendiff(c),
         NEW n, Updated(n, s, c, d), NEW numbers, Renumbered(numbers, s, c, d),
         NEW i \in 1..Len(s.view), NEW k, k = s.viewFrom + i - 1
  PROVE  /\ k < c.from => Shows(n.view[i], k, n.drawn, numbers)
         /\ k > c.to => Shows(n.view[i], k + d, n.drawn, numbers)
<1>0. /\ s.viewFrom \in Nat /\ s.viewTo \in Nat /\ s.viewFrom <= s.viewTo
      /\ Len(s.view) = s.viewTo - s.viewFrom /\ s.numbers \in Numbers
      /\ i \in Nat /\ k \in Nat /\ k < s.viewTo
  <2>1. /\ s.viewFrom \in Nat /\ s.viewTo \in Nat /\ s.viewFrom <= s.viewTo
        /\ Len(s.view) = s.viewTo - s.viewFrom /\ s.numbers \in Numbers
    BY DEF SoundScreen, ScreenStates
  <2> QED BY ONLY <2>1, i \in 1..Len(s.view), k = s.viewFrom + i - 1
<1>1. /\ c.from \in Nat /\ c.to \in Nat /\ c.from <= c.to /\ c.count \in Nat /\ c.count >= 1
      /\ d = c.count - (c.to - c.from) - 1 /\ d \in Int
  BY DEF ChangeOf, Lendiff
<1>2. Shows(s.view[i], k, s.drawn, s.numbers)
  <2>1. i \in 1..s.viewTo - s.viewFrom
    BY <1>0
  <2> QED BY ONLY <2>1, Placed(s), k = s.viewFrom + i - 1 DEF Placed, Fits
<1> PICK e : e = s.view[i]
  OBVIOUS
<1> PICK m : m = n.view[i]
  OBVIOUS
<1> PICK q : q = e.node
  OBVIOUS
<1>3. /\ e.line = k /\ q \in 0..Len(s.drawn)
      /\ q # 0 =>
           /\ e.changed \/ s.drawn[q].current
           /\ s.drawn[q].number = k \/ (s.numbers # NoNumber /\ s.numbers <= k)
  BY ONLY <1>2, e = s.view[i], q = e.node DEF Shows
<1>4. /\ m.node = q /\ m.changed = e.changed /\ m.line = Place(c, k)
      /\ Len(n.drawn) = Len(s.drawn)
      /\ q \in 1..Len(s.drawn) => n.drawn[q].number = s.drawn[q].number
      /\ q \in 1..Len(s.drawn) /\ ~Touched(c, k) => n.drawn[q].current = s.drawn[q].current
  BY <1>3 DEF Updated
<1>5. Len(s.drawn) \in Nat
  BY LenProperties DEF SoundScreen, ScreenStates
<1>6. q # 0 => q \in 1..Len(s.drawn)
  BY ONLY <1>3, <1>5
<1>7. ASSUME k < c.from PROVE Shows(m, k, n.drawn, numbers)
  <2>1. Place(c, k) = k /\ k # Gone /\ k # c.from /\ k # c.to
    BY ONLY SMTT(30), <1>0, <1>1, <1>7, ~c.full DEF Place, Gone
  <2>2. ~Touched(c, k)
    BY ONLY <2>1 DEF Touched
  <2>3. s.numbers # NoNumber /\ s.numbers <= k => numbers = s.numbers
    BY ONLY <1>0, <1>1, <1>7, Renumbered(numbers, s, c, d) DEF Renumbered, Numbers
  <2> QED BY ONLY <1>3, <1>4, <1>6, <2>1, <2>2, <2>3 DEF Shows
<1>8. ASSUME k > c.to PROVE Shows(m, k + d, n.drawn, numbers)
  <2>0. /\ ~(k < c.from) /\ k # c.from /\ k # c.to /\ k + d \in Nat /\ c.from <= k + d
        /\ c.to + 1 < s.viewTo
    <3> PICK from, to, count : from = c.from /\ to = c.to /\ count = c.count
      OBVIOUS
    <3>1. /\ from \in Nat /\ to \in Nat /\ from <= to /\ count \in Nat /\ count >= 1
          /\ d = count - (to - from) - 1
      BY <1>1
    <3>2. k \in Nat /\ k > to
      BY <1>0, <1>8
    <3>3. k + d \in Nat /\ from <= k + d /\ ~(k < from) /\ k # from /\ k # to
      BY ONLY <3>1, <3>2
    <3>4. to + 1 < s.viewTo
      BY ONLY <1>0, <3>1, <3>2
    <3> QED BY <3>3, <3>4
  <2>1. Place(c, k) = k + d /\ k + d # Gone /\ k # c.from /\ k # c.to /\ k + d \in Nat
    <3>1. k # Gone /\ k + d # Gone
      BY ONLY <1>0, <2>0 DEF Gone
    <3>2. Place(c, k) = k + Lendiff(c)
      BY ONLY <1>8, <2>0, <3>1, ~c.full DEF Place
    <3> QED BY ONLY <2>0, <3>1, <3>2, d = Lendiff(c)
  <2>2. ~Touched(c, k)
    BY ONLY <2>1 DEF Touched
  <2>3. ASSUME d # 0 PROVE numbers # NoNumber /\ numbers <= k + d
    BY ONLY <1>0, <1>1, <2>0, <2>3, Renumbered(numbers, s, c, d)
       DEF Renumbered, Numbers, NoNumber
  <2>4. ASSUME d = 0 PROVE numbers = s.numbers /\ k + d = k
    BY ONLY <1>0, <2>4, Renumbered(numbers, s, c, d) DEF Renumbered
  <2>5. ASSUME q # 0
        PROVE  n.drawn[q].number = k + d \/ (numbers # NoNumber /\ numbers <= k + d)
    <3>1. CASE d # 0
      BY ONLY <2>3, <3>1
    <3>2. CASE d = 0
      BY ONLY <1>3, <1>4, <1>6, <2>4, <2>5, <3>2
    <3> QED BY <3>1, <3>2
  <2> QED BY ONLY <1>3, <1>4, <1>6, <2>1, <2>2, <2>5 DEF Shows
<1> QED BY <1>7, <1>8

\* The view on the side is still that of its line, or given up.
LEMMA SideMoved ==
  ASSUME NEW s, SoundScreen(s), NEW c, ChangeOf(s, c), ~c.full, NEW d, d = Lendiff(c),
         NEW n, Updated(n, s, c, d),
         NEW ext, ext = ExtMoved(n.ext, c.from, c.to + 1, d)
  PROVE  ext \in Sides /\ SideRight(ext, n.size)
<1> PICK from, to, count : from = c.from /\ to = c.to /\ count = c.count
  OBVIOUS
<1> PICK x, y : x = s.ext /\ y = n.ext
  OBVIOUS
<1> PICK size : size = s.size
  OBVIOUS
<1>0. /\ from \in Nat /\ to \in Nat /\ from <= to /\ to < size /\ count \in Nat /\ count >= 1
      /\ d = count - (to - from) - 1 /\ d \in Int /\ size \in Nat /\ n.size = size + d
  BY DEF ChangeOf, Lendiff, SoundScreen, ScreenStates, Updated
<1>1. x \in Sides /\ y \in Sides /\ NoView \in Sides /\ SideRight(x, size)
  BY DEF SoundScreen, Updated, ScreenStates, Sides, NoView, Gone
<1>2. /\ y.line = Place(c, x.line) /\ y.lineN = x.lineN
      /\ y.current <=> x.current /\ ~Touched(c, x.line)
  BY DEF Updated
<1>3. CASE x = NoView
  <2>1. x.line = Gone /\ x.lineN = Gone /\ ~x.current
    BY ONLY <1>3 DEF NoView
  <2>2. y.line = Gone /\ y.lineN = Gone /\ ~y.current
    BY <1>2, <2>1 DEF Place
  <2>3. y = NoView
    BY ONLY <1>1, <2>2 DEF Sides, NoView
  <2> QED BY <1>1, <2>3 DEF ExtMoved, SideRight
<1>4. CASE x # NoView
  <2> PICK k : k = x.lineN
    OBVIOUS
  <2>1. k \in Nat /\ IF k < size THEN x.line = k /\ x.current ELSE x.line = Gone
    BY ONLY <1>1, <1>4, k = x.lineN DEF SideRight
  <2>2. y.lineN = k /\ y # NoView
    BY <1>2, <2>1 DEF NoView, Gone
  <2>3. CASE to + 1 < k
    <3> PICK m : m = k + d
      OBVIOUS
    <3>1. m \in Nat /\ (m < size + d <=> k < size)
      BY ONLY <1>0, <2>1, <2>3, m = k + d
    <3>2. ext = [y EXCEPT !.lineN = m]
      BY <2>2, <2>3 DEF ExtMoved
    <3>3. /\ ext \in Sides /\ ext.lineN = m /\ ext.line = y.line /\ ext.current = y.current
      BY ONLY <1>1, <3>1, <3>2 DEF Sides
    <3>4. CASE k < size
      <4>1. x.line = k /\ x.current /\ ~(k < from) /\ k > to /\ k # from /\ k # to /\ k # Gone
            /\ m # Gone
        BY ONLY <1>0, <2>1, <2>3, <3>1, <3>4 DEF Gone
      <4>2. Place(c, k) = m
        BY <4>1 DEF Place
      <4>3. ~Touched(c, k)
        BY <4>1, <4>2 DEF Touched
      <4>4. y.line = m /\ y.current
        BY ONLY <1>2, <4>1, <4>2, <4>3
      <4> QED BY ONLY <1>0, <3>1, <3>3, <3>4, <4>4 DEF SideRight
    <3>5. CASE ~(k < size)
      <4>1. y.line = Gone
        BY <1>2, <2>1, <3>5 DEF Place
      <4> QED BY ONLY <1>0, <3>1, <3>3, <3>5, <4>1 DEF SideRight
    <3> QED BY <3>4, <3>5
  <2>4. CASE ~(to + 1 < k) /\ from < k + 1
    <3>1. ext = NoView
      BY <2>2, <2>4 DEF ExtMoved
    <3> QED BY <1>1, <3>1 DEF SideRight
  <2>5. CASE ~(to + 1 < k) /\ ~(from < k + 1)
    <3>1. ext = y
      BY <2>2, <2>5 DEF ExtMoved
    <3>2. k < from /\ k < size /\ k < size + d /\ k # from /\ k # to /\ k # Gone
      BY ONLY <1>0, <2>1, <2>5 DEF Gone
    <3>3. Place(c, k) = k
      BY <3>2 DEF Place
    <3>4. ~Touched(c, k)
      BY <3>2, <3>3 DEF Touched
    <3>5. y.line = k /\ y.current
      BY ONLY <1>2, <2>1, <3>2, <3>3, <3>4
    <3> QED BY ONLY <1>0, <1>1, <2>1, <2>2, <3>1, <3>2, <3>5 DEF SideRight
  <2> QED BY <2>3, <2>4, <2>5
<1> QED BY <1>3, <1>4

\* The views set, and what was noted.
Registered(g, n, view, from, to, numbers, ext) ==
  /\ g \in ScreenStates /\ g.size = n.size
  /\ g.view = view /\ g.viewFrom = from /\ g.viewTo = to
  /\ g.drawn = n.drawn /\ g.numbers = numbers /\ g.ext = ext
  /\ g.must
  /\ ~g.rendered \/ (g.rendered = n.rendered /\ view = n.view)

\* When the views set fit, the screen is sound and they are in place.
LEMMA RegisteredSound ==
  ASSUME NEW s, SoundScreen(s), NEW c, NEW d, NEW n, Updated(n, s, c, d), n.size >= 1,
         NEW g, NEW view, NEW from, NEW to, NEW numbers, NEW ext,
         Registered(g, n, view, from, to, numbers, ext), SideRight(ext, n.size),
         Fits(view, from, to, n.drawn, numbers), to <= n.size
  PROVE  SoundScreen(g) /\ Placed(g) /\ g.must
<1>1. g.rendered => n.rendered /\ view = n.view
  BY DEF Registered
<1>2. InOrder(n)
  BY DEF SoundScreen, InOrder, Updated
<1>3. InOrder(g)
  BY ONLY <1>1, <1>2, Registered(g, n, view, from, to, numbers, ext) DEF Registered, InOrder
<1>4. from <= to /\ Len(view) = to - from
  BY DEF Fits
<1>5. SoundScreen(g)
  BY ONLY <1>3, <1>4, Registered(g, n, view, from, to, numbers, ext), SideRight(ext, n.size),
          n.size >= 1
     DEF Registered, SoundScreen
<1> QED BY ONLY <1>5, Registered(g, n, view, from, to, numbers, ext), to <= n.size,
                Fits(view, from, to, n.drawn, numbers)
            DEF Registered, Placed

\* No views.
LEMMA NoneFit ==
  ASSUME NEW drawn, NEW numbers
  PROVE  Fits(<<>>, 0, 0, drawn, numbers)
<1> PICK none : none = <<>>
  OBVIOUS
<1>1. none \in Seq(Entry) /\ Len(none) = 0
  BY EmptySeq
<1> QED BY <1>1 DEF Fits, Sorted

\* What regChange does to views that are in place: those of the lines changed
\* go, new ones come in between, and those after them move.
LEMMA RegChangeFits ==
  ASSUME NEW s, SoundScreen(s), Placed(s), NEW c, ChangeOf(s, c), ~c.full, NEW d, d = Lendiff(c),
         NEW n, Updated(n, s, c, d), NEW g, g = RegChange(n, c.from, c.to + 1, d)
  PROVE  SoundScreen(g) /\ Placed(g) /\ g.must
<1> PICK from, to, count : from = c.from /\ to = c.to + 1 /\ count = c.count
  OBVIOUS
<1> PICK vf, vt, size, view : /\ vf = s.viewFrom /\ vt = s.viewTo /\ size = s.size
                              /\ view = n.view
  OBVIOUS
<1> PICK len : len = Len(view)
  OBVIOUS
<1> PICK numbers : numbers = IF d # 0 /\ to < n.viewTo /\ (n.numbers = NoNumber \/ n.numbers > from)
                             THEN from ELSE n.numbers
  OBVIOUS
<1> PICK ext : ext = ExtMoved(n.ext, from, to, d)
  OBVIOUS
<1> PICK r : r = [n EXCEPT !.numbers = numbers, !.ext = ext, !.must = TRUE]
  OBVIOUS
<1>0. /\ from \in Nat /\ to \in Nat /\ from < to /\ to <= size /\ count \in Nat /\ count >= 1
      /\ size \in Nat /\ d \in Int /\ to + d = from + count /\ n.size = size + d
      /\ vf \in Nat /\ vt \in Nat /\ vf <= vt /\ vt <= size /\ len = vt - vf /\ len \in Nat
  <2>1. /\ c.from \in Nat /\ c.to \in Nat /\ c.from <= c.to /\ c.to < size /\ c.count \in Nat
        /\ c.count >= 1 /\ d = c.count - (c.to - c.from) - 1
    BY DEF ChangeOf, Lendiff
  <2>2. /\ size \in Nat /\ n.size = size + d /\ vf \in Nat /\ vt \in Nat /\ vf <= vt
        /\ vt <= size /\ len = vt - vf
    BY DEF SoundScreen, ScreenStates, Updated, Placed
  <2> QED BY ONLY <2>1, <2>2, from = c.from, to = c.to + 1, count = c.count
<1>1. /\ n \in ScreenStates /\ n.viewFrom = vf /\ n.viewTo = vt /\ view \in Seq(Entry)
      /\ n.numbers = s.numbers /\ s.numbers \in Numbers /\ n.drawn \in Seq(Element)
  BY DEF Updated, ScreenStates, SoundScreen
<1>2. Renumbered(numbers, s, c, d) /\ numbers \in Numbers
  BY <1>0, <1>1 DEF Renumbered, Numbers
<1>3. ext \in Sides /\ SideRight(ext, n.size)
  BY SideMoved
<1>4. /\ r \in ScreenStates /\ r.size = n.size /\ r.view = view /\ r.viewFrom = vf
      /\ r.viewTo = vt /\ r.drawn = n.drawn /\ r.numbers = numbers /\ r.ext = ext
      /\ r.must /\ r.rendered = n.rendered
  BY ONLY <1>1, <1>2, <1>3, view = n.view,
          r = [n EXCEPT !.numbers = numbers, !.ext = ext, !.must = TRUE] DEF ScreenStates
<1>5. Sorted(view)
  <2>1. Sorted(s.view)
    BY DEF Placed, Fits
  <2> QED BY <2>1 DEF Sorted, Updated
<1>6. ASSUME NEW i \in 1..len, NEW k, k = vf + i - 1
      PROVE  /\ k < from => Shows(view[i], k, n.drawn, numbers)
             /\ k >= to => Shows(view[i], k + d, n.drawn, numbers)
  <2>1. i \in 1..Len(s.view)
    BY DEF Updated
  <2>2. k \in Int /\ (k > c.to <=> k >= to)
    <3>1. c.to \in Nat
      BY DEF ChangeOf
    <3> QED BY ONLY <1>0, <1>6, <3>1, to = c.to + 1
  <2> QED BY <1>2, <1>6, <2>1, <2>2, UpdatedShows
<1>7. n.size >= 1 /\ from < n.size
  BY ONLY <1>0
<1>8. ASSUME NEW v, NEW p, NEW q, Registered(g, n, v, p, q, numbers, ext),
             Fits(v, p, q, n.drawn, numbers), q <= n.size
      PROVE  SoundScreen(g) /\ Placed(g) /\ g.must
  BY <1>3, <1>7, <1>8, RegisteredSound
<1>9. CASE from >= vt
  <2>1. g = r
    BY <1>1, <1>9 DEF RegChange
  <2>2. Registered(g, n, view, vf, vt, numbers, ext)
    BY ONLY <1>4, <2>1, view = n.view DEF Registered
  <2>3. ASSUME NEW i \in 1..vt - vf PROVE Shows(view[i], vf + i - 1, n.drawn, numbers)
    <3>1. i \in 1..len /\ vf + i - 1 < from
      BY ONLY <1>0, <1>9, i \in 1..vt - vf
    <3> QED BY <1>6, <3>1
  <2>4. Fits(view, vf, vt, n.drawn, numbers)
    BY ONLY <1>0, <1>1, <1>5, <2>3, len = Len(view) DEF Fits
  <2>5. vt <= n.size
    BY ONLY <1>0, <1>9
  <2> QED BY <1>8, <2>2, <2>4, <2>5
<1>10. CASE from < vt /\ to <= vf
  <2> PICK p, q : p = vf + d /\ q = vt + d
    OBVIOUS
  <2>0. p \in Nat /\ q \in Nat /\ p <= q /\ q - p = len /\ q <= n.size
    BY ONLY <1>0, <1>10, p = vf + d, q = vt + d
  <2>1. g = [r EXCEPT !.viewFrom = p, !.viewTo = q]
    <3>1. ~(from >= vt)
      BY ONLY <1>0, <1>10
    <3> QED BY <1>1, <1>4, <1>10, <3>1 DEF RegChange
  <2>2. Registered(g, n, view, p, q, numbers, ext)
    BY ONLY <1>4, <2>0, <2>1, view = n.view DEF Registered, ScreenStates
  <2>3. ASSUME NEW i \in 1..q - p PROVE Shows(view[i], p + i - 1, n.drawn, numbers)
    <3>1. i \in 1..len /\ vf + i - 1 >= to /\ p + i - 1 = vf + i - 1 + d
      BY ONLY <1>0, <1>10, <2>0, i \in 1..q - p, p = vf + d
    <3> QED BY <1>6, <3>1
  <2>4. Fits(view, p, q, n.drawn, numbers)
    BY ONLY <1>1, <1>5, <2>0, <2>3, len = Len(view) DEF Fits
  <2> QED BY <1>8, <2>0, <2>2, <2>4
<1>11. CASE from <= vf /\ to >= vt /\ from < vt /\ vf < to
  <2> PICK none : none = <<>>
    OBVIOUS
  <2>0. none \in Seq(Entry)
    BY EmptySeq
  <2>1. g = [r EXCEPT !.view = none, !.viewFrom = 0, !.viewTo = 0, !.rendered = FALSE]
    <3>1. ~(from >= vt) /\ ~(to <= vf)
      BY ONLY <1>0, <1>11
    <3> QED BY <1>1, <1>4, <1>11, <3>1 DEF RegChange, ResetView
  <2>2. Registered(g, n, none, 0, 0, numbers, ext)
    BY ONLY <1>4, <2>0, <2>1 DEF Registered, ScreenStates
  <2>3. Fits(none, 0, 0, n.drawn, numbers)
    BY NoneFit
  <2>4. 0 <= n.size
    BY ONLY <1>0
  <2> QED BY <1>8, <2>2, <2>3, <2>4
<1>12. CASE from <= vf /\ to < vt /\ from < vt /\ vf < to
  <2> PICK below : below = Below(n, to)
    OBVIOUS
  <2> PICK b, m, p, q : b = to - vf /\ m = len - b /\ p = to + d /\ q = vt + d
    OBVIOUS
  <2>0. /\ b \in 0..len /\ p \in Nat /\ q \in Nat /\ q <= n.size /\ q = p + m
    BY ONLY <1>0, <1>12, b = to - vf, m = len - b, p = to + d, q = vt + d
  <2>1. g = [r EXCEPT !.view = below, !.viewFrom = p, !.viewTo = q, !.rendered = FALSE]
    <3>1. ~(from >= vt) /\ ~(to <= vf) /\ ~(to >= vt)
      BY ONLY <1>0, <1>12
    <3> QED BY <1>1, <1>4, <1>12, <3>1 DEF RegChange
  <2>2. below = SubSeq(view, b + 1, Len(view))
    BY <1>1 DEF Below, IndexOf
  <2>3. ASSUME NEW i \in 1..m PROVE Shows(view[b + i], p + i - 1, n.drawn, numbers)
    <3>1. b + i \in 1..len /\ vf + (b + i) - 1 >= to /\ p + i - 1 = vf + (b + i) - 1 + d
      BY ONLY <1>0, <2>0, i \in 1..m, b = to - vf, m = len - b, p = to + d
    <3> QED BY <1>6, <3>1
  <2>4. Fits(below, p, q, n.drawn, numbers)
    <3>1. b \in 0..Len(view) /\ m = Len(view) - b
      BY <2>0
    <3>2. Fits(below, p, p + m, n.drawn, numbers)
      BY ONLY <1>1, <1>5, <2>0, <2>2, <2>3, <3>1, BelowFits
    <3> QED BY ONLY <2>0, <3>2
  <2>5. Registered(g, n, below, p, q, numbers, ext)
    BY ONLY <1>4, <2>0, <2>1, <2>4 DEF Registered, ScreenStates, Fits
  <2> QED BY <1>8, <2>0, <2>4, <2>5
<1>13. CASE vf < from /\ to >= vt /\ from < vt
  <2> PICK above : above = Above(n, from)
    OBVIOUS
  <2> PICK a : a = from - vf
    OBVIOUS
  <2>0. a \in 0..len /\ vf + a = from /\ from <= n.size
    BY ONLY <1>0, <1>13, a = from - vf
  <2>1. g = [r EXCEPT !.view = above, !.viewTo = from, !.rendered = FALSE]
    <3>1. ~(from >= vt) /\ ~(to <= vf) /\ ~(from <= vf)
      BY ONLY <1>0, <1>13
    <3> QED BY <1>1, <1>4, <1>13, <3>1 DEF RegChange
  <2>2. above = SubSeq(view, 1, a)
    BY <1>1 DEF Above, IndexOf
  <2>3. ASSUME NEW i \in 1..a PROVE Shows(view[i], vf + i - 1, n.drawn, numbers)
    <3>1. i \in 1..len /\ vf + i - 1 < from
      BY ONLY <1>0, <2>0, i \in 1..a
    <3> QED BY <1>6, <3>1
  <2>4. Fits(above, vf, from, n.drawn, numbers)
    BY ZenonT(60), <1>0, <1>1, <1>5, <2>0, <2>2, <2>3, AboveFits
  <2>5. Registered(g, n, above, vf, from, numbers, ext)
    BY ONLY <1>0, <1>4, <2>1, <2>4 DEF Registered, ScreenStates, Fits
  <2> QED BY <1>8, <2>0, <2>4, <2>5
<1>14. CASE vf < from /\ to < vt
  <2> PICK above, below : above = Above(n, from) /\ below = Below(n, to)
    OBVIOUS
  <2> PICK built : built = BuildView(from, to + d)
    OBVIOUS
  <2> PICK front : front = above \o built
    OBVIOUS
  <2> PICK all : all = front \o below
    OBVIOUS
  <2> PICK a, b, m, p, q : /\ a = from - vf /\ b = to - vf /\ m = len - b
                           /\ p = to + d /\ q = vt + d
    OBVIOUS
  <2>0. /\ a \in 0..len /\ vf + a = from /\ b \in 0..len /\ p \in Nat /\ q \in Nat
        /\ q <= n.size /\ q = p + m /\ from <= p /\ a <= b
    BY ONLY <1>0, <1>14, a = from - vf, b = to - vf, m = len - b, p = to + d, q = vt + d
  <2>1. g = [r EXCEPT !.view = all, !.viewTo = q, !.rendered = FALSE]
    <3>1. ~(from >= vt) /\ ~(to <= vf) /\ ~(from <= vf) /\ ~(to >= vt)
      BY ONLY <1>0, <1>14
    <3> QED BY <1>1, <1>4, <1>14, <3>1 DEF RegChange
  <2>2. above = SubSeq(view, 1, a) /\ below = SubSeq(view, b + 1, Len(view))
    BY <1>1 DEF Above, Below, IndexOf
  <2>3. ASSUME NEW i \in 1..a PROVE Shows(view[i], vf + i - 1, n.drawn, numbers)
    <3>1. i \in 1..len /\ vf + i - 1 < from
      BY ONLY <1>0, <2>0, i \in 1..a
    <3> QED BY <1>6, <3>1
  <2>4. Fits(above, vf, from, n.drawn, numbers) /\ IsPart(above, view, 0, a)
    BY ZenonT(60), <1>0, <1>1, <1>5, <2>0, <2>2, <2>3, AboveFits
  <2>5. ASSUME NEW i \in 1..m PROVE Shows(view[b + i], p + i - 1, n.drawn, numbers)
    <3>1. b + i \in 1..len /\ vf + (b + i) - 1 >= to /\ p + i - 1 = vf + (b + i) - 1 + d
      BY ONLY <1>0, <2>0, i \in 1..m, b = to - vf, m = len - b, p = to + d
    <3> QED BY <1>6, <3>1
  <2>6. Fits(below, p, q, n.drawn, numbers) /\ IsPart(below, view, b, len)
    <3>1. b \in 0..Len(view) /\ m = Len(view) - b
      BY <2>0
    <3>2. Fits(below, p, p + m, n.drawn, numbers) /\ IsPart(below, view, b, Len(view))
      BY ONLY <1>1, <1>5, <2>0, <2>2, <2>5, <3>1, BelowFits
    <3> QED BY ONLY <2>0, <3>2, len = Len(view)
  <2>7. /\ Fits(built, from, p, n.drawn, numbers)
        /\ \A i \in 1..Len(built) : built[i].node = 0
    <3>1. built = BuildView(from, p)
      OBVIOUS
    <3> PICK drawn : drawn = n.drawn
      OBVIOUS
    <3>2. drawn \in Seq(Element) /\ from \in Nat /\ p \in Nat /\ from <= p
      BY <1>0, <1>1, <2>0
    <3>3. /\ Fits(built, from, p, drawn, numbers)
          /\ \A i \in 1..Len(built) : built[i].node = 0
      BY ONLY <3>1, <3>2, BuiltFits
    <3> QED BY <3>3
  <2>8. Fits(front, vf, p, n.drawn, numbers) /\ IsBoth(front, above, built)
    <3>1. ASSUME NEW i \in 1..Len(above), NEW j \in 1..Len(built)
          PROVE  above[i].node < built[j].node \/ above[i].node = 0 \/ built[j].node = 0
      BY <2>7
    <3> PICK drawn : drawn = n.drawn
      OBVIOUS
    <3>2. /\ vf \in Nat /\ from \in Nat /\ p \in Nat
          /\ Fits(above, vf, from, drawn, numbers) /\ Fits(built, from, p, drawn, numbers)
      BY <1>0, <2>0, <2>4, <2>7
    <3>3. Fits(front, vf, p, drawn, numbers)
      BY ONLY <3>1, <3>2, front = above \o built, BothFit
    <3>4. IsBoth(front, above, built)
      <4>1. above \in Seq(Entry) /\ built \in Seq(Entry)
        BY ONLY <3>2 DEF Fits
      <4> QED BY ONLY <4>1, front = above \o built, BothIs
    <3> QED BY <3>3, <3>4
  <2>9. /\ Len(above) = a /\ \A i \in 1..a : above[i] = view[i]
        /\ Len(below) = m /\ \A i \in 1..m : below[i] = view[b + i]
        /\ Len(front) = a + Len(built) /\ Len(built) \in Nat
        /\ \A i \in 1..a : front[i] = above[i]
        /\ \A i \in 1..Len(built) : front[a + i] = built[i]
    <3>1. Len(above) = a /\ \A i \in 1..a : above[i] = view[i]
      BY ONLY <1>0, <2>0, <2>4 DEF IsPart
    <3>2. Len(below) = m /\ \A i \in 1..m : below[i] = view[b + i]
      BY ONLY <1>0, <2>0, <2>6, m = len - b DEF IsPart
    <3>3. Len(built) \in Nat
      BY <1>0, <2>0, <2>7 DEF Fits
    <3> QED BY ONLY <2>8, <3>1, <3>2, <3>3 DEF IsBoth
  <2>10. ASSUME NEW i \in 1..Len(front), NEW j \in 1..Len(below)
         PROVE  front[i].node < below[j].node \/ front[i].node = 0 \/ below[j].node = 0
    <3>1. CASE i \in 1..a
      <4>1. b + j \in 1..len /\ i \in 1..len /\ i < b + j
        BY ONLY <1>0, <2>0, <2>9, <3>1, j \in 1..Len(below), m = len - b
      <4>2. front[i] = view[i] /\ below[j] = view[b + j]
        BY ONLY SMTT(30), <2>9, <3>1
      <4>3. \/ view[i].node < view[b + j].node \/ view[b + j].node = 0
            \/ view[i].node = 0
        BY ONLY <1>5, <4>1, len = Len(view) DEF Sorted
      <4> QED BY ONLY <4>2, <4>3
    <3>2. CASE i - a \in 1..Len(built) /\ i = a + (i - a)
      <4>1. front[i] = built[i - a]
        BY ONLY ZenonT(60), <2>9, <3>2
      <4> QED BY ONLY <2>7, <3>2, <4>1
    <3>3. i \in 1..a \/ (i - a \in 1..Len(built) /\ i = a + (i - a))
      BY ONLY <2>0, <2>9, i \in 1..Len(front), <1>0
    <3> QED BY <3>1, <3>2, <3>3
  <2>11. Fits(all, vf, q, n.drawn, numbers)
    BY ONLY <1>0, <2>0, <2>6, <2>8, <2>10, all = front \o below, BothFit
  <2>12. Registered(g, n, all, vf, q, numbers, ext)
    BY ONLY <1>0, <1>4, <2>0, <2>1, <2>11 DEF Registered, ScreenStates, Fits
  <2> QED BY <1>8, <2>0, <2>11, <2>12
<1> QED BY <1>0, <1>9, <1>10, <1>11, <1>12, <1>13, <1>14


\* A view with another mark.
Marked(v, view, p, b) ==
  /\ v \in Seq(Entry) /\ Len(v) = Len(view)
  /\ \A i \in 1..Len(view) : v[i].line = view[i].line /\ v[i].node = view[i].node
  /\ \A i \in 1..Len(view) : i # p => v[i].changed = view[i].changed
  /\ v[p].changed <=> b

\* The assignment of regLineChange does that.
LEMMA MarkedIs ==
  ASSUME NEW view \in Seq(Entry), NEW p \in 1..Len(view), NEW b \in BOOLEAN,
         NEW v, v = [view EXCEPT ![p] = [view[p] EXCEPT !.changed = b]]
  PROVE  Marked(v, view, p, b)
<1> PICK e : e = [view[p] EXCEPT !.changed = b]
  OBVIOUS
<1>0. Len(view) \in Nat /\ DOMAIN view = 1..Len(view) /\ \A i \in 1..Len(view) : view[i] \in Entry
  BY LenProperties
<1>1. /\ e \in Entry /\ e.line = view[p].line /\ e.node = view[p].node /\ (e.changed <=> b)
  <2>1. view[p] \in Entry
    BY <1>0
  <2> QED BY ONLY <2>1, b \in BOOLEAN, e = [view[p] EXCEPT !.changed = b] DEF Entry
<1>2. v = [i \in 1..Len(view) |-> IF i = p THEN e ELSE view[i]]
  BY <1>0
<1>3. v \in [1..Len(view) -> Entry]
  BY ONLY <1>0, <1>1, <1>2
<1>4. v \in Seq(Entry) /\ Len(v) = Len(view)
  BY ONLY <1>0, <1>3, SequenceIs
<1> QED BY ONLY <1>1, <1>2, <1>4, p \in 1..Len(view) DEF Marked

\* A line of which only the text is changed: its view is marked.
LEMMA LineChangeFits ==
  ASSUME NEW s, SoundScreen(s), Placed(s), NEW c, ChangeOf(s, c), ~c.full, ~c.whole,
         c.from = c.to, c.count = 1,
         NEW n, Updated(n, s, c, 0), NEW g, g = RegLineChange(n, c.from)
  PROVE  SoundScreen(g) /\ Placed(g) /\ g.must
<1> PICK m, vf, vt, size, view : /\ m = c.from /\ vf = s.viewFrom /\ vt = s.viewTo
                                 /\ size = s.size /\ view = n.view
  OBVIOUS
<1> PICK x, y : x = s.ext /\ y = n.ext
  OBVIOUS
<1> PICK ext : ext = IF y # NoView /\ y.lineN = m THEN NoView ELSE y
  OBVIOUS
<1> PICK r : r = [n EXCEPT !.must = TRUE, !.ext = ext]
  OBVIOUS
<1> PICK p : p = m - vf + 1
  OBVIOUS
<1>0. /\ m \in Nat /\ m < size /\ size \in Nat /\ n.size = size
      /\ vf \in Nat /\ vt \in Nat /\ vf <= vt /\ vt <= size
      /\ Len(view) = vt - vf /\ Lendiff(c) = 0 /\ m = c.to
  <2>1. c.from \in Nat /\ c.from < s.size /\ s.size \in Nat /\ n.size = s.size + 0
    BY DEF ChangeOf, SoundScreen, ScreenStates, Updated
  <2>2. vf \in Nat /\ vt \in Nat /\ vf <= vt /\ vt <= size /\ Len(view) = vt - vf
    BY DEF SoundScreen, ScreenStates, Updated, Placed
  <2>3. Lendiff(c) = 0
    BY <2>1 DEF Lendiff
  <2> QED BY <2>1, <2>2, <2>3
<1>1. /\ n \in ScreenStates /\ n.viewFrom = vf /\ n.viewTo = vt /\ view \in Seq(Entry)
      /\ y \in Sides /\ NoView \in Sides /\ x \in Sides /\ SideRight(x, size)
  BY DEF Updated, ScreenStates, SoundScreen, Sides, NoView, Gone
<1>2. ASSUME NEW k \in Int
      PROVE  Place(c, k) = k /\ (k \in Nat /\ k # m => ~Touched(c, k))
  <2>1. Place(c, k) = k
    BY ONLY <1>0, ~c.full, ~c.whole, m = c.from, k \in Int DEF Place
  <2> QED BY ONLY <1>0, <2>1, m = c.from DEF Touched, Gone
<1>3. ext \in Sides /\ SideRight(ext, size)
  <2>1. y.line = x.line /\ y.lineN = x.lineN /\ (y.current <=> x.current /\ ~Touched(c, x.line))
    <3>1. x.line \in Int
      BY <1>1 DEF Sides
    <3> QED BY <1>2, <3>1 DEF Updated
  <2>2. CASE x = NoView
    <3>1. x.line = Gone /\ x.lineN = Gone /\ ~x.current
      BY ONLY <2>2 DEF NoView
    <3>2. y = NoView
      BY ONLY <1>1, <2>1, <3>1 DEF Sides, NoView
    <3> QED BY <1>1, <3>2 DEF SideRight
  <2>3. CASE x # NoView
    <3>1. x.lineN \in Nat /\ IF x.lineN < size THEN x.line = x.lineN /\ x.current ELSE x.line = Gone
      BY ONLY <1>1, <2>3 DEF SideRight
    <3>2. CASE x.lineN = m
      <4>1. ext = NoView
        BY ONLY <2>1, <3>1, <3>2, ext = IF y # NoView /\ y.lineN = m THEN NoView ELSE y
           DEF NoView, Gone
      <4> QED BY ONLY <1>1, <4>1 DEF SideRight
    <3>3. CASE x.lineN # m
      <4>1. ext = y
        BY ONLY <2>1, <3>3, ext = IF y # NoView /\ y.lineN = m THEN NoView ELSE y
      <4>2. x.lineN < size => ~Touched(c, x.line)
        BY ONLY <1>2, <3>1, <3>3
      <4> QED BY ONLY <1>1, <2>1, <3>1, <4>1, <4>2 DEF SideRight
    <3> QED BY <3>2, <3>3
  <2> QED BY <2>2, <2>3
<1>4. /\ r \in ScreenStates /\ r.size = size /\ r.view = view /\ r.viewFrom = vf
      /\ r.viewTo = vt /\ r.drawn = n.drawn /\ r.numbers = s.numbers /\ r.ext = ext
      /\ r.must /\ r.rendered = s.rendered
  <2>1. n.numbers = s.numbers /\ n.rendered = s.rendered
    BY DEF Updated
  <2> QED BY ONLY <1>0, <1>1, <1>3, <2>1, view = n.view,
                  r = [n EXCEPT !.must = TRUE, !.ext = ext] DEF ScreenStates
<1> PICK v : v = g.view
  OBVIOUS
<1>5. /\ g \in ScreenStates /\ g.size = size /\ g.viewFrom = vf
      /\ g.viewTo = vt /\ g.drawn = n.drawn /\ g.numbers = s.numbers /\ g.ext = ext
      /\ g.must /\ g.rendered = s.rendered
      /\ v \in Seq(Entry) /\ Len(v) = Len(view)
      /\ \A i \in 1..Len(view) :
           /\ v[i].line = view[i].line /\ v[i].node = view[i].node
           /\ i # p => v[i].changed = view[i].changed
           /\ i = p /\ v[i].node # 0 => v[i].changed
  <2>0. m \in vf..vt - 1 <=> p \in 1..Len(view)
    BY ONLY SMTT(30), <1>0, p = m - vf + 1
  <2>1. CASE m \in vf..vt - 1 /\ view[p].node # 0
    <3> PICK w : w = [view EXCEPT ![p] = [view[p] EXCEPT !.changed = TRUE]]
      OBVIOUS
    <3>1. Marked(w, view, p, TRUE)
      BY <1>1, <2>0, <2>1, MarkedIs
    <3>2. g = [r EXCEPT !.view = w]
      BY <1>1, <1>4, <2>1 DEF RegLineChange, IndexOf
    <3>3. w \in Seq(Entry)
      BY <3>1 DEF Marked
    <3>4. /\ g \in ScreenStates /\ g.size = size /\ g.viewFrom = vf /\ v = w
          /\ g.viewTo = vt /\ g.drawn = n.drawn /\ g.numbers = s.numbers /\ g.ext = ext
          /\ g.must /\ g.rendered = s.rendered
      BY ONLY <1>4, <3>2, <3>3, v = g.view DEF ScreenStates
    <3> QED BY ONLY <3>1, <3>4 DEF Marked
  <2>2. CASE ~(m \in vf..vt - 1 /\ view[p].node # 0)
    <3>1. g = r
      BY <1>1, <1>4, <2>2 DEF RegLineChange, IndexOf
    <3> QED BY ONLY <1>1, <1>4, <2>0, <2>2, <3>1, v = g.view
  <2> QED BY <2>1, <2>2
<1>6. /\ Len(view) = Len(s.view) /\ Len(n.drawn) = Len(s.drawn)
      /\ \A i \in 1..Len(view) : view[i].node = s.view[i].node
  BY DEF Updated
<1>7. Sorted(v)
  <2>1. Sorted(s.view)
    BY DEF Placed, Fits
  <2> QED BY ONLY <1>5, <1>6, <2>1 DEF Sorted
<1>8. ASSUME NEW i \in 1..vt - vf PROVE Shows(v[i], vf + i - 1, n.drawn, s.numbers)
  <2> PICK k : k = vf + i - 1
    OBVIOUS
  <2>0. k \in Nat /\ i \in 1..Len(view) /\ (k = m <=> i = p)
    BY ONLY <1>0, k = vf + i - 1, p = m - vf + 1, i \in 1..vt - vf
  <2>1. CASE k # m
    <3>1. Renumbered(s.numbers, s, c, 0)
      BY DEF Renumbered
    <3>2. Shows(view[i], k, n.drawn, s.numbers)
      <4>1. k < c.from \/ k > c.to
        BY ONLY <1>0, <2>0, <2>1, m = c.from
      <4>2. k + 0 = k
        BY ONLY <2>0
      <4>3. i \in 1..Len(s.view) /\ k = s.viewFrom + i - 1 /\ 0 = Lendiff(c)
        BY <1>0, <1>6, <2>0
      <4>4. /\ k < c.from => Shows(n.view[i], k, n.drawn, s.numbers)
            /\ k > c.to => Shows(n.view[i], k + 0, n.drawn, s.numbers)
        BY <3>1, <4>3, UpdatedShows
      <4> QED BY <4>1, <4>2, <4>4
    <3>3. v[i].line = view[i].line /\ v[i].node = view[i].node /\ v[i].changed = view[i].changed
      BY ONLY <1>5, <2>0, <2>1
    <3> QED BY ONLY <3>2, <3>3, k = vf + i - 1 DEF Shows
  <2>2. CASE k = m
    <3>1. Shows(s.view[i], k, s.drawn, s.numbers)
      BY DEF Placed, Fits
    <3> PICK q : q = s.view[i].node
      OBVIOUS
    <3>2. /\ s.view[i].line = k /\ q \in 0..Len(s.drawn)
          /\ q # 0 => s.drawn[q].number = k \/ (s.numbers # NoNumber /\ s.numbers <= k)
      BY ONLY <3>1, q = s.view[i].node DEF Shows
    <3>3. v[i].node = q /\ v[i].line = k /\ (q # 0 => v[i].changed)
      <4>1. view[i].line = Place(c, s.view[i].line)
        BY <1>6, <2>0 DEF Updated
      <4>2. view[i].line = k
        BY <1>2, <2>0, <3>2, <4>1
      <4> QED BY ONLY <1>5, <1>6, <2>0, <2>2, <4>2, q = s.view[i].node
    <3>4. q # 0 => n.drawn[q].number = s.drawn[q].number
      <4>1. q # 0 => q \in 1..Len(s.drawn)
        <5>1. Len(s.drawn) \in Nat
          BY LenProperties DEF SoundScreen, ScreenStates
        <5> QED BY ONLY <3>2, <5>1
      <4> QED BY <4>1 DEF Updated
    <3> QED BY ONLY <1>6, <3>2, <3>3, <3>4, k = vf + i - 1 DEF Shows
  <2> QED BY <2>1, <2>2
<1>9. InOrder(g)
  <2>1. InOrder(s)
    BY DEF SoundScreen
  <2> QED BY ONLY <1>5, <1>6, <2>1, v = g.view DEF InOrder
<1>10. Fits(v, vf, vt, n.drawn, s.numbers)
  BY ONLY <1>0, <1>5, <1>7, <1>8 DEF Fits
<1>11. Placed(g)
  BY ONLY <1>0, <1>5, <1>10, v = g.view DEF Placed
<1>12. SoundScreen(g)
  BY ONLY <1>0, <1>3, <1>5, <1>9, v = g.view DEF SoundScreen
<1> QED BY ONLY <1>5, <1>11, <1>12

\* A change within an operation.
LEMMA ChangesFit ==
  ASSUME NEW s, SoundScreen(s), Placed(s), NEW c, ChangeOf(s, c), ~c.full, NEW g, g = Changes(s, c)
  PROVE  SoundScreen(g) /\ Placed(g) /\ g.must
<1> PICK d : d = Lendiff(c)
  OBVIOUS
<1> PICK n : n = UpdateDoc(s, c)
  OBVIOUS
<1>1. Updated(n, s, c, d)
  BY DocUpdated DEF SoundScreen
<1>2. CASE c.from = c.to /\ c.count = 1 /\ ~c.whole
  <2>1. g = RegLineChange(n, c.from)
    BY <1>2 DEF Changes
  <2>2. d = 0
    <3>1. c.to \in Nat
      BY DEF ChangeOf
    <3> QED BY <1>2, <3>1 DEF Lendiff
  <2> QED BY <1>1, <1>2, <2>1, <2>2, LineChangeFits
<1>3. CASE ~(c.from = c.to /\ c.count = 1 /\ ~c.whole)
  <2>1. g = RegChange(n, c.from, c.to + 1, d)
    BY <1>3 DEF Changes
  <2> QED BY <1>1, <2>1, RegChangeFits
<1> QED BY <1>2, <1>3

-----------------------------------------------------------------------------
(* The document filled anew, and what the views are made anew from. *)

\* After all lines were replaced no view is left of a line there is, or those
\* left are past the end.
LEMMA FilledSound ==
  ASSUME NEW s, SoundScreen(s), NEW c, ChangeOf(s, c), c.full, c.from = 0, c.to = s.size - 1,
         NEW g, g = Changes(s, c)
  PROVE  SoundScreen(g) /\ (g.viewFrom < g.size => Placed(g)) /\ g.must
<1> PICK d : d = Lendiff(c)
  OBVIOUS
<1> PICK n : n = UpdateDoc(s, c)
  OBVIOUS
<1> PICK vf, vt, size, view : vf = s.viewFrom /\ vt = s.viewTo /\ size = n.size /\ view = n.view
  OBVIOUS
<1> PICK x, y : x = s.ext /\ y = n.ext
  OBVIOUS
<1> PICK z \in Int : z = 0
  OBVIOUS
<1> PICK ext : ext = ExtMoved(y, 0, size, z)
  OBVIOUS
<1> PICK numbers : numbers = IF z # 0 /\ size < n.viewTo /\ (n.numbers = NoNumber \/ n.numbers > 0)
                             THEN 0 ELSE n.numbers
  OBVIOUS
<1> PICK r : r = [n EXCEPT !.numbers = numbers, !.ext = ext, !.must = TRUE]
  OBVIOUS
<1>0. Updated(n, s, c, d)
  BY DocUpdated DEF SoundScreen
<1>1. /\ size \in Nat /\ size >= 1 /\ s.size \in Nat /\ s.size <= s.size
      /\ vf \in Nat /\ vt \in Nat /\ vf <= vt /\ Len(view) = vt - vf
      /\ n \in ScreenStates /\ n.viewFrom = vf /\ n.viewTo = vt /\ view \in Seq(Entry)
      /\ n.rendered = s.rendered /\ n.numbers \in Numbers
  <2>1. /\ size = s.size + d /\ s.size \in Nat /\ vf \in Nat /\ vt \in Nat /\ vf <= vt
        /\ Len(view) = vt - vf
        /\ n \in ScreenStates /\ n.viewFrom = vf /\ n.viewTo = vt /\ view \in Seq(Entry)
        /\ n.rendered = s.rendered /\ n.numbers \in Numbers
    BY <1>0 DEF SoundScreen, ScreenStates, Updated
  <2>2. size = c.count /\ c.count \in Nat /\ c.count >= 1
    BY <2>1 DEF ChangeOf, Lendiff
  <2> QED BY <2>1, <2>2
<1>2. /\ x \in Sides /\ y \in Sides /\ NoView \in Sides /\ SideRight(x, s.size)
      /\ y.line = Gone /\ y.lineN = x.lineN /\ ~y.current
  <2>1. x \in Sides /\ y \in Sides /\ NoView \in Sides /\ SideRight(x, s.size)
    BY <1>1 DEF SoundScreen, ScreenStates, Sides, NoView, Gone
  <2>2. \A k \in Int : Place(c, k) = Gone /\ Touched(c, k)
    BY DEF Place, Touched
  <2>3. x.line \in Int
    BY <2>1 DEF Sides
  <2> QED BY <1>0, <2>1, <2>2, <2>3 DEF Updated
<1>3. ext \in Sides /\ SideRight(ext, size)
  <2>1. CASE x = NoView
    <3>1. y = NoView
      BY ONLY <1>2, <2>1 DEF Sides, NoView
    <3>2. ext = NoView
      BY <3>1 DEF ExtMoved
    <3> QED BY ONLY <1>2, <3>2 DEF SideRight
  <2>2. CASE x # NoView
    <3> PICK k : k = x.lineN
      OBVIOUS
    <3>1. k \in Nat /\ y.lineN = k /\ y # NoView
      BY ONLY <1>2, <2>2, k = x.lineN DEF SideRight, NoView, Gone
    <3>2. CASE size < k
      <4>1. ext = [y EXCEPT !.lineN = k]
        <5>1. k + z = k
          BY ONLY <3>1, z = 0
        <5> QED BY <3>1, <3>2, <5>1 DEF ExtMoved
      <4>2. ext \in Sides /\ ext.line = Gone /\ ext.lineN = k
        BY ONLY <1>2, <3>1, <4>1 DEF Sides
      <4> QED BY ONLY <1>1, <3>1, <3>2, <4>2 DEF SideRight
    <3>3. CASE ~(size < k)
      <4>1. ext = NoView
        <5>1. 0 < k + 1
          BY ONLY <3>1
        <5> QED BY <3>1, <3>3, <5>1 DEF ExtMoved
      <4> QED BY ONLY <1>2, <4>1 DEF SideRight
    <3> QED BY <3>2, <3>3
  <2> QED BY <2>1, <2>2
<1>4. g = RegChange(n, 0, size, z)
  BY DEF Changes
<1>7. /\ r = [n EXCEPT !.numbers = numbers, !.ext = ext, !.must = TRUE]
      /\ numbers = (IF z # 0 /\ size < n.viewTo /\ (n.numbers = NoNumber \/ n.numbers > 0)
                    THEN 0 ELSE n.numbers)
      /\ ext = ExtMoved(n.ext, 0, size, z)
  OBVIOUS
<1>5. /\ r \in ScreenStates /\ r.size = size /\ r.view = view /\ r.viewFrom = vf
      /\ r.viewTo = vt /\ r.drawn = n.drawn /\ r.ext = ext /\ r.must
      /\ r.rendered = s.rendered /\ Len(r.drawn) = Len(s.drawn)
  <2>1. Len(n.drawn) = Len(s.drawn)
    BY <1>0 DEF Updated
  <2>2. numbers \in Numbers
    BY <1>1
  <2> QED BY ONLY <1>1, <1>3, <2>1, <2>2, size = n.size, view = n.view,
                  r = [n EXCEPT !.numbers = numbers, !.ext = ext, !.must = TRUE]
              DEF ScreenStates
<1>6. InOrder(r)
  <2>1. InOrder(s) /\ Len(view) = Len(s.view)
        /\ \A i \in 1..Len(view) : view[i].node = s.view[i].node
    BY <1>0 DEF SoundScreen, Updated
  <2> QED BY ONLY <1>5, <2>1 DEF InOrder
<1>8. CASE 0 >= vt \/ (size <= vf /\ 0 < vt)
  <2>1. g = r
    <3> PICK p, q : p = vf + z /\ q = vt + z
      OBVIOUS
    <3>1. p = vf /\ q = vt
      BY ONLY <1>1, z = 0, p = vf + z, q = vt + z
    <3>2. r = [r EXCEPT !.viewFrom = vf, !.viewTo = vt]
      BY ONLY <1>5 DEF ScreenStates
    <3>3. CASE 0 >= vt
      BY <1>1, <1>4, <3>3 DEF RegChange
    <3>4. CASE ~(0 >= vt) /\ size <= vf
      <4>1. g = [r EXCEPT !.viewFrom = p, !.viewTo = q]
        BY ONLY ZenonT(60), <1>1, <1>4, <1>5, <1>7, <3>4, p = vf + z, q = vt + z DEF RegChange
      <4> QED BY ONLY <3>1, <3>2, <4>1
    <3> QED BY <1>1, <1>8, <3>3, <3>4
  <2>2. SoundScreen(g)
    BY ONLY <1>1, <1>3, <1>5, <1>6, <2>1 DEF SoundScreen
  <2>3. ASSUME vf < size PROVE Placed(g)
    <3>1. vf = 0 /\ vt = 0
      BY ONLY <1>1, <1>8, <2>3
    <3>2. Fits(view, vf, vt, g.drawn, g.numbers)
      <4> PICK drawn, wrong : drawn = g.drawn /\ wrong = g.numbers
        OBVIOUS
      <4>1. Len(view) = 0 /\ vf <= vt /\ vt - vf = 0
        BY ONLY <1>1, <3>1
      <4>2. Fits(view, vf, vt, drawn, wrong)
        BY ONLY <1>1, <4>1 DEF Fits, Sorted
      <4> QED BY <4>2
    <3> QED BY ONLY <1>1, <1>5, <2>1, <3>1, <3>2 DEF Placed
  <2> QED BY ONLY <1>5, <2>1, <2>2, <2>3
<1>9. CASE 0 < vt /\ vf < size /\ size >= vt
  <2> PICK none : none = <<>>
    OBVIOUS
  <2>0. none \in Seq(Entry) /\ Len(none) = 0
    BY EmptySeq
  <2>1. g = [r EXCEPT !.view = none, !.viewFrom = 0, !.viewTo = 0, !.rendered = FALSE]
    <3>1. ~(0 >= vt) /\ ~(size <= vf) /\ 0 <= vf
      BY ONLY <1>1, <1>9
    <3> QED BY <1>1, <1>4, <1>9, <3>1 DEF RegChange, ResetView
  <2>2. /\ g \in ScreenStates /\ g.view = none /\ g.viewFrom = 0 /\ g.viewTo = 0 /\ ~g.rendered
        /\ g.size = size /\ g.ext = ext /\ g.must
    BY ONLY <1>5, <2>0, <2>1 DEF ScreenStates
  <2>3. SoundScreen(g)
    BY ONLY <1>1, <1>3, <2>0, <2>2 DEF SoundScreen, InOrder
  <2>4. Fits(none, 0, 0, g.drawn, g.numbers)
    BY NoneFit
  <2>5. Placed(g)
    BY ONLY <1>1, <2>2, <2>4 DEF Placed
  <2> QED BY <2>2, <2>3, <2>5
<1>10. CASE 0 < vt /\ vf < size /\ size < vt
  <2> PICK below : below = Below(n, size)
    OBVIOUS
  <2> PICK b, p, q : b = size - vf /\ p = size + z /\ q = vt + z
    OBVIOUS
  <2>0. b \in Nat /\ b <= Len(view) /\ Len(view) \in b..Len(view) /\ Len(view) - b = vt - size
    BY ONLY <1>1, <1>10, b = size - vf
  <2>1. g = [r EXCEPT !.view = below, !.viewFrom = size, !.viewTo = vt, !.rendered = FALSE]
    <3>1. ~(0 >= vt) /\ ~(size <= vf) /\ 0 <= vf /\ ~(size >= vt)
      BY ONLY <1>1, <1>10
    <3>2. p = size /\ q = vt
      BY ONLY <1>1, z = 0, p = size + z, q = vt + z
    <3>3. g = [r EXCEPT !.view = below, !.viewFrom = p, !.viewTo = q, !.rendered = FALSE]
      <4>1. n.viewFrom = vf /\ n.viewTo = vt /\ r.viewTo = vt
        BY <1>1, <1>5
      <4> QED BY ONLY <1>4, <1>7, <3>1, <4>1, below = Below(n, size), p = size + z, q = vt + z
              DEF RegChange
    <3> QED BY ONLY <3>2, <3>3
  <2>2. below \in Seq(Entry) /\ Len(below) = vt - size
    <3>1. below = SubSeq(view, b + 1, Len(view))
      BY <1>1 DEF Below, IndexOf
    <3>2. b \in 0..Len(view)
      BY ONLY <1>1, <2>0
    <3>3. below \in Seq(Entry) /\ IsPart(below, view, b, Len(view))
      BY ONLY <1>1, <2>0, <3>1, <3>2, PartIs
    <3> QED BY ONLY <2>0, <3>3 DEF IsPart
  <2>3. /\ g \in ScreenStates /\ g.view = below /\ g.viewFrom = size /\ g.viewTo = vt
        /\ ~g.rendered /\ g.size = size /\ g.ext = ext /\ g.must
    BY ONLY <1>1, <1>5, <2>1, <2>2 DEF ScreenStates
  <2>4. SoundScreen(g)
    BY ONLY <1>1, <1>3, <1>10, <2>2, <2>3 DEF SoundScreen, InOrder
  <2>5. ~(g.viewFrom < g.size)
    BY ONLY <1>1, <2>3
  <2> QED BY <2>3, <2>4, <2>5
<1> QED BY <1>1, <1>8, <1>9, <1>10

\* No views are in place.
LEMMA ResetSound ==
  ASSUME NEW s, SoundScreen(s), NEW digits \in {1, 2},
         NEW g, g = [ResetView(s) EXCEPT !.digits = digits]
  PROVE  /\ SoundScreen(g) /\ Placed(g) /\ g.view = <<>> /\ g.size = s.size
         /\ g.must = s.must /\ g.force = s.force
<1> PICK none : none = <<>>
  OBVIOUS
<1>0. none \in Seq(Entry) /\ Len(none) = 0
  BY EmptySeq
<1>1. g = [s EXCEPT !.view = none, !.viewFrom = 0, !.viewTo = 0, !.rendered = FALSE,
                    !.digits = digits]
  BY DEF ResetView
<1>2. s \in ScreenStates /\ s.size >= 1 /\ SideRight(s.ext, s.size) /\ s.size \in Nat
  BY DEF SoundScreen, ScreenStates
<1>3. /\ g \in ScreenStates /\ g.view = none /\ g.viewFrom = 0 /\ g.viewTo = 0 /\ ~g.rendered
      /\ g.size = s.size /\ g.ext = s.ext /\ g.must = s.must /\ g.force = s.force
  BY ONLY <1>0, <1>1, <1>2, digits \in {1, 2} DEF ScreenStates
<1>4. SoundScreen(g)
  BY ONLY <1>0, <1>2, <1>3 DEF SoundScreen, InOrder
<1>5. Fits(none, 0, 0, g.drawn, g.numbers)
  BY NoneFit
<1>6. Placed(g)
  BY ONLY <1>2, <1>3, <1>5 DEF Placed
<1> QED BY <1>3, <1>4, <1>6

-----------------------------------------------------------------------------
(* Drawing. *)

\* What is drawn for line n, when it is right.
DrawnFor(n) == [current |-> TRUE, number |-> n]
\* The elements drawn are those of the views, each as its line is.
AsDrawn(s) ==
  s.view # <<>> => s.drawn = [i \in DOMAIN s.view |-> DrawnFor(s.viewFrom + i - 1)]

\* What is built on the side may be used for any line there is.
LEMMA ContentIs ==
  ASSUME NEW s, SoundScreen(s), NEW n \in Nat
  PROVE  Content(s, n) = TRUE
<1>1. SideRight(s.ext, s.size) /\ s.ext \in Sides
  BY DEF SoundScreen, ScreenStates
<1>2. s.ext.line = n => s.ext.current
  BY ONLY <1>1, n \in Nat DEF SideRight, NoView, Gone
<1> QED BY <1>2 DEF Content, SoundScreen, ScreenStates, Sides

\* When nothing was left to do, all is drawn.
LEMMA SettledDrawn ==
  ASSUME NEW s, SoundScreen(s), Placed(s), Settled(s)
  PROVE  AsDrawn(s)
<1> PICK view, drawn, from, to, numbers :
      /\ view = s.view /\ drawn = s.drawn /\ from = s.viewFrom /\ to = s.viewTo
      /\ numbers = s.numbers
  OBVIOUS
<1>0. /\ view \in Seq(Entry) /\ drawn \in Seq(Element) /\ from \in Nat /\ to \in Nat /\ from <= to
      /\ numbers \in Numbers /\ Len(view) = to - from /\ s.rendered
      /\ numbers = NoNumber \/ numbers >= to
      /\ Len(drawn) = Len(view) /\ \A i \in 1..Len(view) : view[i].node = i
  BY DEF SoundScreen, ScreenStates, InOrder, Settled
<1>1. /\ Len(view) \in Nat /\ DOMAIN view = 1..Len(view) /\ DOMAIN drawn = 1..Len(view)
      /\ drawn = [i \in 1..Len(view) |-> drawn[i]] /\ \A i \in 1..Len(view) : drawn[i] \in Element
  BY ONLY <1>0, LenProperties
<1>2. ASSUME NEW i \in 1..Len(view) PROVE drawn[i] = DrawnFor(from + i - 1)
  <2> PICK n : n = from + i - 1
    OBVIOUS
  <2>1. Shows(view[i], n, drawn, numbers)
    BY <1>0 DEF Placed, Fits
  <2>2. ~view[i].changed
    BY <1>1 DEF Settled, Dirty
  <2>3. i # 0 /\ n < to
    BY ONLY <1>0, n = from + i - 1, i \in 1..Len(view)
  <2>4. drawn[i].current /\ drawn[i].number = n
    <3>1. view[i].node = i
      BY <1>0
    <3>2. drawn[i].current /\ (drawn[i].number = n \/ (numbers # NoNumber /\ numbers <= n))
      BY ONLY <2>1, <2>2, <2>3, <3>1 DEF Shows
    <3>3. ~(numbers # NoNumber /\ numbers <= n)
      BY ONLY <1>0, <2>3, n = from + i - 1, i \in 1..Len(view) DEF Numbers, NoNumber
    <3> QED BY <3>2, <3>3
  <2>5. drawn[i] \in Element
    BY <1>1
  <2> QED BY ONLY <2>4, <2>5, n = from + i - 1 DEF Element, DrawnFor
<1>3. drawn = [i \in 1..Len(view) |-> DrawnFor(from + i - 1)]
  BY ONLY <1>1, <1>2
<1> QED BY <1>1, <1>3 DEF AsDrawn

\* What the rest of an update leaves as it is.
SameElse(g, s) == g.size = s.size /\ g.must = s.must /\ g.force = s.force

\* What is made for a view, and the view after that.
MadeFor(s, i) ==
  LET e == s.view[i]
      n == s.viewFrom + i - 1
      stale == s.numbers # NoNumber /\ s.numbers <= n
  IN  IF e.node = 0 THEN [current |-> Content(s, e.line), number |-> n]
      ELSE [current |-> IF e.changed THEN Content(s, e.line) ELSE s.drawn[e.node].current,
            number |-> IF stale THEN n ELSE s.drawn[e.node].number]
\* The view, once its element is made.
Renewed(s, i) == [s.view[i] EXCEPT !.node = i, !.changed = FALSE]

\* What is made for a view that fits is right, whether it is new or marked or not.
LEMMA MadeIs ==
  ASSUME NEW s, SoundScreen(s), NEW i, NEW n \in Nat, n = s.viewFrom + i - 1,
         Shows(s.view[i], n, s.drawn, s.numbers),
         \A k \in 1..Len(s.drawn) : s.drawn[k] \in Element
  PROVE  MadeFor(s, i) = DrawnFor(n)
<1> PICK e, old, numbers : e = s.view[i] /\ old = s.drawn /\ numbers = s.numbers
  OBVIOUS
<1>1. Shows(e, n, old, numbers)
  OBVIOUS
<1>2. Content(s, e.line) = TRUE
  <2>1. e.line = n
    BY ONLY <1>1 DEF Shows
  <2> QED BY <2>1, ContentIs
<1>3. CASE e.node = 0
  <2>1. MadeFor(s, i) = [current |-> Content(s, e.line), number |-> n]
    BY ONLY <1>3, e = s.view[i], n = s.viewFrom + i - 1 DEF MadeFor
  <2> QED BY ONLY <1>2, <2>1 DEF DrawnFor
<1>4. CASE e.node # 0
  <2> PICK q : q = e.node
    OBVIOUS
  <2>1. /\ q \in 0..Len(old) /\ (e.changed \/ old[q].current)
        /\ old[q].number = n \/ (numbers # NoNumber /\ numbers <= n)
    BY ONLY <1>1, <1>4, q = e.node DEF Shows
  <2>2. old[q].current \in BOOLEAN
    <3>1. Len(old) \in Nat
      BY LenProperties DEF SoundScreen, ScreenStates
    <3>2. q \in 1..Len(old)
      BY ONLY <1>4, <2>1, <3>1, q = e.node
    <3>3. old[q] \in Element
      BY <3>2
    <3> QED BY ONLY <3>3 DEF Element
  <2> PICK current : current = IF e.changed THEN Content(s, e.line) ELSE old[q].current
    OBVIOUS
  <2> PICK number : number = IF numbers # NoNumber /\ numbers <= n THEN n ELSE old[q].number
    OBVIOUS
  <2>3. MadeFor(s, i) = [current |-> current, number |-> number]
    BY ONLY <1>4, e = s.view[i], n = s.viewFrom + i - 1, old = s.drawn, numbers = s.numbers,
            q = e.node,
            current = IF e.changed THEN Content(s, e.line) ELSE old[q].current,
            number = IF numbers # NoNumber /\ numbers <= n THEN n ELSE old[q].number
       DEF MadeFor
  <2>4. current = TRUE
    BY ONLY <1>2, <2>1, <2>2,
            current = IF e.changed THEN Content(s, e.line) ELSE old[q].current
  <2>5. number = n
    BY ONLY <2>1, number = IF numbers # NoNumber /\ numbers <= n THEN n ELSE old[q].number
  <2> QED BY ONLY <2>3, <2>4, <2>5 DEF DrawnFor
<1> QED BY <1>3, <1>4

\* A view that was made keeps its line and is not marked.
LEMMA RenewedIs ==
  ASSUME NEW s, NEW i \in Nat, s.view[i] \in Entry
  PROVE  /\ Renewed(s, i) \in Entry /\ Renewed(s, i).node = i /\ ~Renewed(s, i).changed
         /\ Renewed(s, i).line = s.view[i].line
BY DEF Renewed, Entry

\* The elements are brought up to date.
LEMMA PatchedIs ==
  ASSUME NEW s, SoundScreen(s), Placed(s), NEW g, g = PatchDisplay(s)
  PROVE  SoundScreen(g) /\ Placed(g) /\ AsDrawn(g) /\ SameElse(g, s)
<1> PICK view, old, from, to, numbers :
      /\ view = s.view /\ old = s.drawn /\ from = s.viewFrom /\ to = s.viewTo
      /\ numbers = s.numbers
  OBVIOUS
<1> PICK len : len = Len(view)
  OBVIOUS
<1> PICK drawn : drawn = [i \in DOMAIN s.view |-> MadeFor(s, i)]
  OBVIOUS
<1> PICK v : v = [i \in DOMAIN s.view |-> Renewed(s, i)]
  OBVIOUS
<1> PICK ext : ext = IF \E i \in DOMAIN s.view : /\ s.view[i].line = s.ext.line
                                                 /\ s.view[i].node = 0 \/ s.view[i].changed
                     THEN NoView ELSE s.ext
  OBVIOUS
<1>0. /\ s \in ScreenStates /\ view \in Seq(Entry) /\ old \in Seq(Element) /\ from \in Nat
      /\ to \in Nat /\ from <= to /\ numbers \in Numbers /\ len = to - from /\ to <= s.size
      /\ s.size \in Nat /\ s.size >= 1
  BY DEF SoundScreen, ScreenStates, Placed
<1>1. /\ len \in Nat /\ DOMAIN view = 1..len /\ Len(old) \in Nat
      /\ \A i \in 1..len : view[i] \in Entry
      /\ \A k \in 1..Len(old) : old[k] \in Element
  <2>1. len \in Nat /\ DOMAIN view = 1..len /\ \A i \in 1..len : view[i] \in Entry
    BY ONLY <1>0, len = Len(view), PartsIn
  <2>2. Len(old) \in Nat /\ \A k \in 1..Len(old) : old[k] \in Element
    BY ONLY <1>0, PartsIn
  <2> QED BY ONLY <2>1, <2>2
<1>2. ASSUME NEW i \in 1..len
      PROVE  view[i].line = from + i - 1 /\ MadeFor(s, i) = DrawnFor(from + i - 1)
  <2>0. from + i - 1 \in Nat
    BY ONLY <1>0, i \in 1..len
  <2> PICK n \in Nat : n = from + i - 1
    BY <2>0
  <2>1. Shows(view[i], n, old, numbers)
    <3>1. Fits(view, from, to, old, numbers)
      BY DEF Placed
    <3> QED BY ONLY <1>0, <3>1, i \in 1..len, n = from + i - 1 DEF Fits
  <2>2. MadeFor(s, i) = DrawnFor(n)
    BY ONLY <1>1, <2>1, SoundScreen(s), n \in Nat, n = from + i - 1, view = s.view, old = s.drawn,
            numbers = s.numbers, from = s.viewFrom, MadeIs
  <2>3. view[i].line = n
    BY ONLY <2>1 DEF Shows
  <2> QED BY ONLY <2>2, <2>3, n = from + i - 1
<1>3. ASSUME NEW i \in 1..len
      PROVE  /\ Renewed(s, i) \in Entry /\ Renewed(s, i).node = i /\ ~Renewed(s, i).changed
             /\ Renewed(s, i).line = from + i - 1
  <2>1. s.view[i] \in Entry /\ i \in Nat /\ s.view[i].line = from + i - 1
    BY ONLY <1>1, <1>2, i \in 1..len, view = s.view
  <2> QED BY ONLY <2>1, RenewedIs
<1>4. g = [s EXCEPT !.drawn = drawn, !.view = v, !.ext = ext, !.rendered = TRUE,
                    !.numbers = NoNumber]
  BY Zenon DEF PatchDisplay, MadeFor, Renewed
<1>5. /\ drawn = [i \in 1..len |-> DrawnFor(from + i - 1)]
      /\ v = [i \in 1..len |-> Renewed(s, i)]
  BY <1>1, <1>2
<1>6. /\ drawn \in Seq(Element) /\ Len(drawn) = len
      /\ \A i \in 1..len : drawn[i] = DrawnFor(from + i - 1)
  <2>1. \A i \in 1..len : DrawnFor(from + i - 1) \in Element
    BY ONLY <1>0, <1>1 DEF DrawnFor, Element
  <2>2. drawn \in [1..len -> Element]
    BY ONLY <1>5, <2>1
  <2> QED BY ONLY <1>1, <1>5, <2>2, SequenceIs
<1>7. /\ v \in Seq(Entry) /\ Len(v) = len
      /\ \A i \in 1..len : v[i].node = i /\ v[i].line = from + i - 1
  <2>1. v \in [1..len -> Entry]
    BY ONLY <1>3, <1>5
  <2>2. v \in Seq(Entry) /\ Len(v) = len
    BY ONLY <1>1, <2>1, SequenceIs
  <2> QED BY ONLY <1>3, <1>5, <2>2
<1>8. ext \in Sides /\ SideRight(ext, s.size)
  <2>1. NoView \in Sides /\ SideRight(NoView, s.size)
    BY DEF NoView, Sides, Gone, SideRight
  <2>2. s.ext \in Sides /\ SideRight(s.ext, s.size)
    BY DEF SoundScreen, ScreenStates
  <2> QED BY <2>1, <2>2
<1>9. /\ g \in ScreenStates /\ g.size = s.size /\ g.view = v /\ g.viewFrom = from
      /\ g.viewTo = to /\ g.drawn = drawn /\ g.numbers = NoNumber /\ g.ext = ext
      /\ g.must = s.must /\ g.force = s.force
  <2>1. NoNumber \in Numbers
    BY DEF Numbers
  <2> QED BY ONLY <1>0, <1>4, <1>6, <1>7, <1>8, <2>1, from = s.viewFrom, to = s.viewTo
              DEF ScreenStates
<1>10. SoundScreen(g)
  BY ONLY <1>0, <1>6, <1>7, <1>8, <1>9 DEF SoundScreen, InOrder
<1>11. Fits(v, from, to, drawn, NoNumber)
  <2>1. Sorted(v)
    BY ONLY <1>7 DEF Sorted
  <2>2. ASSUME NEW i \in 1..to - from PROVE Shows(v[i], from + i - 1, drawn, NoNumber)
    <3>1. i \in 1..len /\ i \in 0..Len(drawn)
      BY ONLY <1>0, <1>6, i \in 1..to - from
    <3>2. drawn[i].current /\ drawn[i].number = from + i - 1
      BY ONLY <1>6, <3>1 DEF DrawnFor
    <3> QED BY ONLY <1>7, <3>1, <3>2 DEF Shows
  <2> QED BY ONLY <1>0, <1>7, <2>1, <2>2 DEF Fits
<1>12. Placed(g)
  BY ONLY <1>0, <1>9, <1>11 DEF Placed
<1>13. AsDrawn(g)
  <2>1. DOMAIN v = 1..len
    BY ONLY <1>7, LenProperties
  <2> QED BY ONLY <1>5, <1>9, <2>1 DEF AsDrawn
<1> QED BY <1>9, <1>10, <1>12, <1>13 DEF SameElse

\* The views are made those of the lines from up to to.
LEMMA AdjustedIs ==
  ASSUME NEW s, SoundScreen(s), NEW from \in Nat, NEW to \in Nat, from <= to, to <= s.size,
         Placed(s) \/ s.view = <<>> \/ to <= s.viewFrom,
         NEW g, g = AdjustView(s, from, to)
  PROVE  SoundScreen(g) /\ Placed(g) /\ SameElse(g, s)
<1> PICK view, vf, vt, drawn, numbers :
      /\ view = s.view /\ vf = s.viewFrom /\ vt = s.viewTo /\ drawn = s.drawn
      /\ numbers = s.numbers
  OBVIOUS
<1> DEFINE apart == view = <<>> \/ from >= vt \/ to <= vf
<1> DEFINE same == ~apart /\ from = vf /\ to = vt
<1>0. /\ s \in ScreenStates /\ s.size \in Nat /\ s.size >= 1
      /\ view \in Seq(Entry) /\ drawn \in Seq(Element) /\ vf \in Nat /\ vt \in Nat /\ vf <= vt
      /\ Len(view) = vt - vf /\ s.rendered \in BOOLEAN
      /\ SideRight(s.ext, s.size) /\ InOrder(s)
  BY DEF SoundScreen, ScreenStates
<1>1. ASSUME NEW v, Fits(v, from, to, drawn, numbers), NEW b \in BOOLEAN,
             b => s.rendered /\ v = view,
             g = [s EXCEPT !.view = v, !.viewFrom = from, !.viewTo = to, !.rendered = b]
      PROVE  SoundScreen(g) /\ Placed(g) /\ SameElse(g, s)
  <2>1. v \in Seq(Entry) /\ Len(v) = to - from
    BY <1>1 DEF Fits
  <2>2. /\ g \in ScreenStates /\ g.size = s.size /\ g.view = v /\ g.viewFrom = from
        /\ g.viewTo = to /\ g.drawn = drawn /\ g.numbers = numbers /\ g.ext = s.ext
        /\ (g.rendered <=> b) /\ g.must = s.must /\ g.force = s.force
    BY ONLY <1>0, <2>1, from \in Nat, to \in Nat, b \in BOOLEAN, drawn = s.drawn,
            numbers = s.numbers,
            g = [s EXCEPT !.view = v, !.viewFrom = from, !.viewTo = to, !.rendered = b]
       DEF ScreenStates
  <2>3. InOrder(g)
    BY ONLY <1>0, <1>1, <2>2, view = s.view, drawn = s.drawn DEF InOrder
  <2>4. SoundScreen(g)
    BY ONLY <1>0, <2>1, <2>2, <2>3, from <= to DEF SoundScreen
  <2>5. Placed(g)
    BY ONLY <1>1, <2>2, to <= s.size DEF Placed
  <2> QED BY ONLY <2>2, <2>4, <2>5 DEF SameElse
<1>2. CASE apart
  <2> PICK built : built = BuildView(from, to)
    OBVIOUS
  <2>1. Fits(built, from, to, drawn, numbers)
    BY ONLY <1>0, from \in Nat, to \in Nat, from <= to, built = BuildView(from, to), BuiltFits
  <2>2. g = [s EXCEPT !.view = built, !.viewFrom = from, !.viewTo = to, !.rendered = FALSE]
    BY <1>2 DEF AdjustView
  <2> QED BY <1>1, <2>1, <2>2
<1>3. CASE ~apart
  <2> PICK upper : upper = IF vf > from THEN BuildView(from, vf) \o view
                           ELSE IF vf < from THEN Below(s, from) ELSE view
    OBVIOUS
  <2> PICK both : both = IF vt < to THEN upper \o BuildView(vt, to)
                         ELSE IF vt > to THEN SubSeq(upper, 1, to - from) ELSE upper
    OBVIOUS
  <2>0. /\ Fits(view, vf, vt, drawn, numbers) /\ Sorted(view)
        /\ \A i \in 1..vt - vf : Shows(view[i], vf + i - 1, drawn, numbers)
    <3>1. Fits(view, vf, vt, drawn, numbers)
      BY <1>3 DEF Placed
    <3> QED BY ONLY <3>1 DEF Fits
  <2>1. ~(from >= vt) /\ ~(to <= vf)
    BY <1>3
  <2>2. Fits(upper, from, vt, drawn, numbers)
    <3>1. CASE vf > from
      <4> PICK built : built = BuildView(from, vf)
        OBVIOUS
      <4>1. from <= vf
        BY ONLY <1>0, <3>1, from \in Nat
      <4>2. /\ Fits(built, from, vf, drawn, numbers)
            /\ \A i \in 1..Len(built) : built[i].node = 0
        <5>1. vf \in Nat /\ drawn \in Seq(Element)
          BY ONLY <1>0
        <5>2. Fits(built, from, vf, drawn, numbers)
          BY ONLY <4>1, <5>1, from \in Nat, built = BuildView(from, vf), BuiltFits
        <5>3. \A i \in 1..Len(built) : built[i].node = 0
          BY ONLY <4>1, <5>1, from \in Nat, built = BuildView(from, vf), BuiltNew
        <5> QED BY ONLY <5>2, <5>3
      <4>3. ASSUME NEW i \in 1..Len(built), NEW j \in 1..Len(view)
            PROVE  built[i].node < view[j].node \/ built[i].node = 0 \/ view[j].node = 0
        BY ONLY <4>2, i \in 1..Len(built)
      <4>4. upper = built \o view
        BY <3>1
      <4>5. vf \in Nat /\ vt \in Nat
        BY <1>0
      <4> QED BY ONLY <2>0, <4>2, <4>3, <4>4, <4>5, from \in Nat, BothFit
    <3>2. CASE vf < from
      <4> PICK b, m : b = from - vf /\ m = vt - from
        OBVIOUS
      <4>1. b \in 0..Len(view) /\ m = Len(view) - b /\ from + m = vt /\ ~(vf > from)
        BY ONLY <1>0, <2>1, <3>2, from \in Nat, b = from - vf, m = vt - from
      <4>2. upper = SubSeq(view, b + 1, Len(view))
        <5>1. upper = Below(s, from)
          BY <3>2, <4>1
        <5> QED BY <5>1 DEF Below, IndexOf
      <4>3. ASSUME NEW i \in 1..m PROVE Shows(view[b + i], from + i - 1, drawn, numbers)
        <5>1. b + i \in 1..vt - vf /\ vf + (b + i) - 1 = from + i - 1
          BY ONLY <1>0, <2>1, <3>2, from \in Nat, b = from - vf, m = vt - from, i \in 1..m
        <5> QED BY ONLY <2>0, <5>1
      <4>4. Fits(upper, from, from + m, drawn, numbers)
        BY ONLY <1>0, <2>0, <4>1, <4>2, <4>3, from \in Nat, BelowFits
      <4> QED BY ONLY <4>1, <4>4
    <3>3. CASE ~(vf > from) /\ ~(vf < from)
      <4>1. upper = view /\ vf = from
        BY ONLY <1>0, <3>3, from \in Nat,
                upper = IF vf > from THEN BuildView(from, vf) \o view
                        ELSE IF vf < from THEN Below(s, from) ELSE view
      <4> QED BY ONLY <2>0, <4>1
    <3> QED BY <3>1, <3>2, <3>3
  <2>3. Fits(both, from, to, drawn, numbers)
    <3>0. upper \in Seq(Entry) /\ Len(upper) = vt - from /\ Sorted(upper)
          /\ \A i \in 1..vt - from : Shows(upper[i], from + i - 1, drawn, numbers)
      BY ONLY <2>2 DEF Fits
    <3>1. CASE vt < to
      <4> PICK built : built = BuildView(vt, to)
        OBVIOUS
      <4>1. vt <= to
        BY ONLY <1>0, <3>1, to \in Nat
      <4>2. /\ Fits(built, vt, to, drawn, numbers)
            /\ \A i \in 1..Len(built) : built[i].node = 0
        <5>1. vt \in Nat /\ drawn \in Seq(Element)
          BY ONLY <1>0
        <5>2. Fits(built, vt, to, drawn, numbers)
          BY ONLY <4>1, <5>1, to \in Nat, built = BuildView(vt, to), BuiltFits
        <5>3. \A i \in 1..Len(built) : built[i].node = 0
          BY ONLY ZenonT(60), <4>1, <5>1, to \in Nat, built = BuildView(vt, to), BuiltNew
        <5> QED BY ONLY <5>2, <5>3
      <4>3. ASSUME NEW i \in 1..Len(upper), NEW j \in 1..Len(built)
            PROVE  upper[i].node < built[j].node \/ upper[i].node = 0 \/ built[j].node = 0
        BY ONLY <4>2, j \in 1..Len(built)
      <4>4. both = upper \o built
        BY <3>1
      <4>5. vt \in Nat
        BY <1>0
      <4> QED BY ONLY <2>2, <4>2, <4>3, <4>4, <4>5, from \in Nat, to \in Nat, BothFit
    <3>2. CASE vt > to
      <4> PICK m : m = to - from
        OBVIOUS
      <4>1. m \in 0..Len(upper) /\ from + m = to /\ ~(vt < to)
        BY ONLY <1>0, <3>0, <3>2, from \in Nat, to \in Nat, from <= to, m = to - from
      <4>2. both = SubSeq(upper, 1, m)
        BY <3>2, <4>1
      <4>3. ASSUME NEW i \in 1..m PROVE Shows(upper[i], from + i - 1, drawn, numbers)
        <5>1. i \in 1..vt - from
          BY ONLY <1>0, <3>0, <4>1, from \in Nat, i \in 1..m
        <5> QED BY ONLY <3>0, <5>1
      <4>4. Fits(both, from, from + m, drawn, numbers)
        BY ONLY <3>0, <4>1, <4>2, <4>3, from \in Nat, AboveFits
      <4> QED BY ONLY <4>1, <4>4
    <3>3. CASE ~(vt < to) /\ ~(vt > to)
      <4>1. both = upper /\ vt = to
        BY ONLY <1>0, <3>3, to \in Nat,
                both = IF vt < to THEN upper \o BuildView(vt, to)
                       ELSE IF vt > to THEN SubSeq(upper, 1, to - from) ELSE upper
      <4> QED BY ONLY <2>2, <4>1
    <3> QED BY <3>1, <3>2, <3>3
  <2>4. same => both = view
    <3>1. ~(vf > vf) /\ ~(vf < vf) /\ ~(vt < vt) /\ ~(vt > vt)
      BY ONLY <1>0
    <3> QED BY ONLY <3>1, upper = IF vf > from THEN BuildView(from, vf) \o view
                                  ELSE IF vf < from THEN Below(s, from) ELSE view,
                    both = IF vt < to THEN upper \o BuildView(vt, to)
                           ELSE IF vt > to THEN SubSeq(upper, 1, to - from) ELSE upper
  <2> PICK b \in BOOLEAN : b = (s.rendered /\ same)
    BY <1>0
  <2>5. g = [s EXCEPT !.view = both, !.viewFrom = from, !.viewTo = to, !.rendered = b]
    BY <1>3 DEF AdjustView
  <2>6. b => s.rendered /\ both = view
    BY <2>4
  <2> HIDE DEF same, apart
  <2> QED BY ONLY <1>1, <2>3, <2>5, <2>6, b \in BOOLEAN
<1> QED BY <1>2, <1>3

\* The display is brought up to date, for a part of the document in sight.
LEMMA UpdatedDisplay ==
  ASSUME NEW s, SoundScreen(s), Placed(s) \/ s.size <= s.viewFrom, ViewAssumption,
         NEW top \in 0..s.size, NEW seen, seen = InSight(s, top), NEW force \in BOOLEAN,
         NEW g, g = UpdateDisplay(s, seen.from, seen.to, force),
         ~Placed(s) => top = 0
  PROVE  SoundScreen(g) /\ Placed(g) /\ AsDrawn(g) /\ SameElse(g, s)
<1> PICK size : size = s.size
  OBVIOUS
<1> PICK end : end = Most(Least(top + Window, size), top + 1)
  OBVIOUS
<1>0. /\ seen.from = top /\ seen.to = end /\ size \in Nat /\ size >= 1 /\ top \in Nat
      /\ top <= size /\ Window \in Nat /\ Margin \in Nat /\ s.viewFrom \in Nat /\ s.viewTo \in Nat
      /\ s.digits \in {1, 2}
  <2>1. size \in Nat /\ size >= 1 /\ s.viewFrom \in Nat /\ s.viewTo \in Nat /\ s.digits \in {1, 2}
    BY DEF SoundScreen, ScreenStates
  <2>2. Window \in Nat /\ Margin \in Nat
    BY DEF ViewAssumption
  <2> QED BY <2>1, <2>2 DEF InSight
<1>1. end \in Nat /\ end > top
  BY ONLY <1>0, end = Most(Least(top + Window, size), top + 1) DEF Most, Least
<1> PICK w : w = IF Digits(s) = s.digits THEN s ELSE [ResetView(s) EXCEPT !.digits = Digits(s)]
  OBVIOUS
<1> PICK from0, to0 : from0 = Most(top - Margin, 0) /\ to0 = Least(size, end + Margin)
  OBVIOUS
<1> PICK from : from = IF w.viewFrom < from0 /\ from0 - w.viewFrom < Slack THEN w.viewFrom
                       ELSE from0
  OBVIOUS
<1> PICK to : to = IF w.viewTo > to0 /\ w.viewTo - to0 < Slack THEN Least(size, w.viewTo) ELSE to0
  OBVIOUS
<1> PICK a : a = AdjustView(w, from, to)
  OBVIOUS
<1>2. /\ SoundScreen(w) /\ SameElse(w, s)
      /\ Placed(w) \/ w.view = <<>> \/ w.size <= w.viewFrom
  <2>1. Digits(s) \in {1, 2}
    BY DEF Digits
  <2>2. CASE Digits(s) = s.digits
    BY <2>2 DEF SameElse
  <2>3. CASE Digits(s) # s.digits
    <3>1. w = [ResetView(s) EXCEPT !.digits = Digits(s)]
      BY <2>3
    <3> PICK digits \in {1, 2} : digits = Digits(s)
      BY <2>1
    <3>2. w = [ResetView(s) EXCEPT !.digits = digits]
      BY <3>1
    <3>3. /\ SoundScreen(w) /\ Placed(w) /\ w.size = s.size
          /\ w.must = s.must /\ w.force = s.force
      BY ONLY SoundScreen(s), digits \in {1, 2}, <3>2, ResetSound
    <3> QED BY ONLY <3>3 DEF SameElse
  <2> QED BY <2>2, <2>3
<1>3. /\ from \in Nat /\ to \in Nat /\ from <= to /\ to <= size
      /\ w.viewFrom \in Nat /\ w.viewTo \in Nat
  <2> PICK f, t : f = w.viewFrom /\ t = w.viewTo
    OBVIOUS
  <2>1. f \in Nat /\ t \in Nat
    BY <1>2 DEF SoundScreen, ScreenStates
  <2>2. /\ from0 \in Nat /\ from0 <= top /\ to0 \in Nat /\ top <= to0 /\ to0 <= size
    BY ONLY <1>0, <1>1, from0 = Most(top - Margin, 0), to0 = Least(size, end + Margin)
       DEF Most, Least
  <2>3. from \in Nat /\ from <= from0
    BY ONLY <2>1, <2>2, f = w.viewFrom,
            from = IF w.viewFrom < from0 /\ from0 - w.viewFrom < Slack THEN w.viewFrom ELSE from0
  <2>4. to \in Nat /\ to0 <= to /\ to <= size
    BY ONLY <1>0, <2>1, <2>2, t = w.viewTo,
            to = IF w.viewTo > to0 /\ w.viewTo - to0 < Slack THEN Least(size, w.viewTo) ELSE to0
       DEF Least
  <2>5. from <= to
    BY ONLY <1>0, <2>2, <2>3, <2>4
  <2> QED BY <2>1, <2>3, <2>4, <2>5
<1>4. SoundScreen(a) /\ Placed(a) /\ SameElse(a, w)
  <2>1. w.size = size
    BY <1>2 DEF SameElse
  <2>2. w.size <= w.viewFrom => to <= w.viewFrom
    BY ONLY <1>0, <1>3, <2>1
  <2>3. SoundScreen(w) /\ to <= w.size /\ (Placed(w) \/ w.view = <<>> \/ to <= w.viewFrom)
    BY ONLY SMTT(30), <1>2, <1>3, <2>1, <2>2
  <2> QED BY ONLY <1>3, <2>3, a = AdjustView(w, from, to), AdjustedIs
<1>5. SameElse(a, s)
  BY <1>2, <1>4 DEF SameElse
<1>6. ~Placed(s) => ~(top >= s.viewFrom)
  BY <1>0
<1>7. \/ g = ResetView(s)
      \/ g = s /\ Settled(s) /\ top >= s.viewFrom
      \/ g = a /\ Settled(a)
      \/ g = PatchDisplay(a)
  BY <1>0 DEF UpdateDisplay
<1>8. CASE g = ResetView(s)
  <2>1. ResetView(s) = [ResetView(s) EXCEPT !.digits = s.digits]
    BY DEF ResetView, SoundScreen, ScreenStates
  <2>2. /\ SoundScreen(g) /\ Placed(g) /\ g.view = <<>> /\ g.size = s.size
        /\ g.must = s.must /\ g.force = s.force
    BY <1>0, <1>8, <2>1, ResetSound
  <2> QED BY <2>2 DEF AsDrawn, SameElse
<1>9. CASE g = s /\ Settled(s) /\ top >= s.viewFrom
  BY SMTT(30), <1>6, <1>9, SettledDrawn DEF SameElse
<1>10. CASE g = a /\ Settled(a)
  BY <1>4, <1>5, <1>10, SettledDrawn
<1>11. CASE g = PatchDisplay(a)
  <2>1. SoundScreen(g) /\ Placed(g) /\ AsDrawn(g) /\ SameElse(g, a)
    BY <1>4, <1>11, PatchedIs
  <2> QED BY ONLY <1>5, <2>1 DEF SameElse
<1> QED BY <1>7, <1>8, <1>9, <1>10, <1>11

-----------------------------------------------------------------------------
(* The measuring of a line. *)

\* An element made current.
Current(drawn, old, q) ==
  /\ drawn \in Seq(Element) /\ Len(drawn) = Len(old) /\ drawn[q].current
  /\ \A k \in 1..Len(old) : /\ drawn[k].number = old[k].number
                            /\ old[k].current => drawn[k].current

\* The assignment to one element does that.
LEMMA CurrentIs ==
  ASSUME NEW old \in Seq(Element), NEW q \in 1..Len(old),
         NEW drawn, drawn = [old EXCEPT ![q] = [old[q] EXCEPT !.current = TRUE]]
  PROVE  Current(drawn, old, q)
<1> PICK x : x = [old[q] EXCEPT !.current = TRUE]
  OBVIOUS
<1>0. /\ Len(old) \in Nat /\ DOMAIN old = 1..Len(old)
      /\ \A k \in 1..Len(old) : old[k] \in Element
  BY LenProperties
<1>1. x \in Element /\ x.current /\ x.number = old[q].number
  <2>1. old[q] \in Element
    BY <1>0
  <2> QED BY ONLY <2>1, x = [old[q] EXCEPT !.current = TRUE] DEF Element
<1>2. drawn = [k \in 1..Len(old) |-> IF k = q THEN x ELSE old[k]]
  BY <1>0
<1>3. drawn \in [1..Len(old) -> Element]
  BY ONLY <1>0, <1>1, <1>2
<1>4. drawn \in Seq(Element) /\ Len(drawn) = Len(old)
  BY ONLY <1>0, <1>3, SequenceIs
<1> QED BY ONLY <1>1, <1>2, <1>4, q \in 1..Len(old) DEF Current

\* A view is no longer marked, and its element is current.
LEMMA UnmarkedFits ==
  ASSUME NEW view, NEW old \in Seq(Element), NEW from \in Nat, NEW to \in Nat, NEW numbers,
         Fits(view, from, to, old, numbers), NEW p \in 1..Len(view), NEW q, q = view[p].node,
         NEW v, Marked(v, view, p, FALSE), NEW drawn, Current(drawn, old, q)
  PROVE  Fits(v, from, to, drawn, numbers)
<1>0. /\ view \in Seq(Entry) /\ Len(view) = to - from /\ from <= to /\ Sorted(view)
      /\ \A i \in 1..to - from : Shows(view[i], from + i - 1, old, numbers)
  BY DEF Fits
<1>1. /\ v \in Seq(Entry) /\ Len(v) = Len(view)
      /\ \A i \in 1..Len(view) : v[i].line = view[i].line /\ v[i].node = view[i].node
      /\ \A i \in 1..Len(view) : i # p => v[i].changed = view[i].changed
  BY DEF Marked
<1>2. /\ Len(drawn) = Len(old) /\ drawn[q].current /\ Len(old) \in Nat
      /\ \A k \in 1..Len(old) : /\ drawn[k].number = old[k].number
                                /\ old[k].current => drawn[k].current
  BY LenProperties DEF Current
<1>3. Sorted(v)
  BY ONLY <1>0, <1>1 DEF Sorted
<1>4. ASSUME NEW i \in 1..to - from PROVE Shows(v[i], from + i - 1, drawn, numbers)
  <2> PICK k : k = from + i - 1
    OBVIOUS
  <2> PICK e, f : e = view[i] /\ f = v[i]
    OBVIOUS
  <2>1. Shows(e, k, old, numbers) /\ i \in 1..Len(view)
    BY ONLY <1>0, i \in 1..to - from, e = view[i], k = from + i - 1
  <2>2. f.line = e.line /\ f.node = e.node /\ (i # p => f.changed = e.changed)
    BY ONLY <1>1, <2>1, e = view[i], f = v[i]
  <2>3. i = p => f.node = q
    BY ONLY <2>2, e = view[i], q = view[p].node
  <2>4. e.node # 0 => e.node \in 1..Len(old)
    <3>1. e.node \in 0..Len(old)
      BY ONLY <2>1 DEF Shows
    <3> QED BY ONLY <1>2, <3>1
  <2>5. f.node # 0 => f.changed \/ drawn[f.node].current
    BY ONLY <1>2, <2>1, <2>2, <2>3, <2>4 DEF Shows
  <2>6. f.node # 0 => drawn[f.node].number = old[f.node].number
    BY ONLY <1>2, <2>2, <2>4
  <2>7. Shows(f, k, drawn, numbers)
    BY ONLY <1>2, <2>1, <2>2, <2>5, <2>6 DEF Shows
  <2> QED BY ONLY <2>7, f = v[i], k = from + i - 1
<1> QED BY ONLY <1>0, <1>1, <1>3, <1>4 DEF Fits

\* The element of line n, which has the view p, is that of the line again.
Remade(s, p, n) ==
  [s EXCEPT !.view[p].changed = FALSE, !.force = TRUE,
            !.drawn[s.view[p].node].current = Content(s, n),
            !.ext = IF @.line = n THEN NoView ELSE @]

\* The element of a line measured is remade, and the views still fit.
LEMMA RemadeIs ==
  ASSUME NEW s, SoundScreen(s), Placed(s), NEW n \in Nat, n < s.size,
         NEW p, p \in 1..Len(s.view), p = n - s.viewFrom + 1, s.view[p].node # 0,
         NEW g, g = Remade(s, p, n)
  PROVE  SoundScreen(g) /\ Placed(g) /\ g.force /\ g.must = s.must
<1> PICK view, old, from, to, numbers, size :
      /\ view = s.view /\ old = s.drawn /\ from = s.viewFrom /\ to = s.viewTo
      /\ numbers = s.numbers /\ size = s.size
  OBVIOUS
<1>0. /\ view = s.view /\ old = s.drawn /\ from = s.viewFrom /\ to = s.viewTo
      /\ numbers = s.numbers /\ size = s.size
  OBVIOUS
<1> PICK q : q = view[p].node
  OBVIOUS
<1> PICK v : v = [view EXCEPT ![p] = [view[p] EXCEPT !.changed = FALSE]]
  OBVIOUS
<1> PICK drawn : drawn = [old EXCEPT ![q] = [old[q] EXCEPT !.current = TRUE]]
  OBVIOUS
<1> PICK ext : ext = IF s.ext.line = n THEN NoView ELSE s.ext
  OBVIOUS
<1>1. g = [s EXCEPT !.view = v, !.force = TRUE, !.drawn = drawn, !.ext = ext]
  <2>1. Content(s, n) = TRUE
    BY ContentIs
  <2> QED BY ZenonT(60), <2>1 DEF Remade
<1>2. /\ s \in ScreenStates /\ view \in Seq(Entry) /\ old \in Seq(Element) /\ from \in Nat
      /\ to \in Nat /\ from <= to /\ Len(view) = to - from /\ to <= size /\ size \in Nat
      /\ size >= 1 /\ p \in 1..Len(view) /\ q # 0
  BY ZenonT(60) DEF SoundScreen, ScreenStates, Placed
<1>3. Fits(view, from, to, old, numbers) /\ InOrder(s)
  BY Zenon DEF Placed, SoundScreen
<1>4. q \in 1..Len(old)
  <2>1. p \in 1..to - from /\ Len(old) \in Nat
    BY ONLY <1>2, LenProperties
  <2>2. q \in 0..Len(old)
    BY ONLY <1>3, <2>1, q = view[p].node DEF Fits, Shows
  <2> QED BY ONLY <1>2, <2>1, <2>2
<1>5. Marked(v, view, p, FALSE)
  BY ONLY <1>2, v = [view EXCEPT ![p] = [view[p] EXCEPT !.changed = FALSE]], MarkedIs
<1>6. Current(drawn, old, q)
  BY ONLY <1>2, <1>4, drawn = [old EXCEPT ![q] = [old[q] EXCEPT !.current = TRUE]], CurrentIs
<1>7. Fits(v, from, to, drawn, numbers)
  BY ONLY <1>2, <1>3, <1>5, <1>6, q = view[p].node, UnmarkedFits
<1>8. ext \in Sides /\ SideRight(ext, size)
  <2>1. s.ext \in Sides /\ SideRight(s.ext, size)
    BY Zenon DEF SoundScreen, ScreenStates
  <2> QED BY ONLY <2>1, NoSide, ext = IF s.ext.line = n THEN NoView ELSE s.ext
<1>9. v \in Seq(Entry) /\ drawn \in Seq(Element)
  BY ONLY <1>5, <1>6 DEF Marked, Current
<1>10. /\ g \in ScreenStates /\ g.size = size /\ g.view = v /\ g.viewFrom = from
       /\ g.viewTo = to /\ g.drawn = drawn /\ g.numbers = numbers /\ g.ext = ext
       /\ g.must = s.must /\ g.force /\ g.rendered = s.rendered
  <2>1. s \in ScreenStates /\ ext \in Sides
    BY ONLY <1>2, <1>8
  <2>2. g = [size |-> s.size, view |-> v, viewFrom |-> s.viewFrom, viewTo |-> s.viewTo,
             drawn |-> drawn, rendered |-> s.rendered, numbers |-> s.numbers,
             digits |-> s.digits, ext |-> ext, must |-> s.must, force |-> TRUE]
    BY ONLY <1>1, <2>1 DEF ScreenStates
  <2>3. g \in ScreenStates
    <3>1. /\ s.size \in Nat /\ s.viewFrom \in Nat /\ s.viewTo \in Nat
          /\ s.rendered \in BOOLEAN /\ s.numbers \in Numbers /\ s.digits \in {1, 2}
          /\ s.must \in BOOLEAN
      BY ONLY <2>1 DEF ScreenStates
    <3> QED BY ONLY <1>9, <2>1, <2>2, <3>1 DEF ScreenStates
  <2> QED BY ONLY <1>0, <2>2, <2>3
<1>11. Placed(g)
  BY ONLY ZenonT(60), <1>2, <1>7, <1>10 DEF Placed
<1>12. /\ Len(v) = Len(view) /\ Len(drawn) = Len(old)
       /\ \A i \in 1..Len(view) : v[i].node = view[i].node
  BY ONLY <1>5, <1>6 DEF Marked, Current
<1>13. InOrder(g)
  BY ONLY <1>0, <1>3, <1>10, <1>12 DEF InOrder
<1>14. SoundScreen(g)
  <2>1. g.size >= 1 /\ g.viewFrom <= g.viewTo /\ Len(g.view) = g.viewTo - g.viewFrom
    BY ONLY <1>2, <1>10, <1>12
  <2> QED BY ONLY <1>8, <1>10, <1>13, <2>1 DEF SoundScreen
<1> QED BY ONLY <1>10, <1>11, <1>14

-----------------------------------------------------------------------------
(* The invariant. *)

\* The views are in place but after the document was filled anew, until the
\* display was brought up to date; all is drawn unless it is noted that it is not.
ScreenInv ==
  /\ SoundScreen(screen)
  /\ steps # FillDone \/ screen.viewFrom < screen.size => Placed(screen)
  /\ ~screen.must /\ ~screen.force => AsDrawn(screen)
  /\ steps \in Nat
  /\ steps = 0 => ~screen.must /\ ~screen.force
  /\ steps = FillDone => screen.must

\* The editor begins with one empty line, and no view.
LEMMA ScreenInvInit == ViewInit => ScreenInv
<1> SUFFICES ASSUME ViewInit PROVE ScreenInv
  OBVIOUS
<1> PICK none : none = <<>>
  OBVIOUS
<1>0. none \in Seq(Entry) /\ none \in Seq(Element) /\ Len(none) = 0
  BY EmptySeq
<1>1. /\ NoView \in Sides /\ SideRight(NoView, 1) /\ NoNumber \in Numbers
  BY DEF NoView, Sides, Gone, SideRight, Numbers
<1>2. screen = [size |-> 1, view |-> none, viewFrom |-> 0, viewTo |-> 0,
                drawn |-> none, rendered |-> FALSE, numbers |-> NoNumber,
                digits |-> 1, ext |-> NoView, must |-> FALSE, force |-> FALSE]
  BY DEF ViewInit
<1>3. SoundScreen(screen)
  BY ONLY <1>0, <1>1, <1>2 DEF SoundScreen, ScreenStates, InOrder
<1>4. Fits(none, 0, 0, none, NoNumber)
  BY NoneFit
<1>5. Placed(screen)
  BY ONLY <1>2, <1>4 DEF Placed
<1>6. AsDrawn(screen) /\ ~screen.must /\ ~screen.force
  BY <1>2 DEF AsDrawn
<1>7. steps = 0 /\ FillDone # 0
  <2>1. MaxSteps \in Nat
    BY ViewAssumption DEF ViewAssumption
  <2> QED BY <2>1 DEF ViewInit, FillDone
<1> QED BY <1>3, <1>5, <1>6, <1>7 DEF ScreenInv

\* Every change, measurement, scroll and end of an operation keeps it.
LEMMA ScreenInvNext == ScreenInv /\ [ViewNext]_viewVars => ScreenInv'
<1> USE ViewAssumption
<1> SUFFICES ASSUME ScreenInv, [ViewNext]_viewVars PROVE ScreenInv'
  OBVIOUS
<1> PICK s, t : s = screen /\ t = screen'
  OBVIOUS
<1>0. /\ SoundScreen(s) /\ (steps # FillDone \/ s.viewFrom < s.size => Placed(s)) /\ steps \in Nat
      /\ ~s.must /\ ~s.force => AsDrawn(s)
      /\ steps = 0 => ~s.must /\ ~s.force
      /\ steps = FillDone => s.must
      /\ s.size \in Nat /\ s.size >= 1 /\ s.viewFrom \in Nat
      /\ s.must \in BOOLEAN /\ s.force \in BOOLEAN
  BY DEF ScreenInv, SoundScreen, ScreenStates
<1>1. MaxSteps \in Nat /\ FillDone = MaxSteps + 1 /\ FillDone # 0
  BY DEF ViewAssumption, FillDone
\* What is left to show, when the views are in place.
<1>2. ASSUME SoundScreen(t), Placed(t), ~t.must /\ ~t.force => AsDrawn(t),
             steps' \in Nat, steps' = 0 => ~t.must /\ ~t.force, steps' = FillDone => t.must
      PROVE  ScreenInv'
  BY <1>2 DEF ScreenInv
<1>3. ASSUME NEW c \in Edits, EditLines(c)
      PROVE  ScreenInv'
  <2>1. ChangeOf(s, c) /\ ~c.full
    <3>1. /\ c.from \in 0..s.size - 1 /\ c.to \in 0..s.size - 1 /\ c.count \in 1..MaxRows
          /\ c.whole \in BOOLEAN /\ ~c.full /\ c.from <= c.to
      BY DEF Edits
    <3>2. MaxRows \in Nat
      BY DEF ViewAssumption
    <3>3. /\ c.from \in Nat /\ c.to \in Nat /\ c.from <= c.to /\ c.to < s.size
          /\ c.count \in Nat /\ c.count >= 1
      <4> PICK from, to, count, size : /\ from = c.from /\ to = c.to /\ count = c.count
                                       /\ size = s.size
        OBVIOUS
      <4>1. /\ from \in 0..size - 1 /\ to \in 0..size - 1 /\ count \in 1..MaxRows
            /\ from <= to /\ size \in Nat
        BY <1>0, <3>1
      <4>2. /\ from \in Nat /\ to \in Nat /\ to < size /\ count \in Nat /\ count >= 1
        BY ONLY <3>2, <4>1
      <4> QED BY <4>1, <4>2
    <3> QED BY <3>1, <3>3 DEF ChangeOf
  <2>2. steps < MaxSteps /\ t = Changes(s, c) /\ steps' = steps + 1
    BY <1>3 DEF EditLines
  <2>3. steps # FillDone /\ steps' \in Nat /\ steps' # 0
    BY ONLY <1>0, <1>1, <2>2
  <2>4. SoundScreen(t) /\ Placed(t) /\ t.must
    BY <1>0, <2>1, <2>2, <2>3, ChangesFit
  <2> QED BY <1>2, <2>3, <2>4
<1>4. ASSUME NEW count \in 1..MaxRows, FillLines(count)
      PROVE  ScreenInv'
  <2> PICK c : c = [from |-> 0, to |-> s.size - 1, count |-> count, whole |-> FALSE,
                    full |-> TRUE]
    OBVIOUS
  <2>1. ChangeOf(s, c) /\ c.full /\ c.from = 0 /\ c.to = s.size - 1
    <3>1. count \in Nat /\ count >= 1
      BY DEF ViewAssumption
    <3> QED BY <1>0, <3>1 DEF ChangeOf
  <2>2. t = Changes(s, c) /\ steps' = FillDone
    BY <1>4 DEF FillLines
  <2>3. SoundScreen(t) /\ (t.viewFrom < t.size => Placed(t)) /\ t.must
    BY <1>0, <2>1, <2>2, FilledSound
  <2>4. steps' \in Nat /\ steps' # 0
    BY ONLY <1>1, <2>2
  <2> QED BY <2>2, <2>3, <2>4 DEF ScreenInv
<1>5. ASSUME NEW n \in 0..screen.size - 1, Measure(n)
      PROVE  ScreenInv'
  <2>0. steps < MaxSteps /\ steps' = steps + 1 /\ n \in Nat /\ n < s.size
    BY <1>0, <1>5 DEF Measure
  <2>1. steps # FillDone /\ steps' \in Nat /\ steps' # 0
    BY ONLY <1>0, <1>1, <2>0
  <2>2. Placed(s)
    BY <1>0, <2>1
  <2> PICK p : p = n - s.viewFrom + 1
    OBVIOUS
  <2>3. \/ /\ n \in s.viewFrom..s.viewTo - 1 /\ s.view[p].node # 0
           /\ t = Remade(s, p, n)
        \/ t = s
        \/ t = [s EXCEPT !.ext = [line |-> n, lineN |-> n, current |-> TRUE]]
    BY <1>5 DEF Measure, IndexOf, Remade
  <2>4. steps' # FillDone
    BY ONLY <1>0, <1>1, <2>0
  <2>5. CASE /\ n \in s.viewFrom..s.viewTo - 1 /\ s.view[p].node # 0
             /\ t = Remade(s, p, n)
    <3>1. p \in 1..Len(s.view)
      <4>1. Len(s.view) = s.viewTo - s.viewFrom /\ s.viewTo \in Nat
        BY <1>0 DEF SoundScreen, ScreenStates
      <4> QED BY ONLY SMTT(30), <1>0, <2>0, <2>5, <4>1, p = n - s.viewFrom + 1
    <3>2. SoundScreen(t) /\ Placed(t) /\ t.force
      BY ONLY <1>0, <2>0, <2>2, <2>5, <3>1, p = n - s.viewFrom + 1, RemadeIs
    <3> QED BY <1>2, <2>1, <2>4, <3>2
  <2>6. CASE t = s
    BY <1>0, <1>2, <2>1, <2>2, <2>4, <2>6
  <2>7. CASE t = [s EXCEPT !.ext = [line |-> n, lineN |-> n, current |-> TRUE]]
    <3> PICK ext : ext = [line |-> n, lineN |-> n, current |-> TRUE]
      OBVIOUS
    <3>1. ext \in Sides /\ SideRight(ext, s.size)
      BY ONLY <2>0, ext = [line |-> n, lineN |-> n, current |-> TRUE] DEF Sides, SideRight
    <3>2. s \in ScreenStates /\ InOrder(s) /\ s.viewFrom <= s.viewTo
          /\ Len(s.view) = s.viewTo - s.viewFrom
      BY <1>0 DEF SoundScreen
    <3>3. /\ t \in ScreenStates /\ t.size = s.size /\ t.view = s.view /\ t.viewFrom = s.viewFrom
          /\ t.viewTo = s.viewTo /\ t.drawn = s.drawn /\ t.numbers = s.numbers /\ t.ext = ext
          /\ t.must = s.must /\ t.force = s.force /\ t.rendered = s.rendered
      BY ONLY <2>7, <3>1, <3>2, ext = [line |-> n, lineN |-> n, current |-> TRUE]
         DEF ScreenStates
    <3>4. SoundScreen(t)
      BY ONLY <1>0, <3>1, <3>2, <3>3 DEF SoundScreen, InOrder
    <3>5. Placed(t)
      BY ONLY <2>2, <3>3 DEF Placed
    <3>6. AsDrawn(s) => AsDrawn(t)
      BY ONLY <3>3 DEF AsDrawn
    <3> QED BY <1>0, <1>2, <2>1, <2>4, <3>3, <3>4, <3>5, <3>6
  <2> QED BY <2>3, <2>5, <2>6, <2>7
\* When the display was brought up to date.
<1>6. ASSUME NEW top \in 0..s.size, NEW force \in BOOLEAN, steps = FillDone => top = 0,
             NEW seen, seen = InSight(s, top),
             NEW g, g = UpdateDisplay(s, seen.from, seen.to, force)
      PROVE  SoundScreen(g) /\ Placed(g) /\ AsDrawn(g) /\ SameElse(g, s)
  <2>1. ~Placed(s) => s.size <= s.viewFrom /\ top = 0
    <3>1. s.size <= s.viewFrom \/ s.viewFrom < s.size
      BY ONLY <1>0
    <3> QED BY <1>0, <1>6, <3>1
  <2> QED BY <1>0, <1>6, <2>1, UpdatedDisplay
<1>7. ASSUME NEW top \in 0..screen.size, EndOperation(top)
      PROVE  ScreenInv'
  <2> PICK seen : seen = InSight(s, top)
    OBVIOUS
  <2> PICK g : g = IF s.must \/ s.force
                   THEN UpdateDisplay(s, seen.from, seen.to, s.force) ELSE s
    OBVIOUS
  <2>1. (steps = FillDone => top = 0) /\ t = Finished(g) /\ steps' = 0
    BY <1>7 DEF EndOperation
  <2>2. SoundScreen(g) /\ Placed(g) /\ AsDrawn(g)
    <3>1. CASE s.must \/ s.force
      <4>1. g = UpdateDisplay(s, seen.from, seen.to, s.force)
        BY <3>1
      <4> QED BY <1>0, <1>6, <2>1, <4>1
    <3>2. CASE ~(s.must \/ s.force)
      BY <1>0, <3>2
    <3> QED BY <3>1, <3>2
  <2>3. t = [g EXCEPT !.must = FALSE, !.force = FALSE]
    BY <2>1 DEF Finished
  <2>4. g \in ScreenStates
    BY <2>2 DEF SoundScreen
  <2>5. /\ t \in ScreenStates /\ t.size = g.size /\ t.view = g.view /\ t.viewFrom = g.viewFrom
        /\ t.viewTo = g.viewTo /\ t.drawn = g.drawn /\ t.numbers = g.numbers /\ t.ext = g.ext
        /\ ~t.must /\ ~t.force /\ t.rendered = g.rendered
    BY ONLY <2>3, <2>4 DEF ScreenStates
  <2>6. SoundScreen(t)
    BY ONLY <2>2, <2>5 DEF SoundScreen, InOrder
  <2>7. Placed(t) /\ AsDrawn(t)
    BY ONLY <2>2, <2>5 DEF Placed, AsDrawn
  <2> QED BY <1>1, <1>2, <2>1, <2>5, <2>6, <2>7
<1>8. ASSUME NEW top \in 0..screen.size, Scroll(top)
      PROVE  ScreenInv'
  <2> PICK seen : seen = InSight(s, top)
    OBVIOUS
  <2>1. steps = 0 /\ steps' = 0 /\ t = UpdateDisplay(s, seen.from, seen.to, FALSE)
    BY <1>8 DEF Scroll
  <2>2. steps = FillDone => top = 0
    BY <1>1, <2>1
  <2>3. SoundScreen(t) /\ Placed(t) /\ AsDrawn(t) /\ SameElse(t, s)
    BY <1>6, <2>1, <2>2
  <2> QED BY <1>0, <1>1, <1>2, <2>1, <2>3 DEF SameElse
<1>9. CASE SwitchTab
  BY <1>9 DEF SwitchTab, ScreenInv, FillDone
<1>10. CASE UNCHANGED viewVars
  BY <1>10 DEF viewVars, ScreenInv, FillDone
<1> QED BY <1>3, <1>4, <1>5, <1>7, <1>8, <1>9, <1>10 DEF ViewNext

\* What DisplayFollows says is in the invariant.
LEMMA ScreenFollows == ScreenInv => DisplayFollows
<1> SUFFICES ASSUME ScreenInv PROVE DisplayFollows
  OBVIOUS
<1> PICK s : s = screen
  OBVIOUS
<1>0. SoundScreen(s) /\ (steps # FillDone \/ s.viewFrom < s.size => Placed(s))
      /\ (~s.must /\ ~s.force => AsDrawn(s)) /\ (steps = 0 => ~s.must /\ ~s.force)
  BY DEF ScreenInv
<1>1. ASSUME s.ext # NoView, s.ext.lineN < s.size
      PROVE  s.ext = [line |-> s.ext.lineN, lineN |-> s.ext.lineN, current |-> TRUE]
  <2> PICK x : x = s.ext
    OBVIOUS
  <2>1. x \in Sides /\ x.line = x.lineN /\ x.current
    BY <1>0, <1>1 DEF SoundScreen, ScreenStates, SideRight
  <2> QED BY ONLY <2>1, x = s.ext DEF Sides
<1>2. ASSUME s.viewFrom < s.size PROVE ViewsInPlace(s) /\ Noted(s)
  <2> PICK view, drawn, from, to, numbers :
        /\ view = s.view /\ drawn = s.drawn /\ from = s.viewFrom /\ to = s.viewTo
        /\ numbers = s.numbers
    OBVIOUS
  <2>0. /\ view \in Seq(Entry) /\ from \in Nat /\ to \in Nat /\ Len(view) = to - from
        /\ to <= s.size
    BY <1>0, <1>2 DEF SoundScreen, ScreenStates, Placed
  <2>1. Fits(view, from, to, drawn, numbers)
    BY <1>0, <1>2 DEF Placed
  <2>2. /\ DOMAIN view = 1..to - from /\ Sorted(view)
        /\ \A i \in 1..to - from : Shows(view[i], from + i - 1, drawn, numbers)
    BY ONLY <2>0, <2>1, LenProperties DEF Fits
  <2>3. ASSUME NEW i \in DOMAIN view
        PROVE  /\ view[i].line = from + i - 1 /\ view[i].node \in 0..Len(drawn)
               /\ view[i].node # 0 =>
                    /\ view[i].changed \/ drawn[view[i].node].current
                    /\ drawn[view[i].node].number = from + i - 1
                         \/ (numbers # NoNumber /\ numbers <= from + i - 1)
    BY ONLY <2>2, i \in DOMAIN view DEF Shows
  <2>4. ASSUME NEW i \in DOMAIN view, NEW j \in 1..i - 1
        PROVE  view[j].node < view[i].node \/ view[i].node = 0 \/ view[j].node = 0
    <3>1. i \in 1..Len(view) /\ j \in 1..Len(view) /\ j < i
      BY ONLY <2>0, <2>2, i \in DOMAIN view, j \in 1..i - 1
    <3> QED BY ONLY <2>2, <3>1 DEF Sorted
  <2>5. ViewsInPlace(s)
    BY <2>0, <2>3, <2>4 DEF ViewsInPlace
  <2>6. Noted(s)
    BY <2>3 DEF Noted
  <2> QED BY <2>5, <2>6
<1>3. ASSUME steps = 0, s.view # <<>>
      PROVE  s.drawn = [i \in DOMAIN s.view |-> [current |-> TRUE, number |-> s.viewFrom + i - 1]]
  BY <1>0, <1>3 DEF AsDrawn, DrawnFor
<1> QED BY <1>1, <1>2, <1>3 DEF DisplayFollows

(***************************************************************************)
(* Nothing that is out of date on the screen goes unnoted, and when no     *)
(* operation runs all elements are those of the lines they are drawn for.  *)
(***************************************************************************)
THEOREM DisplayDoesFollow == ViewSpec => []DisplayFollows
<1>1. ScreenInv => DisplayFollows
  BY ScreenFollows
<1> QED BY <1>1, ScreenInvInit, ScreenInvNext, PTL DEF ViewSpec
=============================================================================
