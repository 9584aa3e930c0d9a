-------------------------- MODULE ClientPoolProofs --------------------------
(***************************************************************************)
(* Proofs, for every number of threads, pools and clients and every size   *)
(* of the pools, that no client is shared and no slot is lost or invented. *)
(***************************************************************************)
EXTENDS ClientPool, FiniteSetTheorems, SequenceTheorems, TLAPS

\* What a pool counts covers what it has lent, keeps and opens, exactly so
\* when its factory throws, and stays within its size.
Counted ==
  \A p \in Pools : /\ InUse(p) <= count[p]
                   /\ p \notin Quiet => count[p] = InUse(p)
                   /\ count[p] <= MaxTotal[p]

IInv == TypeOK /\ Exclusive /\ Counted

-----------------------------------------------------------------------------
\* Lending c to t adds it to the clients of p that are held, and to no others.
LEMMA HeldPush ==
  ASSUME TypeOK, NEW t \in Threads, NEW p \in Pools,
         NEW c \in Clients \union {Null}, Acquired(t, p, c)
  PROVE  \A q \in Pools :
           Held(q)' = IF q = p /\ c # Null THEN Held(q) \union {c} ELSE Held(q)
<1> DEFINE f == [pool |-> p, client |-> c]
<1>1. /\ frames[t] \in Seq(Frame) /\ Len(frames[t]) \in Nat
      /\ frames'[t] = Append(frames[t], f)
      /\ \A u \in Threads \ {t} : frames'[u] = frames[u]
  BY DEF TypeOK, Acquired
<1>2. /\ DOMAIN frames[t] = 1..Len(frames[t])
      /\ DOMAIN frames'[t] = 1..(Len(frames[t]) + 1)
      /\ \A i \in DOMAIN frames[t] : frames'[t][i] = frames[t][i]
      /\ frames'[t][Len(frames[t]) + 1] = f
  BY <1>1
<1>3. SUFFICES ASSUME NEW q \in Pools, NEW d \in Clients
               PROVE  d \in Held(q)' <=> d \in Held(q) \/ (q = p /\ d = c)
  BY PoolAssumption DEF Held
<1>4. ASSUME d \in Held(q)'
      PROVE  d \in Held(q) \/ (q = p /\ d = c)
  <2>1. PICK u \in Threads : \E i \in DOMAIN frames'[u] :
               frames'[u][i] = [pool |-> q, client |-> d]
    BY <1>4 DEF Held
  <2>2. PICK i \in DOMAIN frames'[u] : frames'[u][i] = [pool |-> q, client |-> d]
    BY <2>1
  <2>3. CASE u # t
    BY <2>2, <2>3, <1>1 DEF Held
  <2>4. CASE u = t /\ i = Len(frames[t]) + 1
    BY <2>2, <2>4, <1>2
  <2>5. CASE u = t /\ i # Len(frames[t]) + 1
    BY <2>2, <2>5, <1>1, <1>2 DEF Held
  <2> QED BY <2>3, <2>4, <2>5
<1>5. ASSUME d \in Held(q)
      PROVE  d \in Held(q)'
  <2>1. PICK u \in Threads : \E i \in DOMAIN frames[u] :
               frames[u][i] = [pool |-> q, client |-> d]
    BY <1>5 DEF Held
  <2>2. PICK i \in DOMAIN frames[u] : frames[u][i] = [pool |-> q, client |-> d]
    BY <2>1
  <2>3. i \in DOMAIN frames'[u] /\ frames'[u][i] = frames[u][i]
    BY <2>2, <1>1, <1>2
  <2> QED BY <2>2, <2>3 DEF Held
<1>6. ASSUME q = p, d = c
      PROVE  d \in Held(q)'
  <2>1. Len(frames[t]) + 1 \in DOMAIN frames'[t]
    BY <1>1, <1>2
  <2> QED BY <2>1, <1>2, <1>6 DEF Held
<1> QED BY <1>4, <1>5, <1>6

\* Lending a client nobody has keeps every client with one holder.
LEMMA HeldOncePush ==
  ASSUME TypeOK, HeldOnce, NEW t \in Threads, NEW p \in Pools,
         NEW c \in Clients \union {Null}, Acquired(t, p, c),
         \A q \in Pools : c \notin Held(q)
  PROVE  HeldOnce'
<1> DEFINE f == [pool |-> p, client |-> c]
<1>1. /\ frames[t] \in Seq(Frame) /\ Len(frames[t]) \in Nat
      /\ frames'[t] = Append(frames[t], f)
      /\ \A u \in Threads \ {t} : frames'[u] = frames[u]
  BY DEF TypeOK, Acquired
<1>2. /\ DOMAIN frames[t] = 1..Len(frames[t])
      /\ DOMAIN frames'[t] = 1..(Len(frames[t]) + 1)
      /\ \A i \in DOMAIN frames[t] : frames'[t][i] = frames[t][i]
      /\ frames'[t][Len(frames[t]) + 1] = f
  BY <1>1
<1> DEFINE new(u, i) == u = t /\ i = Len(frames[t]) + 1
<1>3. ASSUME NEW u \in Threads, NEW i \in DOMAIN frames'[u], ~new(u, i)
      PROVE  i \in DOMAIN frames[u] /\ frames'[u][i] = frames[u][i]
  BY <1>1, <1>2, <1>3
<1>4. ASSUME NEW u \in Threads, NEW i \in DOMAIN frames[u], c # Null
      PROVE  frames[u][i].client # c
  <2>1. frames[u] \in Seq(Frame) /\ frames[u][i] \in Frame
    BY <1>4 DEF TypeOK
  <2>2. frames[u][i] = [pool |-> frames[u][i].pool, client |-> frames[u][i].client]
    BY <2>1 DEF Frame
  <2>3. frames[u][i].pool \in Pools
    BY <2>1 DEF Frame
  <2> QED BY <1>4, <2>2, <2>3 DEF Held
<1>5. SUFFICES ASSUME NEW t1 \in Threads, NEW t2 \in Threads,
                      NEW i \in DOMAIN frames'[t1], NEW j \in DOMAIN frames'[t2],
                      frames'[t1][i].client = frames'[t2][j].client,
                      frames'[t1][i].client # Null
               PROVE  t1 = t2 /\ i = j
  BY DEF HeldOnce
<1>6. CASE ~new(t1, i) /\ ~new(t2, j)
  BY <1>3, <1>5, <1>6 DEF HeldOnce
<1>7. CASE new(t1, i) /\ ~new(t2, j)
  BY <1>2, <1>3, <1>4, <1>5, <1>7
<1>8. CASE ~new(t1, i) /\ new(t2, j)
  BY <1>2, <1>3, <1>4, <1>5, <1>8
<1>9. CASE new(t1, i) /\ new(t2, j)
  BY <1>9
<1> QED BY <1>6, <1>7, <1>8, <1>9

\* What Release does to the calls a thread is in.
Popped(t) == frames' = [frames EXCEPT ![t] = SubSeq(@, 1, Depth(t) - 1)]

\* Ending a call takes its client, and no other, from the clients held.
LEMMA HeldPop ==
  ASSUME TypeOK, HeldOnce, NEW t \in Threads, Depth(t) > 0, Popped(t)
  PROVE  /\ Top(t) \in Frame
         /\ Top(t).client # Null => Top(t).client \in Held(Top(t).pool)
         /\ \A q \in Pools : Held(q)' =
              IF q = Top(t).pool THEN Held(q) \ {Top(t).client} ELSE Held(q)
         /\ HeldOnce'
         /\ frames' \in [Threads -> Seq(Frame)] /\ Depth(t)' = Depth(t) - 1
         /\ \A u \in Threads \ {t} : frames'[u] = frames[u]
<1> DEFINE n == Len(frames[t])
<1>1. /\ frames[t] \in Seq(Frame) /\ n \in Nat /\ n > 0
      /\ DOMAIN frames[t] = 1..n
      /\ \A u \in Threads \ {t} : frames'[u] = frames[u]
  BY DEF TypeOK, Depth, Popped
<1>2. /\ DOMAIN frames'[t] = 1..(n - 1)
      /\ frames'[t] \in Seq(Frame) /\ Len(frames'[t]) = n - 1
      /\ \A i \in 1..(n - 1) : frames'[t][i] = frames[t][i]
  <2>1. \A i \in 1..(n - 1) : frames[t][i] \in Frame
    BY <1>1
  <2>2. /\ SubSeq(frames[t], 1, n - 1) \in Seq(Frame)
        /\ Len(SubSeq(frames[t], 1, n - 1)) = n - 1
        /\ \A i \in 1..(n - 1) : SubSeq(frames[t], 1, n - 1)[i] = frames[t][i]
    BY <1>1, <2>1, SubSeqProperties
  <2>3. frames'[t] = SubSeq(frames[t], 1, n - 1)
    BY DEF TypeOK, Depth, Popped
  <2>4. /\ frames'[t] \in Seq(Frame) /\ Len(frames'[t]) = n - 1
        /\ \A i \in 1..(n - 1) : frames'[t][i] = frames[t][i]
    BY <2>2, <2>3, Zenon
  <2> QED BY <1>1, <2>4
<1>3. Top(t) = frames[t][n] /\ Top(t) \in Frame /\ n \in DOMAIN frames[t]
  BY <1>1 DEF Top, Depth
<1>4. Top(t) = [pool |-> Top(t).pool, client |-> Top(t).client]
      /\ Top(t).pool \in Pools /\ Top(t).client \in Clients \union {Null}
  BY <1>3 DEF Frame
<1>5. Top(t).client # Null => Top(t).client \in Held(Top(t).pool)
  BY <1>3, <1>4 DEF Held
<1>6. ASSUME NEW u \in Threads, NEW i \in DOMAIN frames'[u]
      PROVE  i \in DOMAIN frames[u] /\ frames'[u][i] = frames[u][i]
             /\ ~(u = t /\ i = n)
  BY <1>1, <1>2
<1>7. HeldOnce'
  <2>1. SUFFICES ASSUME NEW t1 \in Threads, NEW t2 \in Threads,
                        NEW i \in DOMAIN frames'[t1], NEW j \in DOMAIN frames'[t2],
                        frames'[t1][i].client = frames'[t2][j].client,
                        frames'[t1][i].client # Null
                 PROVE  t1 = t2 /\ i = j
    BY DEF HeldOnce
  <2>2. /\ i \in DOMAIN frames[t1] /\ frames'[t1][i] = frames[t1][i]
        /\ j \in DOMAIN frames[t2] /\ frames'[t2][j] = frames[t2][j]
    BY <1>6
  <2> QED BY <2>1, <2>2 DEF HeldOnce
<1>8. ASSUME NEW q \in Pools
      PROVE  Held(q)' = IF q = Top(t).pool THEN Held(q) \ {Top(t).client} ELSE Held(q)
  <2>1. SUFFICES ASSUME NEW d \in Clients
                 PROVE  d \in Held(q)' <=>
                        d \in Held(q) /\ ~(q = Top(t).pool /\ d = Top(t).client)
    BY DEF Held
  <2>2. ASSUME d \in Held(q)'
        PROVE  d \in Held(q) /\ ~(q = Top(t).pool /\ d = Top(t).client)
    <3>1. PICK u \in Threads : \E i \in DOMAIN frames'[u] :
                 frames'[u][i] = [pool |-> q, client |-> d]
      BY <2>2 DEF Held
    <3>2. PICK i \in DOMAIN frames'[u] : frames'[u][i] = [pool |-> q, client |-> d]
      BY <3>1
    <3>3. i \in DOMAIN frames[u] /\ frames[u][i] = [pool |-> q, client |-> d]
          /\ ~(u = t /\ i = n)
      BY <3>2, <1>6
    <3>4. /\ frames[u][i].client = frames[t][n].client
          /\ frames[u][i].client # Null
          => u = t /\ i = n
      BY <3>3, <1>3 DEF HeldOnce
    <3>5. d # Top(t).client
      BY <3>3, <3>4, <1>3, PoolAssumption
    <3> QED BY <3>3, <3>5 DEF Held
  <2>3. ASSUME d \in Held(q), ~(q = Top(t).pool /\ d = Top(t).client)
        PROVE  d \in Held(q)'
    <3>1. PICK u \in Threads : \E i \in DOMAIN frames[u] :
                 frames[u][i] = [pool |-> q, client |-> d]
      BY <2>3 DEF Held
    <3>2. PICK i \in DOMAIN frames[u] : frames[u][i] = [pool |-> q, client |-> d]
      BY <3>1
    <3>3. ~(u = t /\ i = n)
      BY <3>2, <2>3, <1>3
    <3>4. i \in DOMAIN frames'[u] /\ frames'[u][i] = frames[u][i]
      BY <3>2, <3>3, <1>1, <1>2
    <3> QED BY <3>2, <3>4 DEF Held
  <2> QED BY <2>2, <2>3
<1>9. /\ frames' \in [Threads -> Seq(Frame)] /\ Depth(t)' = Depth(t) - 1
      /\ \A u \in Threads \ {t} : frames'[u] = frames[u]
  <2>1. frames' = [frames EXCEPT ![t] = frames'[t]]
    BY DEF TypeOK, Popped
  <2> QED BY <1>1, <1>2, <2>1 DEF TypeOK, Depth
<1> QED BY <1>3, <1>5, <1>7, <1>8, <1>9

\* The three kinds of use of a pool are finite sets.
LEMMA UsesFinite ==
  ASSUME TypeOK, NEW p \in Pools
  PROVE  /\ IsFiniteSet(idle[p]) /\ IsFiniteSet(Held(p)) /\ IsFiniteSet(Makers(p))
         /\ Cardinality(idle[p]) \in Nat /\ Cardinality(Held(p)) \in Nat
         /\ Cardinality(Makers(p)) \in Nat
<1>1. idle[p] \subseteq Clients /\ Held(p) \subseteq Clients /\ Makers(p) \subseteq Threads
  BY DEF TypeOK, Held, Makers
<1>2. IsFiniteSet(idle[p]) /\ IsFiniteSet(Held(p)) /\ IsFiniteSet(Makers(p))
  BY <1>1, PoolAssumption, FS_Subset
<1> QED BY <1>2, FS_CardinalityType

\* A lent frame keeps the types; its thread is back in a callback.
LEMMA AcquiredType ==
  ASSUME TypeOK, NEW t \in Threads, NEW p \in Pools,
         NEW c \in Clients \union {Null}, Acquired(t, p, c),
         at[t] \in {"borrow", "make"}
  PROVE  /\ frames' \in [Threads -> Seq(Frame)]
         /\ at' \in [Threads -> {"run", "borrow", "make", "unwind"}]
         /\ want' \in [Threads -> Pools \union {NoPool}]
         /\ (\A u \in Threads : WellPhased(u))'
<1>1. /\ [pool |-> p, client |-> c] \in Frame
      /\ frames[t] \in Seq(Frame) /\ Len(frames[t]) \in Nat
      /\ Len(frames[t]) < MaxDepth /\ MaxDepth \in Nat
  <2>1. [pool |-> p, client |-> c] \in Frame
    BY DEF Frame
  <2>2. frames[t] \in Seq(Frame) /\ WellPhased(t)
    BY DEF TypeOK
  <2> QED BY <2>1, <2>2, PoolAssumption DEF WellPhased, Depth
<1>2. /\ frames' \in [Threads -> Seq(Frame)]
      /\ Len(frames'[t]) = Len(frames[t]) + 1
      /\ \A u \in Threads \ {t} : frames'[u] = frames[u]
  BY <1>1 DEF TypeOK, Acquired
<1>3. /\ at' \in [Threads -> {"run", "borrow", "make", "unwind"}]
      /\ want' \in [Threads -> Pools \union {NoPool}]
      /\ at'[t] = "run" /\ want'[t] = NoPool
      /\ \A u \in Threads \ {t} : at'[u] = at[u] /\ want'[u] = want[u]
  BY DEF TypeOK, Acquired
<1>4. ASSUME NEW u \in Threads
      PROVE  WellPhased(u)'
  <2>1. CASE u = t
    BY <1>1, <1>2, <1>3, <2>1 DEF WellPhased, Depth
  <2>2. CASE u # t
    <3>1. WellPhased(u) /\ frames'[u] = frames[u] /\ at'[u] = at[u] /\ want'[u] = want[u]
      BY <1>2, <1>3, <2>2 DEF TypeOK
    <3> QED BY <3>1 DEF WellPhased, Depth
  <2> QED BY <2>1, <2>2
<1> QED BY <1>2, <1>3, <1>4

\* A thread that has got its answer opens no client.
LEMMA MakersLeave ==
  ASSUME TypeOK, NEW t \in Threads, NEW p \in Pools, NEW c, Acquired(t, p, c)
  PROVE  \A q \in Pools : Makers(q)' = Makers(q) \ {t}
<1>1. /\ at'[t] = "run"
      /\ \A u \in Threads \ {t} : at'[u] = at[u] /\ want'[u] = want[u]
  BY DEF TypeOK, Acquired
<1> QED BY <1>1 DEF Makers

-----------------------------------------------------------------------------
\* Lending an idle client moves it from one kind of use to another.
LEMMA BorrowIdleStep ==
  ASSUME IInv, NEW t \in Threads, NEW p \in Pools, BorrowIdle(t, p)
  PROVE  IInv'
<1>0. TypeOK /\ HeldOnce /\ IdleIsFree /\ Counted
  BY DEF IInv, Exclusive
<1>1. PICK c \in idle[p] : /\ idle' = [idle EXCEPT ![p] = @ \ {c}]
                           /\ Acquired(t, p, c)
  BY DEF BorrowIdle
<1>2. /\ at[t] = "borrow" /\ c \in Clients /\ c # Null
      /\ up' = up /\ count' = count
  BY <1>0, PoolAssumption DEF BorrowIdle, Borrow, TypeOK
<1>3. \A q \in Pools : c \notin Held(q)
  BY <1>0 DEF IdleIsFree
<1>4. \A q \in Pools : Held(q)' = IF q = p THEN Held(q) \union {c} ELSE Held(q)
  BY <1>0, <1>1, <1>2, HeldPush
<1>5. \A q \in Pools : Makers(q)' = Makers(q)
  <2>1. \A q \in Pools : Makers(q)' = Makers(q) \ {t}
    BY <1>0, <1>1, MakersLeave
  <2> QED BY <1>2, <2>1 DEF Makers
<1>6. \A q \in Pools : idle'[q] = IF q = p THEN idle[q] \ {c} ELSE idle[q]
  BY <1>0, <1>1 DEF TypeOK
<1>7. TypeOK'
  <2>1. idle' \in [Pools -> SUBSET Clients]
    BY <1>0, <1>1 DEF TypeOK
  <2>2. at[t] \in {"borrow", "make"} /\ c \in Clients \union {Null}
    BY <1>2
  <2> QED BY <1>0, <1>1, <1>2, <2>1, <2>2, AcquiredType DEF TypeOK
<1>8. HeldOnce'
  BY <1>0, <1>1, <1>2, <1>3, HeldOncePush
<1>9. IdleIsFree'
  <2>1. SUFFICES ASSUME NEW r \in Pools, NEW q \in Pools, NEW d \in idle'[r]
                 PROVE  d \notin Held(q)' /\ (d \in idle'[q] => r = q)
    BY DEF IdleIsFree
  <2>2. d \in idle[r] /\ (d \in idle'[q] => d \in idle[q]) /\ d # c
    BY <1>0, <1>1, <1>6, <2>1 DEF IdleIsFree
  <2> QED BY <1>0, <1>4, <2>1, <2>2 DEF IdleIsFree
<1>10. ASSUME NEW q \in Pools
       PROVE  InUse(q)' = InUse(q)
  <2>1. CASE q = p
    <3>1. /\ Cardinality(idle[p] \ {c}) = Cardinality(idle[p]) - 1
          /\ Cardinality(Held(p) \union {c}) = Cardinality(Held(p)) + 1
      BY <1>0, <1>1, <1>3, UsesFinite, FS_RemoveElement, FS_AddElement
    <3>2. /\ Cardinality(idle[p]) \in Nat /\ Cardinality(Held(p)) \in Nat
          /\ Cardinality(Makers(p)) \in Nat
      BY <1>0, UsesFinite
    <3>3. /\ idle'[p] = idle[p] \ {c} /\ Held(p)' = Held(p) \union {c}
          /\ Makers(p)' = Makers(p)
      BY <1>4, <1>5, <1>6
    <3> QED BY <2>1, <3>1, <3>2, <3>3 DEF InUse
  <2>2. CASE q # p
    BY <1>4, <1>5, <1>6, <2>2 DEF InUse
  <2> QED BY <2>1, <2>2
<1>11. Counted'
  BY <1>0, <1>2, <1>10 DEF Counted
<1> QED BY <1>7, <1>8, <1>9, <1>11 DEF IInv, Exclusive

\* A client that is going to be opened is counted first.
LEMMA BorrowNewStep ==
  ASSUME IInv, NEW t \in Threads, NEW p \in Pools, BorrowNew(t, p)
  PROVE  IInv'
<1>0. TypeOK /\ HeldOnce /\ IdleIsFree /\ Counted
  BY DEF IInv, Exclusive
<1>1. /\ at[t] = "borrow" /\ want[t] = p /\ count[p] < MaxTotal[p]
      /\ count' = [count EXCEPT ![p] = @ + 1] /\ at' = [at EXCEPT ![t] = "make"]
      /\ up' = up /\ idle' = idle /\ frames' = frames /\ want' = want
  BY DEF BorrowNew, Borrow
<1>2. \A q \in Pools : Held(q)' = Held(q)
  BY <1>1 DEF Held
<1>3. /\ t \notin Makers(p)
      /\ \A q \in Pools : Makers(q)' = IF q = p THEN Makers(q) \union {t} ELSE Makers(q)
  BY <1>0, <1>1 DEF Makers, TypeOK
<1>4. \A q \in Pools : count'[q] = IF q = p THEN count[q] + 1 ELSE count[q]
  BY <1>0, <1>1 DEF TypeOK
<1>5. TypeOK'
  <2>1. count' \in [Pools -> Nat]
    BY <1>0, <1>1 DEF TypeOK
  <2>2. at' \in [Threads -> {"run", "borrow", "make", "unwind"}]
    BY <1>0, <1>1 DEF TypeOK
  <2>3. ASSUME NEW u \in Threads PROVE WellPhased(u)'
    <3>1. WellPhased(u) /\ at'[u] = IF u = t THEN "make" ELSE at[u]
      BY <1>0, <1>1 DEF TypeOK
    <3> QED BY <3>1, <1>1 DEF WellPhased, Depth
  <2> QED BY <1>0, <1>1, <2>1, <2>2, <2>3 DEF TypeOK
<1>6. HeldOnce' /\ IdleIsFree'
  BY <1>0, <1>1, <1>2 DEF HeldOnce, IdleIsFree
<1>7. ASSUME NEW q \in Pools
      PROVE  InUse(q)' = IF q = p THEN InUse(q) + 1 ELSE InUse(q)
  <2>1. Cardinality(Makers(p) \union {t}) = Cardinality(Makers(p)) + 1
    BY <1>0, <1>3, UsesFinite, FS_AddElement
  <2>2. /\ Cardinality(idle[p]) \in Nat /\ Cardinality(Held(p)) \in Nat
        /\ Cardinality(Makers(p)) \in Nat
    BY <1>0, UsesFinite
  <2>3. CASE q = p
    <3>1. /\ idle'[p] = idle[p] /\ Held(p)' = Held(p)
          /\ Makers(p)' = Makers(p) \union {t}
      BY <1>1, <1>2, <1>3
    <3> QED BY <2>1, <2>2, <2>3, <3>1 DEF InUse
  <2>4. CASE q # p
    BY <1>1, <1>2, <1>3, <2>4 DEF InUse
  <2> QED BY <2>3, <2>4
<1>8. Counted'
  <2>1. SUFFICES ASSUME NEW q \in Pools
                 PROVE  /\ InUse(q)' <= count'[q]
                        /\ q \notin Quiet => count'[q] = InUse(q)'
                        /\ count'[q] <= MaxTotal[q]
    BY DEF Counted
  <2>2. /\ InUse(q) \in Nat /\ count[q] \in Nat /\ MaxTotal[q] \in Nat
        /\ InUse(q) <= count[q] /\ (q \notin Quiet => count[q] = InUse(q))
        /\ count[q] <= MaxTotal[q]
    BY <1>0, UsesFinite, PoolAssumption DEF Counted, TypeOK, InUse
  <2> QED BY <1>1, <1>4, <1>7, <2>2
<1> QED BY <1>5, <1>6, <1>8 DEF IInv, Exclusive

\* A refused borrow lends nothing.
LEMMA BorrowRefusedStep ==
  ASSUME IInv, NEW t \in Threads, NEW p \in Pools, BorrowRefused(t, p)
  PROVE  IInv'
<1>0. TypeOK /\ HeldOnce /\ IdleIsFree /\ Counted
  BY DEF IInv, Exclusive
<1>1. /\ at[t] = "borrow" /\ Acquired(t, p, Null)
      /\ up' = up /\ count' = count /\ idle' = idle
  BY DEF BorrowRefused, Borrow
<1>2. \A q \in Pools : Held(q)' = Held(q) /\ Null \notin Held(q)
  BY <1>0, <1>1, HeldPush, PoolAssumption DEF Held
<1>3. \A q \in Pools : Makers(q)' = Makers(q)
  <2>1. \A q \in Pools : Makers(q)' = Makers(q) \ {t}
    BY <1>0, <1>1, MakersLeave
  <2> QED BY <1>1, <2>1 DEF Makers
<1>4. TypeOK'
  <2>1. at[t] \in {"borrow", "make"}
    BY <1>1
  <2> QED BY <1>0, <1>1, <2>1, AcquiredType DEF TypeOK
<1>5. HeldOnce'
  BY <1>0, <1>1, <1>2, HeldOncePush
<1>6. IdleIsFree' /\ Counted'
  BY <1>0, <1>1, <1>2, <1>3 DEF IdleIsFree, Counted, InUse
<1> QED BY <1>4, <1>5, <1>6 DEF IInv, Exclusive

\* Opening a client turns the slot counted for it into a lent client.
LEMMA CreateStep ==
  ASSUME IInv, NEW t \in Threads, NEW p \in Pools, Create(t, p)
  PROVE  IInv'
<1>0. TypeOK /\ HeldOnce /\ IdleIsFree /\ Counted
  BY DEF IInv, Exclusive
<1> DEFINE c == Fresh
<1>1. /\ at[t] = "make" /\ want[t] = p /\ Acquired(t, p, c)
      /\ up' = up /\ count' = count /\ idle' = idle
  BY DEF Create
<1>2. c \in Clients /\ c \notin Open /\ c # Null
  <2>1. Open \subseteq Clients /\ Open # Clients
    BY DEF Create, Open
  <2>2. \E d \in Clients : d \notin Open
    BY <2>1
  <2> QED BY <2>2, PoolAssumption DEF Fresh
<1> HIDE DEF c
<1>3. \A q \in Pools : c \notin Held(q) /\ c \notin idle[q]
  BY <1>2 DEF Open
<1>4. \A q \in Pools : Held(q)' = IF q = p THEN Held(q) \union {c} ELSE Held(q)
  BY <1>0, <1>1, <1>2, HeldPush
<1>5. /\ t \in Makers(p)
      /\ \A q \in Pools : Makers(q)' = IF q = p THEN Makers(q) \ {t} ELSE Makers(q)
  <2>1. \A q \in Pools : Makers(q)' = Makers(q) \ {t}
    BY <1>0, <1>1, MakersLeave
  <2> QED BY <1>1, <2>1 DEF Makers
<1>6. TypeOK'
  <2>1. at[t] \in {"borrow", "make"} /\ c \in Clients \union {Null}
    BY <1>1, <1>2
  <2> QED BY <1>0, <1>1, <2>1, AcquiredType DEF TypeOK
<1>7. HeldOnce'
  BY <1>0, <1>1, <1>2, <1>3, HeldOncePush
<1>8. IdleIsFree'
  BY <1>0, <1>1, <1>3, <1>4 DEF IdleIsFree
<1>9. ASSUME NEW q \in Pools
      PROVE  InUse(q)' = InUse(q)
  <2>1. CASE q = p
    <3>1. /\ Cardinality(Makers(p) \ {t}) = Cardinality(Makers(p)) - 1
          /\ Cardinality(Held(p) \union {c}) = Cardinality(Held(p)) + 1
      BY <1>0, <1>3, <1>5, UsesFinite, FS_RemoveElement, FS_AddElement
    <3>2. /\ Cardinality(idle[p]) \in Nat /\ Cardinality(Held(p)) \in Nat
          /\ Cardinality(Makers(p)) \in Nat
      BY <1>0, UsesFinite
    <3>3. /\ idle'[p] = idle[p] /\ Held(p)' = Held(p) \union {c}
          /\ Makers(p)' = Makers(p) \ {t}
      BY <1>1, <1>4, <1>5
    <3> QED BY <2>1, <3>1, <3>2, <3>3 DEF InUse
  <2>2. CASE q # p
    BY <1>1, <1>4, <1>5, <2>2 DEF InUse
  <2> QED BY <2>1, <2>2
<1>10. Counted'
  BY <1>0, <1>1, <1>9 DEF Counted
<1> QED BY <1>6, <1>7, <1>8, <1>10 DEF IInv, Exclusive

\* A client that could not be opened: the slot is given up, by the pool too
\* unless the factory hides the failure.
LEMMA CreateFailsStep ==
  ASSUME IInv, NEW t \in Threads, NEW p \in Pools, CreateFails(t, p)
  PROVE  IInv'
<1>0. TypeOK /\ HeldOnce /\ IdleIsFree /\ Counted
  BY DEF IInv, Exclusive
<1>1. /\ at[t] = "make" /\ want[t] = p /\ Acquired(t, p, Null)
      /\ up' = up /\ idle' = idle
      /\ \A q \in Pools : count'[q] =
           IF q = p /\ p \notin Quiet THEN count[q] - 1 ELSE count[q]
      /\ count' = [q \in Pools |->
                     IF q = p /\ p \notin Quiet THEN count[q] - 1 ELSE count[q]]
  BY <1>0 DEF CreateFails, TypeOK
<1>2. \A q \in Pools : Held(q)' = Held(q) /\ Null \notin Held(q)
  BY <1>0, <1>1, HeldPush, PoolAssumption DEF Held
<1>3. /\ t \in Makers(p)
      /\ \A q \in Pools : Makers(q)' = IF q = p THEN Makers(q) \ {t} ELSE Makers(q)
  <2>1. \A q \in Pools : Makers(q)' = Makers(q) \ {t}
    BY <1>0, <1>1, MakersLeave
  <2> QED BY <1>1, <2>1 DEF Makers
<1>4. ASSUME NEW q \in Pools
      PROVE  /\ InUse(q) \in Nat
             /\ InUse(q)' = IF q = p THEN InUse(q) - 1 ELSE InUse(q)
             /\ InUse(q)' \in Nat
  <2>1. /\ Cardinality(idle[q]) \in Nat /\ Cardinality(Held(q)) \in Nat
        /\ Cardinality(Makers(q)) \in Nat
    BY <1>0, UsesFinite
  <2>2. /\ Cardinality(Makers(p) \ {t}) = Cardinality(Makers(p)) - 1
        /\ Cardinality(Makers(p) \ {t}) \in Nat
    BY <1>0, <1>3, UsesFinite, FS_RemoveElement, FS_CardinalityType
  <2>3. CASE q = p
    <3>1. /\ idle'[q] = idle[q] /\ Held(q)' = Held(q)
          /\ Makers(q)' = Makers(q) \ {t}
      BY <1>1, <1>2, <1>3, <2>3
    <3> QED BY <2>1, <2>2, <2>3, <3>1 DEF InUse
  <2>4. CASE q # p
    BY <1>1, <1>2, <1>3, <2>1, <2>4 DEF InUse
  <2> QED BY <2>3, <2>4
<1>5. ASSUME NEW q \in Pools
      PROVE  /\ count'[q] \in Nat
             /\ InUse(q)' <= count'[q]
             /\ q \notin Quiet => count'[q] = InUse(q)'
             /\ count'[q] <= MaxTotal[q]
  <2>1. /\ count[q] \in Nat /\ MaxTotal[q] \in Nat
        /\ InUse(q) <= count[q] /\ (q \notin Quiet => count[q] = InUse(q))
        /\ count[q] <= MaxTotal[q]
    BY <1>0, PoolAssumption DEF Counted, TypeOK
  <2> QED BY <1>1, <1>4, <2>1
<1>6. TypeOK'
  <2>1. at[t] \in {"borrow", "make"}
    BY <1>1
  <2>2. count' \in [Pools -> Nat]
    BY <1>1, <1>5
  <2> QED BY <1>0, <1>1, <2>1, <2>2, AcquiredType DEF TypeOK
<1>7. HeldOnce'
  BY <1>0, <1>1, <1>2, HeldOncePush
<1>8. IdleIsFree' /\ Counted'
  BY <1>0, <1>1, <1>2, <1>5 DEF IdleIsFree, Counted
<1> QED BY <1>6, <1>7, <1>8 DEF IInv, Exclusive

\* The end of a call gives its client back or closes it, whichever way the
\* callback ended.
LEMMA ReleaseStep ==
  ASSUME IInv, NEW t \in Threads, Release(t)
  PROVE  IInv'
<1>0. TypeOK /\ HeldOnce /\ IdleIsFree /\ Counted
  BY DEF IInv, Exclusive
<1> DEFINE p == Top(t).pool
           c == Top(t).client
<1>1. /\ at[t] \in {"run", "unwind"} /\ Depth(t) > 0 /\ Popped(t)
      /\ GiveBack(p, c) /\ up' = up /\ want' = want
      /\ at' = [at EXCEPT ![t] = "run"] \/ (Depth(t) > 1 /\ at' = at)
  BY DEF Release, Popped
<1>2. /\ p \in Pools /\ c \in Clients \union {Null}
      /\ c # Null => c \in Held(p)
      /\ \A q \in Pools : Held(q)' = IF q = p THEN Held(q) \ {c} ELSE Held(q)
      /\ HeldOnce'
      /\ frames' \in [Threads -> Seq(Frame)] /\ Depth(t)' = Depth(t) - 1
      /\ \A u \in Threads \ {t} : frames'[u] = frames[u]
  BY <1>0, <1>1, HeldPop DEF Frame
<1> HIDE DEF p, c
<1>3. /\ at' \in [Threads -> {"run", "borrow", "make", "unwind"}]
      /\ \A u \in Threads \ {t} : at'[u] = at[u]
      /\ at'[t] \in {"run", "unwind"}
      /\ at'[t] = "unwind" => Depth(t) > 1
  BY <1>0, <1>1 DEF TypeOK
<1>4. \A q \in Pools : Makers(q)' = Makers(q)
  BY <1>1, <1>3 DEF Makers
<1>5. \A u \in Threads : WellPhased(u)'
  <2>1. SUFFICES ASSUME NEW u \in Threads PROVE WellPhased(u)'
    OBVIOUS
  <2>2. WellPhased(u) /\ Depth(u) \in Nat /\ MaxDepth \in Nat
    BY <1>0, PoolAssumption DEF TypeOK, Depth
  <2>3. CASE u = t
    BY <1>1, <1>2, <1>3, <2>2, <2>3 DEF WellPhased
  <2>4. CASE u # t
    <3>1. Depth(u)' = Depth(u) /\ at'[u] = at[u] /\ want'[u] = want[u]
      BY <1>1, <1>2, <1>3, <2>4 DEF Depth
    <3> QED BY <2>2, <3>1 DEF WellPhased
  <2> QED BY <2>3, <2>4
<1>6. ASSUME NEW q \in Pools
      PROVE  /\ Cardinality(idle[q]) \in Nat /\ Cardinality(Held(q)) \in Nat
             /\ Cardinality(Makers(q)) \in Nat
             /\ IsFiniteSet(idle[q]) /\ IsFiniteSet(Held(q))
  BY <1>0, UsesFinite
<1>7. ASSUME NEW q \in Pools
      PROVE  /\ count[q] \in Nat /\ MaxTotal[q] \in Nat
             /\ InUse(q) <= count[q] /\ (q \notin Quiet => count[q] = InUse(q))
             /\ count[q] <= MaxTotal[q] /\ InUse(q) \in Nat
  BY <1>0, <1>6, PoolAssumption DEF Counted, TypeOK, InUse
<1>8. CASE c = Null
  <2>1. count' = count /\ idle' = idle
    BY <1>1, <1>8 DEF GiveBack
  <2>2. \A q \in Pools : Held(q)' = Held(q)
    BY <1>2, <1>8, PoolAssumption DEF Held
  <2>3. TypeOK'
    BY <1>0, <1>1, <1>2, <1>3, <1>5, <2>1 DEF TypeOK
  <2>4. IdleIsFree' /\ Counted'
    BY <1>0, <1>4, <2>1, <2>2 DEF IdleIsFree, Counted, InUse
  <2> QED BY <1>2, <2>3, <2>4 DEF IInv, Exclusive
<1>9. CASE c # Null /\ Cardinality(idle[p]) < MaxIdle[p]
  <2>1. /\ count' = count
        /\ \A q \in Pools : idle'[q] = IF q = p THEN idle[q] \union {c} ELSE idle[q]
        /\ idle' \in [Pools -> SUBSET Clients]
    BY <1>0, <1>1, <1>2, <1>9 DEF GiveBack, TypeOK
  <2>2. \A q \in Pools : c \notin idle[q]
    BY <1>0, <1>2, <1>9 DEF IdleIsFree
  <2>3. TypeOK'
    BY <1>0, <1>1, <1>2, <1>3, <1>5, <2>1 DEF TypeOK
  <2>4. \A q \in Pools : q # p => c \notin Held(q)
    <3>1. SUFFICES ASSUME NEW q \in Pools, q # p, c \in Held(q), c \in Held(p)
                   PROVE  FALSE
      BY <1>2, <1>9
    <3>2. PICK u \in Threads, v \in Threads :
               /\ \E i \in DOMAIN frames[u] : frames[u][i] = [pool |-> q, client |-> c]
               /\ \E j \in DOMAIN frames[v] : frames[v][j] = [pool |-> p, client |-> c]
      BY <3>1 DEF Held
    <3>3. PICK i \in DOMAIN frames[u] : frames[u][i] = [pool |-> q, client |-> c]
      BY <3>2
    <3>4. PICK j \in DOMAIN frames[v] : frames[v][j] = [pool |-> p, client |-> c]
      BY <3>2
    <3>5. u = v /\ i = j
      BY <1>0, <1>9, <3>3, <3>4 DEF HeldOnce
    <3> QED BY <3>1, <3>3, <3>4, <3>5
  <2>5. IdleIsFree'
    <3>1. SUFFICES ASSUME NEW r \in Pools, NEW q \in Pools, NEW d \in idle'[r]
                   PROVE  d \notin Held(q)' /\ (d \in idle'[q] => r = q)
      BY DEF IdleIsFree
    <3>2. CASE d = c
      BY <1>2, <2>1, <2>2, <2>4, <3>1, <3>2
    <3>3. CASE d # c
      <4>1. d \in idle[r] /\ (d \in idle'[q] => d \in idle[q])
        BY <2>1, <3>1, <3>3
      <4> QED BY <1>0, <1>2, <4>1 DEF IdleIsFree
    <3> QED BY <3>2, <3>3
  <2>6. ASSUME NEW q \in Pools
        PROVE  InUse(q)' = InUse(q)
    <3>1. CASE q = p
      <4>1. /\ Cardinality(idle[p] \union {c}) = Cardinality(idle[p]) + 1
            /\ Cardinality(Held(p) \ {c}) = Cardinality(Held(p)) - 1
        BY <1>2, <1>6, <1>9, <2>2, FS_AddElement, FS_RemoveElement
      <4>2. /\ idle'[q] = idle[p] \union {c} /\ Held(q)' = Held(p) \ {c}
            /\ Makers(q)' = Makers(q)
        BY <1>2, <1>4, <2>1, <3>1
      <4> QED BY <1>6, <3>1, <4>1, <4>2 DEF InUse
    <3>2. CASE q # p
      BY <1>2, <1>4, <2>1, <3>2 DEF InUse
    <3> QED BY <3>1, <3>2
  <2>7. Counted'
    BY <1>7, <2>1, <2>6 DEF Counted
  <2> QED BY <1>2, <2>3, <2>5, <2>7 DEF IInv, Exclusive
<1>10. CASE c # Null /\ ~(Cardinality(idle[p]) < MaxIdle[p])
  <2>1. /\ idle' = idle
        /\ count' = [count EXCEPT ![p] = @ - 1]
        /\ \A q \in Pools : count'[q] = IF q = p THEN count[q] - 1 ELSE count[q]
    BY <1>0, <1>1, <1>2, <1>10 DEF GiveBack, TypeOK
  <2>2. ASSUME NEW q \in Pools
        PROVE  /\ InUse(q)' = IF q = p THEN InUse(q) - 1 ELSE InUse(q)
               /\ InUse(q)' \in Nat
    <3>1. CASE q = p
      <4>1. /\ Cardinality(Held(p) \ {c}) = Cardinality(Held(p)) - 1
            /\ Cardinality(Held(p) \ {c}) \in Nat
        BY <1>2, <1>6, <1>10, FS_RemoveElement, FS_CardinalityType
      <4>2. /\ idle'[q] = idle[q] /\ Held(q)' = Held(p) \ {c}
            /\ Makers(q)' = Makers(q)
        BY <1>2, <1>4, <2>1, <3>1
      <4> QED BY <1>6, <3>1, <4>1, <4>2 DEF InUse
    <3>2. CASE q # p
      <4>1. /\ idle'[q] = idle[q] /\ Held(q)' = Held(q)
            /\ Makers(q)' = Makers(q)
        BY <1>2, <1>4, <2>1, <3>2
      <4> QED BY <1>6, <3>2, <4>1 DEF InUse
    <3> QED BY <3>1, <3>2
  <2>3. ASSUME NEW q \in Pools
        PROVE  /\ count'[q] \in Nat
               /\ InUse(q)' <= count'[q]
               /\ q \notin Quiet => count'[q] = InUse(q)'
               /\ count'[q] <= MaxTotal[q]
    BY <1>7, <2>1, <2>2
  <2>4. count' \in [Pools -> Nat]
    BY <1>0, <2>1, <2>3 DEF TypeOK
  <2>5. TypeOK'
    BY <1>0, <1>1, <1>2, <1>3, <1>5, <2>1, <2>4 DEF TypeOK
  <2>6. IdleIsFree' /\ Counted'
    BY <1>0, <1>2, <2>1, <2>3 DEF IdleIsFree, Counted
  <2> QED BY <1>2, <2>5, <2>6 DEF IInv, Exclusive
<1> QED BY <1>8, <1>9, <1>10

\* The steps that move no client.
LEMMA OtherSteps ==
  ASSUME IInv,
         \/ \E t \in Threads : Throw(t) \/ \E p \in Pools : Call(t, p)
         \/ Outage
         \/ UNCHANGED vars
  PROVE  IInv'
<1>0. TypeOK /\ HeldOnce /\ IdleIsFree /\ Counted
  BY DEF IInv, Exclusive
<1>1. /\ up' \in BOOLEAN /\ count' = count /\ idle' = idle /\ frames' = frames
      /\ \A q \in Pools : Makers(q)' = Makers(q)
      /\ at' \in [Threads -> {"run", "borrow", "make", "unwind"}]
      /\ want' \in [Threads -> Pools \union {NoPool}]
      /\ \A u \in Threads : WellPhased(u)'
  <2>0. \A u \in Threads : WellPhased(u)
    BY <1>0 DEF TypeOK
  <2>1. CASE \E t \in Threads : Throw(t)
    <3>1. PICK t \in Threads : Throw(t)
      BY <2>1
    <3>2. /\ at[t] = "run" /\ Depth(t) > 0 /\ up' = up /\ count' = count
          /\ idle' = idle /\ frames' = frames /\ want' = want
          /\ at' \in [Threads -> {"run", "borrow", "make", "unwind"}]
          /\ at'[t] = "unwind" /\ \A u \in Threads \ {t} : at'[u] = at[u]
      BY <1>0, <3>1 DEF Throw, TypeOK
    <3>3. \A u \in Threads : WellPhased(u)'
      BY <2>0, <3>2 DEF WellPhased, Depth
    <3> QED BY <1>0, <3>2, <3>3 DEF TypeOK, Makers
  <2>2. CASE \E t \in Threads : \E p \in Pools : Call(t, p)
    <3>1. PICK t \in Threads, p \in Pools : Call(t, p)
      BY <2>2
    <3>2. /\ at[t] = "run" /\ Depth(t) < MaxDepth /\ up' = up /\ count' = count
          /\ idle' = idle /\ frames' = frames /\ want'[t] = p
          /\ at' \in [Threads -> {"run", "borrow", "make", "unwind"}]
          /\ want' \in [Threads -> Pools \union {NoPool}]
          /\ at'[t] = "borrow"
          /\ \A u \in Threads \ {t} : at'[u] = at[u] /\ want'[u] = want[u]
      BY <1>0, <3>1 DEF Call, TypeOK
    <3>3. \A u \in Threads : WellPhased(u)'
      BY <2>0, <3>2, PoolAssumption DEF WellPhased, Depth
    <3> QED BY <1>0, <3>2, <3>3 DEF TypeOK, Makers
  <2>3. CASE Outage \/ UNCHANGED vars
    BY <1>0, <2>0, <2>3 DEF Outage, vars, TypeOK, Makers, WellPhased, Depth
  <2> QED BY <2>1, <2>2, <2>3
<1>2. \A q \in Pools : Held(q)' = Held(q)
  BY <1>1 DEF Held
<1>3. TypeOK'
  BY <1>0, <1>1 DEF TypeOK
<1>4. HeldOnce' /\ IdleIsFree' /\ Counted'
  BY <1>0, <1>1, <1>2 DEF HeldOnce, IdleIsFree, Counted, InUse
<1> QED BY <1>3, <1>4 DEF IInv, Exclusive

-----------------------------------------------------------------------------
\* The invariant holds of every behaviour.
THEOREM Invariance == Spec => []IInv
<1>1. Init => IInv
  <2>1. SUFFICES ASSUME Init PROVE IInv
    OBVIOUS
  <2>2. \A t \in Threads : frames[t] = <<>> /\ Depth(t) = 0 /\ at[t] = "run"
                            /\ want[t] = NoPool
    BY <2>1 DEF Init, Depth
  <2>3. \A p \in Pools : idle[p] = {} /\ count[p] = 0 /\ Held(p) = {} /\ Makers(p) = {}
    BY <2>1, <2>2 DEF Init, Held, Makers
  <2>4. TypeOK
    <3>1. \A t \in Threads : WellPhased(t)
      BY <2>2, PoolAssumption DEF WellPhased
    <3>2. <<>> \in Seq(Frame)
      OBVIOUS
    <3> QED BY <2>1, <3>1, <3>2 DEF Init, TypeOK
  <2>5. Exclusive
    BY <2>2, <2>3 DEF Exclusive, HeldOnce, IdleIsFree
  <2>6. Counted
    BY <2>3, PoolAssumption, FS_EmptySet DEF Counted, InUse
  <2> QED BY <2>4, <2>5, <2>6 DEF IInv
<1>2. IInv /\ [Next]_vars => IInv'
  <2>1. SUFFICES ASSUME IInv, [Next]_vars PROVE IInv'
    OBVIOUS
  <2>2. CASE \E t \in Threads : \E p \in Pools :
               \/ BorrowIdle(t, p) \/ BorrowNew(t, p) \/ BorrowRefused(t, p)
               \/ Create(t, p) \/ CreateFails(t, p)
    BY <2>1, <2>2, BorrowIdleStep, BorrowNewStep, BorrowRefusedStep,
       CreateStep, CreateFailsStep
  <2>3. CASE \E t \in Threads : Release(t)
    BY <2>1, <2>3, ReleaseStep
  <2>4. CASE \/ \E t \in Threads : Throw(t) \/ \E p \in Pools : Call(t, p)
             \/ Outage
             \/ UNCHANGED vars
    BY <2>1, <2>4, OtherSteps
  <2> QED BY <2>1, <2>2, <2>3, <2>4 DEF Next, Step
<1> QED BY <1>1, <1>2, PTL DEF Spec

\* Every variable keeps its type, and every thread its phase.
THEOREM TypeCorrect == Spec => []TypeOK
<1>1. IInv => TypeOK
  BY DEF IInv
<1> QED BY <1>1, Invariance, PTL

\* No client is in two hands, or in a hand and idle: any number of threads may
\* nest calls, throw and meet failing servers in any order.
THEOREM ExclusiveUse == Spec => []Exclusive
<1>1. IInv => Exclusive
  BY DEF IInv
<1> QED BY <1>1, Invariance, PTL

\* A pool whose factory throws loses no slot, whatever its clients' users do.
THEOREM NoSlotLost == Spec => []SlotsAccounted
<1>1. IInv => SlotsAccounted
  BY DEF IInv, Counted, SlotsAccounted
<1> QED BY <1>1, Invariance, PTL

\* No pool, the JMX ones included, ever has more clients than configured.
THEOREM PoolsBounded == Spec => []WithinTotal
<1>1. IInv => WithinTotal
  <2>1. SUFFICES ASSUME IInv, NEW p \in Pools PROVE InUse(p) <= MaxTotal[p]
    BY DEF WithinTotal
  <2>2. /\ Cardinality(idle[p]) \in Nat /\ Cardinality(Held(p)) \in Nat
        /\ Cardinality(Makers(p)) \in Nat
    BY <2>1, UsesFinite DEF IInv
  <2>3. /\ count[p] \in Nat /\ MaxTotal[p] \in Nat
        /\ InUse(p) <= count[p] /\ count[p] <= MaxTotal[p]
    BY <2>1, PoolAssumption DEF IInv, TypeOK, Counted
  <2>4. InUse(p) \in Nat
    BY <2>2 DEF InUse
  <2> QED BY <2>3, <2>4
<1> QED BY <1>1, Invariance, PTL
=============================================================================
