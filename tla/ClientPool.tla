----------------------------- MODULE ClientPool -----------------------------
(***************************************************************************)
(* The pools of clients (ZooKeeper, admin, consumer, producer, JMX) and    *)
(* the templates that lend them.  An operation is a nest of calls of       *)
(* doExecute: each borrows a client, runs a callback that may call another *)
(* doExecute, and gives the client back in a finally block.  A pool that   *)
(* has no client to lend makes acquire return null, and the callback runs  *)
(* with it.                                                                *)
(*                                                                         *)
(* The pool itself is commons-pool2 2.3 (external): borrowObject takes an  *)
(* idle client, or counts a new one and opens it, or, as the pools do not  *)
(* block, throws.  Which idle client is taken (LIFO) matters to nothing    *)
(* said here: idle is a set.                                               *)
(***************************************************************************)
EXTENDS Integers, Sequences, FiniteSets

CONSTANTS
  Threads,
  Pools,      \* one per cluster and kind, for JMX one per broker
  Clients,    \* names of open clients
  Null,       \* what acquire returns when it got nothing
  NoPool,
  MaxTotal,   \* MaxTotal[p], MaxIdle[p]: the pool's configuration
  MaxIdle,
  Quiet,      \* pools whose factory answers a failed connect with null
  Nests,      \* <<p, q>>: a callback that has a client of p borrows from q
  MaxDepth    \* bound: calls of doExecute inside one another

ASSUME PoolAssumption ==
  /\ MaxTotal \in [Pools -> Nat] /\ MaxIdle \in [Pools -> Nat]
  /\ Quiet \subseteq Pools /\ Nests \subseteq Pools \X Pools
  /\ Null \notin Clients /\ NoPool \notin Pools
  /\ MaxDepth \in Nat \ {0}
  /\ IsFiniteSet(Threads) /\ IsFiniteSet(Clients)

VARIABLES
  up,      \* the servers accept connections (one flag, as it may change at any
           \* time, stands for each server's own)
  count,   \* count[p]: createCount of the pool
  idle,    \* idle[p]: its clients that nobody has
  frames,  \* frames[t]: the calls of doExecute t is in, outermost first
  at,      \* what t does: "run" (a callback, or nothing), "borrow", "make",
           \* "unwind" (an exception leaves the innermost callback)
  want     \* want[t]: the pool t borrows from, or NoPool

vars == <<up, count, idle, frames, at, want>>

Frame == [pool: Pools, client: Clients \union {Null}]
Depth(t) == Len(frames[t])
Top(t) == frames[t][Depth(t)]

\* Held(p): clients of p that a thread has.
Held(p) == {c \in Clients : \E t \in Threads : \E i \in DOMAIN frames[t] :
              frames[t][i] = [pool |-> p, client |-> c]}
\* Makers(p): threads that have counted a client of p and are opening it.
Makers(p) == {t \in Threads : at[t] = "make" /\ want[t] = p}
Open == {c \in Clients : \E p \in Pools : c \in idle[p] \union Held(p)}
\* The name of a client that is opened next (Clients has enough of them).
Fresh == CHOOSE c \in Clients : c \notin Open

Init ==
  /\ up = TRUE
  /\ count = [p \in Pools |-> 0]
  /\ idle = [p \in Pools |-> {}]
  /\ frames = [t \in Threads |-> <<>>]
  /\ at = [t \in Threads |-> "run"]
  /\ want = [t \in Threads |-> NoPool]

-----------------------------------------------------------------------------
\* acquire returns c, or Null, and doExecute runs the callback with it.
Acquired(t, p, c) ==
  /\ frames' = [frames EXCEPT ![t] = Append(@, [pool |-> p, client |-> c])]
  /\ at' = [at EXCEPT ![t] = "run"]
  /\ want' = [want EXCEPT ![t] = NoPool]

\* A request, a job or a callback calls doExecute (or acquire).
Call(t, p) ==
  /\ at[t] = "run" /\ Depth(t) < MaxDepth
  /\ Depth(t) > 0 => <<Top(t).pool, p>> \in Nests
  /\ at' = [at EXCEPT ![t] = "borrow"]
  /\ want' = [want EXCEPT ![t] = p]
  /\ UNCHANGED <<up, count, idle, frames>>

Borrow(t, p) == at[t] = "borrow" /\ want[t] = p

BorrowIdle(t, p) ==
  /\ Borrow(t, p)
  /\ \E c \in idle[p] : idle' = [idle EXCEPT ![p] = @ \ {c}]
                        /\ Acquired(t, p, c)
  /\ UNCHANGED <<up, count>>

\* createCount is raised before the factory is asked.
BorrowNew(t, p) ==
  /\ Borrow(t, p) /\ idle[p] = {} /\ count[p] < MaxTotal[p]
  /\ count' = [count EXCEPT ![p] = @ + 1]
  /\ at' = [at EXCEPT ![t] = "make"]
  /\ UNCHANGED <<up, idle, frames, want>>

\* Mutant: setBlockWhenExhausted(true), with no limit to the wait.
BorrowBlocks(t, p) == Borrow(t, p) /\ idle[p] # {} /\ BorrowIdle(t, p)

\* setBlockWhenExhausted(false): borrowObject throws, acquire catches.
BorrowRefused(t, p) ==
  /\ Borrow(t, p) /\ idle[p] = {} /\ count[p] = MaxTotal[p]
  /\ Acquired(t, p, Null)
  /\ UNCHANGED <<up, count, idle>>

\* The factory opens a client.
Create(t, p) ==
  /\ at[t] = "make" /\ want[t] = p /\ up
  /\ Open # Clients /\ Acquired(t, p, Fresh)
  /\ UNCHANGED <<up, count, idle>>

\* The server cannot be reached.  A factory that throws makes the pool
\* uncount the client; the JMX factory returns null, which the pool takes for
\* a client: it stays counted, and no one ever gives it back.
CreateFails(t, p) ==
  /\ at[t] = "make" /\ want[t] = p /\ ~up
  /\ count' = [count EXCEPT ![p] = IF p \in Quiet THEN @ ELSE @ - 1]
  /\ Acquired(t, p, Null)
  /\ UNCHANGED <<up, idle>>

\* A callback throws: with a null client, or because its server failed.
Throw(t) ==
  /\ at[t] = "run" /\ Depth(t) > 0
  /\ at' = [at EXCEPT ![t] = "unwind"]
  /\ UNCHANGED <<up, count, idle, frames, want>>

\* returnObject: the client is idle again, or closed if enough of them are.
GiveBack(p, c) ==
  IF c = Null THEN UNCHANGED <<count, idle>>
  ELSE IF Cardinality(idle[p]) < MaxIdle[p]
       THEN idle' = [idle EXCEPT ![p] = @ \union {c}] /\ UNCHANGED count
       ELSE count' = [count EXCEPT ![p] = @ - 1] /\ UNCHANGED idle

\* Mutant: the client is given back after the callback, not in a finally.
ReleaseOnReturn(t) ==
  /\ at[t] \in {"run", "unwind"} /\ Depth(t) > 0
  /\ IF at[t] = "run" THEN GiveBack(Top(t).pool, Top(t).client)
                      ELSE UNCHANGED <<count, idle>>
  /\ frames' = [frames EXCEPT ![t] = SubSeq(@, 1, Depth(t) - 1)]
  /\ \/ at' = [at EXCEPT ![t] = "run"]
     \/ Depth(t) > 1 /\ UNCHANGED at
  /\ UNCHANGED <<up, want>>

\* Mutant: the callback gives the client back too, before it ends.
ReleaseTwice(t) ==
  /\ at[t] \in {"run", "unwind"} /\ Depth(t) > 0
  /\ GiveBack(Top(t).pool, Top(t).client)
  /\ UNCHANGED <<up, frames, at, want>>

\* The finally block of doExecute, after a return or an exception; an
\* exception goes on in the enclosing callback unless that one catches it.
Release(t) ==
  /\ at[t] \in {"run", "unwind"} /\ Depth(t) > 0
  /\ GiveBack(Top(t).pool, Top(t).client)
  /\ frames' = [frames EXCEPT ![t] = SubSeq(@, 1, Depth(t) - 1)]
  /\ \/ at' = [at EXCEPT ![t] = "run"]
     \/ Depth(t) > 1 /\ UNCHANGED at
  /\ UNCHANGED <<up, want>>

\* A server becomes unreachable, or reachable again.
Outage ==
  /\ up' = ~up
  /\ UNCHANGED <<count, idle, frames, at, want>>

Step(t) ==
  \/ \E p \in Pools : \/ Call(t, p) \/ BorrowIdle(t, p) \/ BorrowNew(t, p)
                      \/ BorrowRefused(t, p)
                      \/ Create(t, p) \/ CreateFails(t, p)
  \/ Throw(t) \/ Release(t)

Next == (\E t \in Threads : Step(t)) \/ Outage

Spec == Init /\ [][Next]_vars

\* A thread that is not in a callback is running the template's or the pool's
\* code, and connecting times out: it goes on.  A callback runs through finite
\* lists of topics and partitions, so a call that could end again and again
\* ends in the end (SF for each depth).
Fairness ==
  \A t \in Threads :
    /\ WF_vars(at[t] # "run" /\ Step(t))
    /\ \A d \in 1..MaxDepth : SF_vars(Depth(t) = d /\ Release(t))

FairSpec == Spec /\ Fairness

-----------------------------------------------------------------------------
WellPhased(t) ==
  /\ Depth(t) <= MaxDepth
  /\ at[t] \in {"borrow", "make"} <=> want[t] # NoPool
  /\ at[t] \in {"borrow", "make"} => Depth(t) < MaxDepth
  /\ at[t] = "unwind" => Depth(t) > 0

\* Types: frames is no deeper than the bound, and a thread names the pool it
\* borrows from exactly while it is inside borrowObject.
TypeOK ==
  /\ up \in BOOLEAN
  /\ count \in [Pools -> Nat]
  /\ idle \in [Pools -> SUBSET Clients]
  /\ frames \in [Threads -> Seq(Frame)]
  /\ at \in [Threads -> {"run", "borrow", "make", "unwind"}]
  /\ want \in [Threads -> Pools \union {NoPool}]
  /\ \A t \in Threads : WellPhased(t)

HeldOnce ==
  \A t1, t2 \in Threads : \A i \in DOMAIN frames[t1], j \in DOMAIN frames[t2] :
    /\ frames[t1][i].client = frames[t2][j].client
    /\ frames[t1][i].client # Null
    => t1 = t2 /\ i = j

IdleIsFree ==
  \A p, q \in Pools : \A c \in idle[p] :
    c \notin Held(q) /\ (c \in idle[q] => p = q)

\* A client is in one place: no two calls have it, of one thread or of two,
\* and none that someone has, and none of another pool, is idle.  A
\* KafkaConsumer used by two threads throws; a JMX connector of another
\* broker reads the wrong broker's counters.
Exclusive == HeldOnce /\ IdleIsFree

InUse(p) ==
  Cardinality(idle[p]) + Cardinality(Held(p)) + Cardinality(Makers(p))

\* No call loses a slot of its pool, however it ends: what the pool counts is
\* lent, idle or being opened.  (A quiet pool, whose factory answers null,
\* loses one with every connection that fails.)
SlotsAccounted ==
  \A p \in Pools \ Quiet : count[p] = InUse(p)

\* A pool never has more clients, those being opened included, than it is
\* configured for, so the servers are not flooded with connections.
WithinTotal == \A p \in Pools : InUse(p) <= MaxTotal[p]

\* Every operation that started ends, also when its inner calls find the pool
\* empty that its outer calls have emptied.
OperationEnds ==
  \A t \in Threads : at[t] # "run" \/ Depth(t) > 0 ~> at[t] = "run" /\ Depth(t) = 0
=============================================================================
