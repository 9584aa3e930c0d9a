-------------------------- MODULE BrokerBalanceProofs --------------------------
(***************************************************************************)
(* Proofs, for any number of brokers, partitions and replicas and however  *)
(* often the cluster changes, that a figure taken while it stood still is  *)
(* the exact one.  The invariant says what an undisturbed walk has read,   *)
(* and that a computed value waits to be written as the figure it is; both *)
(* are needed, for FiguresExact itself only speaks of rows once written.   *)
(***************************************************************************)
EXTENDS BrokerBalance, FoldLemmas, TLAPS

Typed ==
  /\ replicas \in [Partitions -> ReplicaSets \cup {{}}]
  /\ leader \in [Partitions -> Brokers \cup {NoLeader, NoState}]
  /\ alive \in SUBSET Brokers
  /\ rows \in [Figures -> Nat \cup {NoRow}]
  /\ figure \in Figures \cup {0}
  /\ pc \in {"list", "topic", "partitions", "write"}
  /\ unread \subseteq Partitions
  /\ reading \subseteq [partition : Partitions, leader : Brokers \cup {NoLeader}]
  /\ \A r, s \in reading : r = s
  /\ DOMAIN metas \subseteq Partitions /\ \A p \in DOMAIN metas : metas[p] \in Meta
  /\ value \in Nat
  /\ exact \in [Figures -> BOOLEAN] /\ calm \in BOOLEAN

\* The job stands in the midst of a figure, and keeps what it has read only
\* for as long as it reads.
Placed ==
  /\ pc # "list" => figure \in Figures
  /\ pc # "partitions" => unread = {} /\ reading = {} /\ metas = <<>>

\* A walk nothing has disturbed: each partition of the topic is still to be
\* read, is being read or has been read, and what was read is what there is.
Walked ==
  /\ Exists = unread \cup {r.partition : r \in reading} \cup DOMAIN metas
  /\ \A r \in reading : r.leader = leader[r.partition]
  /\ \A p \in DOMAIN metas : metas[p] = [leader |-> leader[p], replicas |-> replicas[p]]

IInv ==
  /\ Typed /\ Placed
  /\ calm /\ pc = "partitions" => Walked
  /\ calm /\ pc = "write" /\ (figure = LeaderSkewed => AllLed) => FigureIs(figure, value)
  /\ FiguresExact

-----------------------------------------------------------------------------
(* Arithmetic: the two roundings. *)

LEMMA Division ==
  ASSUME NEW a \in Nat, NEW s \in Nat, s # 0, NEW q, q = a \div s, NEW r, r = a % s
  PROVE  /\ q \in Nat /\ r \in Nat /\ r < s
         /\ a = q * s + r
<1>1. q \in Nat
  OBVIOUS
<1>2. r \in Nat /\ r < s
  OBVIOUS
<1>3. r = a - s * q
  OBVIOUS
<1>4. a = q * s + r
  BY ONLY <1>1, <1>2, <1>3, a \in Nat, s \in Nat
<1> QED BY <1>1, <1>2, <1>4

LEMMA Products ==
  ASSUME NEW a \in Int, NEW b \in Int, NEW s \in Nat, a <= b
  PROVE  a * s <= b * s
OBVIOUS

LEMMA PercentIs ==
  ASSUME NEW k \in Nat, NEW m \in Nat
  PROVE  Percent(k, m) \in Nat /\ IsPercent(Percent(k, m), k, m)
<1>1. CASE m = 0
  BY <1>1 DEF Percent, IsPercent
<1>2. CASE m # 0
  <2> PICK q : q = (k * 100) \div m
    OBVIOUS
  <2> PICK r : r = (k * 100) % m
    OBVIOUS
  <2>1. q \in Nat /\ r \in Nat /\ r < m /\ k * 100 = q * m + r
    BY <1>2, Division
  <2>2. q * m <= 100 * k /\ 100 * k < q * m + m /\ q * m + m = (q + 1) * m
    BY <2>1
  <2> QED BY <1>2, <2>1, <2>2 DEF Percent, IsPercent
<1> QED BY <1>1, <1>2

LEMMA CeilIs ==
  ASSUME NEW s \in Nat, s # 0, NEW t \in Nat, NEW a \in Nat
  PROVE  a > ceil(s, t) <=> (a - 1) * s >= t
<1> PICK q : q = t \div s
  OBVIOUS
<1> PICK r : r = t % s
  OBVIOUS
<1>1. q \in Nat /\ r \in Nat /\ r < s /\ t = q * s + r
  BY Division
<1>2. ceil(s, t) = IF r = 0 THEN q ELSE q + 1
  BY DEF ceil
<1>3. ASSUME a - 1 >= q + 1 PROVE (a - 1) * s >= t
  <2>1. (a - 1) * s >= (q + 1) * s
    BY <1>1, <1>3, Products
  <2>2. (q + 1) * s = q * s + s
    BY <1>1
  <2> QED BY <1>1, <2>1, <2>2
<1>4. ASSUME a - 1 = q PROVE (a - 1) * s = q * s
  BY <1>4
<1>5. ASSUME a - 1 <= q - 1 PROVE (a - 1) * s < t
  <2>1. (a - 1) * s <= (q - 1) * s
    BY <1>1, <1>5, Products
  <2>2. (q - 1) * s = q * s - s
    BY <1>1
  <2> QED BY <1>1, <2>1, <2>2
<1> QED BY <1>1, <1>2, <1>3, <1>4, <1>5


-----------------------------------------------------------------------------
(* The sums. *)

\* MapThenSumSet is the sum of the values.
LEMMA LoadsIsSum ==
  ASSUME NEW m, IsFiniteSet(DOMAIN m)
  PROVE  PartitionAndReplicaTopics(m)
           = SumFunctionOnSet([p \in DOMAIN m |-> Cardinality(m[p].replicas)], DOMAIN m)
<1> DEFINE size == [p \in DOMAIN m |-> Cardinality(m[p].replicas)]
<1> DEFINE iter[s \in SUBSET (DOMAIN m)] ==
      IF s = {} THEN 0
      ELSE LET x == CHOOSE x \in s : TRUE IN Cardinality(m[x].replicas) + iter[s \ {x}]
<1>1. PartitionAndReplicaTopics(m) = iter[DOMAIN m]
  BY DEF PartitionAndReplicaTopics, MapThenSumSet, MapThenFoldSet
<1>2. PICK g : Solves(g, size, DOMAIN m)
  BY WalkExists
<1>3. g = [s \in SUBSET (DOMAIN m) |->
             IF s = {} THEN 0
             ELSE LET x == CHOOSE x \in s : TRUE IN Cardinality(m[x].replicas) + g[s \ {x}]]
  <2>1. ASSUME NEW s \in SUBSET (DOMAIN m), s # {}
        PROVE  size[Chosen(s)] = Cardinality(m[Chosen(s)].replicas)
    BY <2>1, ChosenIn
  <2> HIDE DEF size
  <2> QED BY <1>2, <2>1 DEF Solves, Chosen
<1>4. iter = [s \in SUBSET (DOMAIN m) |->
             IF s = {} THEN 0
             ELSE LET x == CHOOSE x \in s : TRUE IN Cardinality(m[x].replicas) + iter[s \ {x}]]
  BY <1>3
<1>5. Solves(iter, size, DOMAIN m)
  <2>1. ASSUME NEW s \in SUBSET (DOMAIN m), s # {}
        PROVE  size[Chosen(s)] = Cardinality(m[Chosen(s)].replicas)
    BY <2>1, ChosenIn
  <2> HIDE DEF size, iter
  <2> QED BY <1>4, <2>1 DEF Solves, Chosen
<1> HIDE DEF size, iter
<1>6. SumFunctionOnSet(size, DOMAIN m) = iter[DOMAIN m]
  BY <1>5, SumIsWalk
<1> QED BY <1>1, <1>6 DEF size

\* The cluster's load is the sum of what its brokers host.
LEMMA HostsIsSum ==
  ASSUME IsFiniteSet(Used)
  PROVE  MapThenSumSet(Hosts, Used) = SumFunctionOnSet([b \in Used |-> Hosts(b)], Used)
<1> DEFINE load == [b \in Used |-> Hosts(b)]
<1> DEFINE iter[s \in SUBSET Used] ==
      IF s = {} THEN 0 ELSE LET x == CHOOSE x \in s : TRUE IN Hosts(x) + iter[s \ {x}]
<1>1. MapThenSumSet(Hosts, Used) = iter[Used]
  BY DEF MapThenSumSet, MapThenFoldSet
<1>2. PICK g : Solves(g, load, Used)
  BY WalkExists
<1>3. ASSUME NEW s \in SUBSET Used, s # {} PROVE load[Chosen(s)] = Hosts(Chosen(s))
  BY <1>3, ChosenIn
<1>4. g = [s \in SUBSET Used |->
             IF s = {} THEN 0
             ELSE LET x == CHOOSE x \in s : TRUE IN Hosts(x) + g[s \ {x}]]
  <2> HIDE DEF load
  <2> QED BY <1>2, <1>3 DEF Solves, Chosen
<1>5. iter = [s \in SUBSET Used |->
             IF s = {} THEN 0
             ELSE LET x == CHOOSE x \in s : TRUE IN Hosts(x) + iter[s \ {x}]]
  BY <1>4
<1>6. Solves(iter, load, Used)
  <2> HIDE DEF load, iter
  <2> QED BY <1>5, <1>3 DEF Solves, Chosen
<1> HIDE DEF load, iter
<1>7. SumFunctionOnSet(load, Used) = iter[Used]
  BY <1>6, SumIsWalk
<1> QED BY <1>1, <1>7 DEF load

-----------------------------------------------------------------------------
(* The figures of a walk that read the cluster as it is. *)

LEMMA SizesAreNat == ASSUME NEW S, IsFiniteSet(S) PROVE Cardinality(S) \in Nat
BY FS_CardinalityType

LEMMA ClusterFinite ==
  ASSUME Typed
  PROVE  /\ IsFiniteSet(Exists) /\ IsFiniteSet(Used) /\ IsFiniteSet(alive)
         /\ \A p \in Exists : replicas[p] \subseteq Used
         /\ Used \subseteq Brokers
<1>1. Exists \subseteq Partitions
  BY DEF Exists
<1>2. \A p \in Exists : replicas[p] \subseteq Brokers
  BY <1>1, BalanceAssumption DEF Typed
<1>3. Used \subseteq Brokers /\ \A p \in Exists : replicas[p] \subseteq Used
  BY <1>2 DEF Used
<1>4. alive \subseteq Brokers
  BY DEF Typed
<1> QED BY <1>1, <1>3, <1>4, BalanceAssumption, FS_Subset

ReadRight ==
  /\ DOMAIN metas = Exists
  /\ \A p \in Exists : metas[p] = [leader |-> leader[p], replicas |-> replicas[p]]

LEMMA SpreadIs ==
  ASSUME Typed, ReadRight
  PROVE  FigureIs(Spread, getBrokerSpreadByTopic(metas, alive))
<1>1. BrokerSizes(metas) = Used
  BY DEF ReadRight, BrokerSizes, Used
<1>2. Cardinality(Used) \in Nat /\ Cardinality(alive) \in Nat
  BY ClusterFinite, SizesAreNat
<1>3. IsPercent(getBrokerSpreadByTopic(metas, alive), Cardinality(Used), Cardinality(alive))
  BY <1>1, <1>2, PercentIs DEF getBrokerSpreadByTopic
<1> QED BY <1>3 DEF FigureIs, Spread, Skewed, LeaderSkewed

LEMMA TotalIs ==
  ASSUME Typed, ReadRight
  PROVE  /\ PartitionAndReplicaTopics(metas) = MapThenSumSet(Hosts, Used)
         /\ MapThenSumSet(Hosts, Used) \in Nat
<1> PICK read : read = [p \in DOMAIN metas |-> Cardinality(metas[p].replicas)]
  OBVIOUS
<1> PICK placed : placed = [p \in Exists |-> Cardinality(replicas[p])]
  OBVIOUS
<1> PICK load : load = [b \in Used |-> Cardinality({p \in Exists : b \in replicas[p]})]
  OBVIOUS
<1>1. IsFiniteSet(Exists) /\ IsFiniteSet(Used) /\ \A p \in Exists : replicas[p] \subseteq Used
  BY ClusterFinite
<1>2. read = placed
  BY DEF ReadRight
<1>3. PartitionAndReplicaTopics(metas) = SumFunctionOnSet(placed, Exists)
  BY <1>1, <1>2, LoadsIsSum DEF ReadRight
<1>4. SumFunctionOnSet(placed, Exists) = SumFunctionOnSet(load, Used)
  BY <1>1, DoubleCounting
<1>5. load = [b \in Used |-> Hosts(b)]
  BY DEF Hosts
<1>6. MapThenSumSet(Hosts, Used) = SumFunctionOnSet(load, Used)
  BY <1>1, <1>5, HostsIsSum
<1>7. \A p \in Exists : placed[p] \in Nat
  BY <1>1, FS_Subset, SizesAreNat
<1>8. SumFunctionOnSet(placed, Exists) \in Nat
  BY ONLY <1>1, <1>7, SumNat
<1> QED BY <1>3, <1>4, <1>6, <1>8

LEMMA SkewedIs ==
  ASSUME Typed, ReadRight
  PROVE  FigureIs(Skewed, getBrokerSkewedByTopic(metas))
<1> PICK total : total = MapThenSumSet(Hosts, Used)
  OBVIOUS
<1> PICK size : size = Cardinality(Used)
  OBVIOUS
<1> PICK over : over = {b \in Used : Over(Hosts(b), total)}
  OBVIOUS
<1>1. BrokerSizes(metas) = Used
  BY DEF ReadRight, BrokerSizes, Used
<1>2. PartitionAndReplicaTopics(metas) = total /\ total \in Nat
  BY TotalIs
<1>3. IsFiniteSet(Used) /\ IsFiniteSet(Exists) /\ IsFiniteSet(over)
  BY ClusterFinite, FS_Subset
<1>4. size \in Nat /\ Cardinality(over) \in Nat
  BY <1>3, SizesAreNat
<1>5. CASE size = 0
  BY <1>1, <1>5 DEF FigureIs, IsPercent, getBrokerSkewedByTopic, Spread, Skewed, LeaderSkewed
<1>6. CASE size # 0
  <2>1. ASSUME NEW b \in Used
        PROVE  Loaded(metas, b) > ceil(size, total) <=> Over(Hosts(b), total)
    <3>1. {p \in DOMAIN metas : b \in metas[p].replicas} = {p \in Exists : b \in replicas[p]}
      BY DEF ReadRight
    <3>2. IsFiniteSet({p \in Exists : b \in replicas[p]})
      BY <1>3, FS_Subset
    <3>3. Loaded(metas, b) = Hosts(b) /\ Hosts(b) \in Nat
      BY <3>1, <3>2, SizesAreNat DEF Loaded, Hosts
    <3> QED BY <1>2, <1>4, <1>6, <3>3, CeilIs DEF Over
  <2>2. {b \in Used : Loaded(metas, b) > ceil(size, total)} = over
    BY <2>1
  <2>3. getBrokerSkewedByTopic(metas) = Percent(Cardinality(over), size)
    BY <1>1, <1>2, <1>6, <2>2 DEF getBrokerSkewedByTopic
  <2>4. IsPercent(getBrokerSkewedByTopic(metas), Cardinality(over), size)
    BY <1>4, <2>3, PercentIs
  <2> QED BY <2>4 DEF FigureIs, Spread, Skewed, LeaderSkewed
<1> QED BY <1>5, <1>6

LEMMA LeaderSkewedIs ==
  ASSUME Typed, ReadRight, AllLed
  PROVE  FigureIs(LeaderSkewed, getBrokerLeaderSkewedByTopic(metas))
<1> PICK size : size = Cardinality(Used)
  OBVIOUS
<1> PICK total : total = Cardinality(Exists)
  OBVIOUS
<1> PICK over : over = {b \in Used : Over(LeaderOf(b), total)}
  OBVIOUS
<1> PICK leaders : leaders = {metas[p].leader : p \in DOMAIN metas}
  OBVIOUS
<1>1. BrokerSizes(metas) = Used /\ Cardinality(DOMAIN metas) = total
  BY DEF ReadRight, BrokerSizes, Used
<1>2. IsFiniteSet(Used) /\ IsFiniteSet(Exists) /\ IsFiniteSet(over)
  BY ClusterFinite, FS_Subset
<1>3. size \in Nat /\ Cardinality(over) \in Nat /\ total \in Nat
  BY <1>2, SizesAreNat
<1>4. leaders \subseteq Used
  BY ClusterFinite DEF ReadRight, AllLed
<1>5. CASE size = 0
  BY <1>1, <1>5 DEF FigureIs, IsPercent, getBrokerLeaderSkewedByTopic, Spread, Skewed, LeaderSkewed
<1>6. CASE size # 0
  <2>1. ASSUME NEW b \in Used
        PROVE  /\ Leads(metas, b) > ceil(size, total) <=> Over(LeaderOf(b), total)
               /\ Over(LeaderOf(b), total) => b \in leaders
    <3>1. {p \in DOMAIN metas : metas[p].leader = b} = {p \in Exists : leader[p] = b}
      BY DEF ReadRight
    <3>2. IsFiniteSet({p \in Exists : leader[p] = b})
      BY <1>2, FS_Subset
    <3>3. Leads(metas, b) = LeaderOf(b) /\ LeaderOf(b) \in Nat
      BY <3>1, <3>2, SizesAreNat DEF Leads, LeaderOf
    <3>4. Leads(metas, b) > ceil(size, total) <=> Over(LeaderOf(b), total)
      BY <1>3, <1>6, <3>3, CeilIs DEF Over
    <3>5. ASSUME b \notin leaders PROVE ~Over(LeaderOf(b), total)
      <4>1. {p \in Exists : leader[p] = b} = {}
        BY <3>5 DEF ReadRight
      <4>2. LeaderOf(b) = 0
        BY <4>1, FS_EmptySet DEF LeaderOf
      <4>3. (0 - 1) * size < total
        BY <1>3, <1>6
      <4> QED BY <1>3, <4>2, <4>3 DEF Over
    <3> QED BY <3>4, <3>5
  <2>2. {b \in leaders : Leads(metas, b) > ceil(size, total)} = over
    BY <1>4, <2>1
  <2>3. getBrokerLeaderSkewedByTopic(metas) = Percent(Cardinality(over), size)
    BY <1>1, <1>6, <2>2 DEF getBrokerLeaderSkewedByTopic
  <2>4. IsPercent(getBrokerLeaderSkewedByTopic(metas), Cardinality(over), size)
    BY <1>3, <2>3, PercentIs
  <2> QED BY <2>4 DEF FigureIs, Spread, Skewed, LeaderSkewed
<1> QED BY <1>5, <1>6

-----------------------------------------------------------------------------
(* The steps. *)

\* A figure is a matter of the cluster alone.
LEMMA FigureStays ==
  ASSUME UNCHANGED cluster, NEW f, NEW n
  PROVE  /\ FigureIs(f, n)' <=> FigureIs(f, n)
         /\ AllLed' <=> AllLed
         /\ Exists' = Exists
<1>1. replicas' = replicas /\ leader' = leader /\ alive' = alive
  BY DEF cluster
<1>2. Exists' = Exists /\ Used' = Used
  BY <1>1 DEF Exists, Used
<1>3. MapThenSumSet(Hosts, Used)' = MapThenSumSet(Hosts, Used)
  BY <1>1 DEF MapThenSumSet, MapThenFoldSet, Hosts, Used, Exists
<1>4. ASSUME NEW b PROVE Hosts(b)' = Hosts(b) /\ LeaderOf(b)' = LeaderOf(b)
  BY <1>1, <1>2 DEF Hosts, LeaderOf
<1>5. FigureIs(f, n)' <=> FigureIs(f, n)
  BY <1>1, <1>2, <1>3, <1>4 DEF FigureIs, Over, IsPercent
<1> QED BY <1>1, <1>2, <1>5 DEF AllLed

LEMMA InitIInv == Init => IInv
<1> SUFFICES ASSUME Init PROVE IInv
  OBVIOUS
<1> USE DEF Init
<1>1. rows \in [Figures -> Nat \cup {NoRow}] /\ exact \in [Figures -> BOOLEAN]
  OBVIOUS
<1>2. DOMAIN metas = {} /\ value \in Nat
  OBVIOUS
<1>3. calm \in BOOLEAN /\ ~calm /\ \A f \in Figures : ~exact[f]
  BY Zenon
<1>4. Typed
  BY <1>1, <1>2, <1>3 DEF Typed
<1> QED BY <1>3, <1>4 DEF IInv, Placed, FiguresExact

\* The cluster changes: whatever was read is out of date.
LEMMA ChangeIInv ==
  ASSUME IInv, ClusterChange,
         replicas' \in [Partitions -> ReplicaSets \cup {{}}],
         leader' \in [Partitions -> Brokers \cup {NoLeader, NoState}],
         alive' \in SUBSET Brokers
  PROVE  IInv'
<1>1. ~calm' /\ calm' \in BOOLEAN /\ exact' = [f \in Figures |-> FALSE]
  BY DEF ClusterChange
<1>2. exact' \in [Figures -> BOOLEAN] /\ \A f \in Figures : ~exact'[f]
  BY <1>1
<1>3. Typed' /\ Placed'
  BY <1>1, <1>2 DEF IInv, Typed, Placed, ClusterChange, job
<1> QED BY <1>1, <1>2, <1>3 DEF IInv, FiguresExact

LEMMA ClusterIInv ==
  ASSUME IInv,
         \/ DeleteTopic
         \/ \E p \in Partitions : AddPartition(p) \/ Reassign(p) \/ Elect(p)
         \/ \E b \in Brokers : BrokerStops(b) \/ BrokerStarts(b)
  PROVE  IInv'
<1>1. Typed
  BY DEF IInv
<1>2. CASE DeleteTopic
  BY <1>1, <1>2, ChangeIInv DEF DeleteTopic, Typed
<1>3. ASSUME NEW p \in Partitions, AddPartition(p) \/ Reassign(p) PROVE IInv'
  BY <1>1, <1>3, ChangeIInv DEF AddPartition, Reassign, Typed
<1>4. ASSUME NEW p \in Partitions, Elect(p) PROVE IInv'
  <2>1. PICK l \in Brokers \cup {NoLeader} : leader' = [leader EXCEPT ![p] = l]
    BY <1>1, <1>4 DEF Elect, Typed
  <2> QED BY <1>1, <1>4, <2>1, ChangeIInv DEF Elect, Typed
<1>5. ASSUME NEW b \in Brokers, BrokerStops(b) \/ BrokerStarts(b) PROVE IInv'
  BY <1>1, <1>5, ChangeIInv DEF BrokerStops, BrokerStarts, Typed
<1> QED BY <1>2, <1>3, <1>4, <1>5

\* A step that leaves the cluster and the rows alone keeps what they are.
LEMMA RowsStay ==
  ASSUME IInv, UNCHANGED cluster, UNCHANGED rows, UNCHANGED exact
  PROVE  /\ replicas' \in [Partitions -> ReplicaSets \cup {{}}]
         /\ leader' \in [Partitions -> Brokers \cup {NoLeader, NoState}]
         /\ alive' \in SUBSET Brokers
         /\ rows' \in [Figures -> Nat \cup {NoRow}]
         /\ exact' \in [Figures -> BOOLEAN]
         /\ FiguresExact'
<1>1. FiguresExact'
  BY FigureStays DEF IInv, FiguresExact
<1> QED BY <1>1 DEF IInv, Typed, cluster

\* The figure is over or given up: nothing read is kept.
LEMMA FinishedIInv ==
  ASSUME IInv, Finished, UNCHANGED cluster, UNCHANGED rows, UNCHANGED exact, calm' \in BOOLEAN
  PROVE  IInv'
<1>1. figure' \in Figures \cup {0}
  BY DEF Finished, IInv, Typed, Figures, Spread, Skewed, LeaderSkewed
<1>2. /\ pc' = "list" /\ unread' = {} /\ reading' = {} /\ metas' = <<>> /\ value' = 0
      /\ DOMAIN metas' = {}
  BY DEF Finished
<1>3. Typed'
  BY <1>1, <1>2, RowsStay DEF Typed
<1> QED BY <1>2, <1>3, RowsStay DEF IInv, Placed

\* The method caught an exception: its figure is 0 and not that of the cluster.
LEMMA CaughtIInv ==
  ASSUME IInv, Caught, ~calm', calm' \in BOOLEAN, pc # "list", UNCHANGED figure,
         UNCHANGED cluster, UNCHANGED rows, UNCHANGED exact
  PROVE  IInv'
<1>1. /\ pc' = "write" /\ unread' = {} /\ reading' = {} /\ metas' = <<>> /\ value' = 0
      /\ DOMAIN metas' = {}
  BY DEF Caught
<1>2. figure' \in Figures
  BY DEF IInv, Placed
<1>3. Typed'
  BY <1>1, <1>2, RowsStay DEF Typed
<1> QED BY <1>1, <1>2, <1>3, RowsStay DEF IInv, Placed

LEMMA ListIInv ==
  ASSUME IInv, Execute \/ TopicList \/ TopicMetadata \/ TopicListFails
  PROVE  IInv'
<1>1. /\ UNCHANGED cluster /\ UNCHANGED rows /\ UNCHANGED exact
      /\ calm' \in BOOLEAN
  BY DEF Execute, TopicList, TopicMetadata, TopicListFails, Failure, IInv, Typed
<1>2. CASE Execute
  BY <1>1, <1>2, FinishedIInv DEF Execute
<1>3. CASE TopicList
  <2>1. CASE Exists = {}
    BY <1>1, <1>3, <2>1, FinishedIInv DEF TopicList
  <2>2. CASE Exists # {}
    <3>1. /\ pc' = "topic" /\ figure' = figure /\ figure # 0 /\ unread' = unread
          /\ reading' = reading /\ metas' = metas /\ value' = value /\ pc = "list"
      BY <1>3, <2>2 DEF TopicList
    <3>2. Typed'
      BY <1>1, <3>1, RowsStay DEF IInv, Typed
    <3>3. Placed'
      BY <3>1 DEF IInv, Placed, Typed
    <3> QED BY <1>1, <3>1, <3>2, <3>3, RowsStay DEF IInv
  <2> QED BY <2>1, <2>2
<1>4. CASE TopicMetadata
  <2>1. /\ pc = "topic" /\ pc' = "partitions" /\ unread' = Exists /\ figure' = figure
        /\ reading' = reading /\ metas' = metas /\ value' = value
        /\ reading = {} /\ metas = <<>> /\ figure \in Figures
    BY <1>4 DEF TopicMetadata, IInv, Placed
  <2>2. Typed' /\ Placed'
    <3>1. Exists \subseteq Partitions
      BY DEF Exists
    <3> QED BY <1>1, <2>1, <3>1, RowsStay DEF IInv, Typed, Placed
  <2>3. Walked'
    <3>1. DOMAIN metas' = {} /\ reading' = {} /\ unread' = Exists'
      BY <1>1, <2>1, FigureStays
    <3> QED BY <3>1 DEF Walked
  <2> QED BY <1>1, <2>1, <2>2, <2>3, RowsStay DEF IInv
<1>5. CASE TopicListFails
  <2>1. /\ figure' = 0 /\ pc = "list" /\ pc' = pc /\ unread' = unread /\ reading' = reading
        /\ metas' = metas /\ value' = value
    BY <1>5 DEF TopicListFails
  <2>2. Typed' /\ Placed'
    BY <1>1, <2>1, RowsStay DEF IInv, Typed, Placed
  <2> QED BY <1>1, <2>1, <2>2, RowsStay DEF IInv
<1> QED BY <1>2, <1>3, <1>4, <1>5

LEMMA ReadLeaderIInv ==
  ASSUME IInv, ReadLeader
  PROVE  IInv'
<1> PICK p : p = Min(unread)
  OBVIOUS
<1>1. /\ UNCHANGED cluster /\ UNCHANGED rows /\ UNCHANGED exact /\ UNCHANGED figure
      /\ pc = "partitions" /\ reading = {} /\ unread # {}
  BY DEF ReadLeader
<1>2. p \in unread /\ p \in Partitions
  <2>1. IsFiniteSet(unread) /\ unread \subseteq Int
    <3>1. unread \subseteq Partitions
      BY DEF IInv, Typed
    <3>2. IsFiniteSet(Partitions) /\ Partitions \subseteq Nat
      BY BalanceAssumption
    <3>3. IsFiniteSet(unread)
      BY <3>1, <3>2, FS_Subset
    <3>4. unread \subseteq Int
      BY <3>1, <3>2
    <3> QED BY <3>3, <3>4
  <2> QED BY <1>1, <2>1, MinIn DEF IInv, Typed
<1>3. CASE leader[p] = NoState
  <2>1. Caught /\ calm' = FALSE
    BY <1>3 DEF ReadLeader
  <2> QED BY <1>1, <2>1, CaughtIInv
<1>4. CASE leader[p] # NoState
  <2> PICK r : r = [partition |-> p, leader |-> leader[p]]
    OBVIOUS
  <2>1. /\ reading' = {r} /\ unread' = unread \ {p} /\ pc' = pc /\ metas' = metas
        /\ value' = value /\ calm' = calm
    BY <1>4 DEF ReadLeader
  <2>2. r \in [partition : Partitions, leader : Brokers \cup {NoLeader}]
    BY <1>2, <1>4 DEF IInv, Typed
  <2>3. Typed' /\ Placed'
    BY <1>1, <2>1, <2>2, RowsStay DEF IInv, Typed, Placed
  <2>4. ASSUME calm PROVE Walked'
    <3>1. Walked
      BY <1>1, <2>4 DEF IInv
    <3>2. Exists = unread \cup DOMAIN metas
      BY <1>1, <3>1 DEF Walked
    <3>3. {s.partition : s \in reading'} = {p} /\ Exists' = Exists
      BY <1>1, <2>1, FigureStays
    <3>4. Exists' = unread' \cup {s.partition : s \in reading'} \cup DOMAIN metas'
      BY <1>2, <2>1, <3>2, <3>3
    <3> QED BY <1>1, <2>1, <3>1, <3>4 DEF Walked, cluster
  <2> QED BY <1>1, <2>1, <2>3, <2>4, RowsStay DEF IInv
<1> QED BY <1>3, <1>4

LEMMA ReadReplicasIInv ==
  ASSUME IInv, ReadReplicas
  PROVE  IInv'
<1>1. /\ UNCHANGED cluster /\ UNCHANGED rows /\ UNCHANGED exact /\ UNCHANGED figure
      /\ pc = "partitions" /\ pc' = pc /\ unread' = unread /\ value' = value /\ calm' = calm
      /\ reading' = {}
  BY DEF ReadReplicas
<1> PICK r \in reading :
      metas' = [p \in DOMAIN metas \cup {r.partition} |->
                  IF p = r.partition THEN [leader |-> r.leader, replicas |-> replicas[p]]
                                     ELSE metas[p]]
  BY DEF ReadReplicas
<1>2. /\ r.partition \in Partitions /\ r.leader \in Brokers \cup {NoLeader}
      /\ reading = {r}
  BY DEF IInv, Typed
<1>3. DOMAIN metas' = DOMAIN metas \cup {r.partition}
  OBVIOUS
<1>4. replicas[r.partition] \in SUBSET Brokers
  BY <1>2, BalanceAssumption DEF IInv, Typed
<1>5. \A p \in DOMAIN metas' : metas'[p] \in Meta
  BY <1>2, <1>3, <1>4 DEF IInv, Typed, Meta
<1>6. Typed' /\ Placed'
  BY <1>1, <1>2, <1>3, <1>5, RowsStay DEF IInv, Typed, Placed
<1>7. ASSUME calm PROVE Walked'
  <2>1. Walked
    BY <1>1, <1>7 DEF IInv
  <2>2. {s.partition : s \in reading} = {r.partition} /\ {s.partition : s \in reading'} = {}
    BY <1>1, <1>2
  <2>3. Exists' = unread' \cup {s.partition : s \in reading'} \cup DOMAIN metas'
    BY <1>1, <1>3, <2>1, <2>2, FigureStays DEF Walked
  <2>4. ASSUME NEW p \in DOMAIN metas'
        PROVE  metas'[p] = [leader |-> leader'[p], replicas |-> replicas'[p]]
    BY <1>1, <1>3, <2>1 DEF Walked, cluster
  <2> QED BY <1>1, <2>3, <2>4 DEF Walked
<1> QED BY <1>1, <1>6, <1>7, RowsStay DEF IInv

\* Whatever was read, the figures are numbers.
LEMMA FiguresTyped ==
  ASSUME Typed
  PROVE  /\ getBrokerSpreadByTopic(metas, alive) \in Nat
         /\ getBrokerSkewedByTopic(metas) \in Nat
         /\ getBrokerLeaderSkewedByTopic(metas) \in Nat
<1>1. IsFiniteSet(Brokers \cup {NoLeader}) /\ IsFiniteSet(alive)
  BY BalanceAssumption, FS_AddElement, FS_Subset DEF Typed
<1>2. BrokerSizes(metas) \subseteq Brokers
  BY DEF Typed, Meta, BrokerSizes
<1>3. {metas[p].leader : p \in DOMAIN metas} \subseteq Brokers \cup {NoLeader}
  BY DEF Typed, Meta
<1> PICK used : used = BrokerSizes(metas)
  OBVIOUS
<1> PICK over : over = {b \in used : Loaded(metas, b) >
                         ceil(Cardinality(used), PartitionAndReplicaTopics(metas))}
  OBVIOUS
<1> PICK overLed : overLed = {b \in {metas[p].leader : p \in DOMAIN metas} :
              Leads(metas, b) > ceil(Cardinality(used), Cardinality(DOMAIN metas))}
  OBVIOUS
<1>4. IsFiniteSet(used) /\ IsFiniteSet(over) /\ IsFiniteSet(overLed)
  <2>1. overLed \subseteq Brokers \cup {NoLeader}
    BY <1>3
  <2>2. used \subseteq Brokers /\ over \subseteq used
    BY <1>2
  <2> QED BY <1>1, <2>1, <2>2, BalanceAssumption, FS_Subset
<1>5. /\ Cardinality(used) \in Nat /\ Cardinality(over) \in Nat /\ Cardinality(overLed) \in Nat
      /\ Cardinality(alive) \in Nat
  BY <1>1, <1>4, SizesAreNat
<1>6. getBrokerSpreadByTopic(metas, alive) \in Nat
  BY <1>5, PercentIs DEF getBrokerSpreadByTopic
<1>7. getBrokerSkewedByTopic(metas) \in Nat
  BY <1>5, PercentIs DEF getBrokerSkewedByTopic
<1>8. getBrokerLeaderSkewedByTopic(metas) \in Nat
  BY <1>5, PercentIs DEF getBrokerLeaderSkewedByTopic
<1> QED BY <1>6, <1>7, <1>8

LEMMA ComputeIInv ==
  ASSUME IInv, Compute
  PROVE  IInv'
<1>1. /\ UNCHANGED cluster /\ UNCHANGED rows /\ UNCHANGED exact /\ UNCHANGED figure
      /\ pc = "partitions" /\ pc' = "write" /\ unread = {} /\ reading = {} /\ unread' = {}
      /\ reading' = {} /\ metas' = <<>> /\ calm' = calm /\ DOMAIN metas' = {}
  BY DEF Compute
<1>2. figure \in Figures
  BY <1>1 DEF IInv, Placed
<1>3. /\ figure = Spread => value' = getBrokerSpreadByTopic(metas, alive)
      /\ figure = Skewed => value' = getBrokerSkewedByTopic(metas)
      /\ figure = LeaderSkewed => value' = getBrokerLeaderSkewedByTopic(metas)
  BY DEF Compute, Spread, Skewed, LeaderSkewed
<1>4. value' \in Nat
  BY <1>2, <1>3, FiguresTyped DEF IInv, Figures
<1>5. Typed' /\ Placed'
  BY <1>1, <1>2, <1>4, RowsStay DEF IInv, Typed, Placed
<1>6. ASSUME calm, figure = LeaderSkewed => AllLed PROVE FigureIs(figure, value')
  <2>1. Walked
    BY <1>1, <1>6 DEF IInv
  <2>2. ReadRight
    BY <1>1, <2>1 DEF Walked, ReadRight
  <2> QED BY <1>2, <1>3, <1>6, <2>2, SpreadIs, SkewedIs, LeaderSkewedIs DEF IInv, Figures
<1>7. calm' /\ (figure' = LeaderSkewed => AllLed') => FigureIs(figure, value)'
  <2>1. FigureIs(figure, value') <=> FigureIs(figure, value)'
    BY <1>1, FigureStays
  <2> QED BY <1>1, <1>6, <2>1, FigureStays
<1> QED BY <1>1, <1>5, <1>7, RowsStay DEF IInv

LEMMA WriteIInv ==
  ASSUME IInv, WriteTopicRank
  PROVE  IInv'
<1>1. /\ UNCHANGED cluster /\ UNCHANGED calm /\ pc = "write" /\ figure \in Figures
      /\ rows' = [rows EXCEPT ![figure] = value] /\ exact' = [exact EXCEPT ![figure] = calm]
      /\ Finished
  BY DEF WriteTopicRank, IInv, Placed
<1>2. figure' \in Figures \cup {0}
  BY <1>1 DEF Finished, Figures, Spread, Skewed, LeaderSkewed
<1>3. /\ pc' = "list" /\ unread' = {} /\ reading' = {} /\ metas' = <<>> /\ value' = 0
      /\ DOMAIN metas' = {}
  BY <1>1 DEF Finished
<1>4. rows' \in [Figures -> Nat \cup {NoRow}] /\ exact' \in [Figures -> BOOLEAN]
  BY <1>1 DEF IInv, Typed
<1>5. Typed' /\ Placed'
  BY <1>1, <1>2, <1>3, <1>4 DEF IInv, Typed, Placed, cluster
<1>6. ASSUME NEW f \in Figures, exact'[f], f = LeaderSkewed => AllLed
      PROVE  FigureIs(f, rows'[f])
  <2>1. CASE f = figure
    <3>1. rows'[f] = value /\ calm
      BY <1>1, <1>6, <2>1 DEF IInv, Typed
    <3> QED BY <1>1, <1>6, <2>1, <3>1 DEF IInv
  <2>2. CASE f # figure
    <3>1. rows'[f] = rows[f] /\ exact[f]
      BY <1>1, <1>6, <2>2 DEF IInv, Typed
    <3> QED BY <1>6, <3>1 DEF IInv, FiguresExact
  <2> QED BY <2>1, <2>2
<1>7. FiguresExact'
  <2>1. ASSUME NEW f \in Figures PROVE FigureIs(f, rows'[f]) <=> FigureIs(f, rows[f])'
    BY <1>1, FigureStays
  <2> QED BY <1>1, <1>6, <2>1, FigureStays DEF FiguresExact
<1> QED BY <1>3, <1>5, <1>7 DEF IInv

LEMMA NextIInv == IInv /\ [Next]_vars => IInv'
<1> SUFFICES ASSUME IInv, [Next]_vars PROVE IInv'
  OBVIOUS
<1>1. CASE RequestFails
  <2>1. /\ Caught /\ calm' = FALSE /\ UNCHANGED cluster /\ UNCHANGED rows /\ UNCHANGED figure
        /\ UNCHANGED exact /\ pc # "list"
    BY <1>1 DEF RequestFails, Failure
  <2> QED BY <2>1, CaughtIInv
<1>2. CASE WriteFails
  <2>1. /\ Finished /\ calm' = FALSE /\ UNCHANGED cluster /\ UNCHANGED rows /\ UNCHANGED exact
    BY <1>2 DEF WriteFails, Failure
  <2> QED BY <2>1, FinishedIInv
<1>3. CASE UNCHANGED vars
  <2>1. /\ UNCHANGED cluster /\ UNCHANGED rows /\ UNCHANGED exact /\ figure' = figure /\ pc' = pc
        /\ unread' = unread /\ reading' = reading /\ metas' = metas /\ value' = value /\ calm' = calm
    BY <1>3 DEF vars, cluster
  <2>2. Typed' /\ Placed'
    BY <2>1, RowsStay DEF IInv, Typed, Placed
  <2>3. Walked' <=> Walked
    BY <2>1, FigureStays DEF Walked, cluster
  <2>4. /\ FigureIs(figure, value)' <=> FigureIs(figure, value)
        /\ AllLed' <=> AllLed
    BY <2>1, FigureStays
  <2> QED BY <2>1, <2>2, <2>3, <2>4, RowsStay DEF IInv
<1> QED BY <1>1, <1>2, <1>3, ClusterIInv, ListIInv, ReadLeaderIInv, ReadReplicasIInv, ComputeIInv,
           WriteIInv DEF Next, JobStep

\* The rows hold numbers, and the job keeps what it has read of a
\* partition in the shape it expects, whatever the cluster does meanwhile.
THEOREM TypesHold == Spec => []TypeOK
<1>1. ASSUME IInv PROVE Cardinality(reading) <= 1
  <2>1. CASE reading = {}
    BY <2>1, FS_EmptySet
  <2>2. CASE reading # {}
    <3>1. PICK r \in reading : TRUE
      BY <2>2
    <3>2. reading = {r}
      BY <1>1 DEF IInv, Typed
    <3>3. Cardinality({r}) = 1
      BY FS_Singleton
    <3> QED BY <3>2, <3>3
  <2> QED BY <2>1, <2>2
<1>2. IInv => TypeOK
  BY <1>1 DEF IInv, Typed, TypeOK
<1> QED BY <1>2, InitIInv, NextIInv, PTL DEF Spec

\* A figure taken while the cluster stood still and nothing failed is the
\* cluster's, for any number of brokers, partitions and replicas: the walk
\* reads every partition once, the replicas it counts are those the brokers
\* host, and both roundings agree with the exact shares.
THEOREM FiguresAreExact == Spec => []FiguresExact
<1>1. IInv => FiguresExact
  BY DEF IInv
<1> QED BY <1>1, InitIInv, NextIInv, PTL DEF Spec
=============================================================================
