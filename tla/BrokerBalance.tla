---------------------------- MODULE BrokerBalance ----------------------------
(***************************************************************************)
(* How evenly a topic lies on its brokers.  TopicRankJob takes one figure  *)
(* after the other (spread, skew, leader skew): it walks over the topic's  *)
(* partitions in ZooKeeper, asks for the leader and then for the replicas  *)
(* of each, computes a percentage and replaces the figure's row.  Nothing  *)
(* holds the cluster still meanwhile.  One topic is modelled: topics share *)
(* only the batch their rows are written in.                               *)
(***************************************************************************)
EXTENDS Integers, FiniteSets, FiniteSetsExt

CONSTANTS
  Brokers,         \* the brokers that are, or may be, in the cluster
  Partitions,      \* the partitions the topic may have
  ReplicaSets,     \* the sets of brokers a partition is placed on
  NoLeader,        \* "leader":-1 in the state of a partition
  NoState,         \* the partition's state is not written yet
  MaxChanges,      \* how often the cluster changes
  MaxFailures      \* how many requests and inserts fail

ASSUME BalanceAssumption ==
  /\ ReplicaSets \subseteq (SUBSET Brokers) \ {{}}
  /\ NoLeader \notin Brokers /\ NoState \notin Brokers /\ NoLeader # NoState
  /\ Partitions \subseteq Nat /\ IsFiniteSet(Partitions) /\ IsFiniteSet(Brokers)
  /\ MaxChanges \in Nat /\ MaxFailures \in Nat

VARIABLES
  replicas,   \* the topic's assignment; {} is a partition it does not have
  leader,     \* what the state of each partition names
  alive,      \* /brokers/ids
  rows,       \* ke_topic_rank, by tkey
  figure,     \* the figure under way, 1..3; 0 between two runs of the job
  pc,         \* what the job does next for it
  unread,     \* the partitions whose state is still to be read
  reading,    \* the partition whose leader is read and replicas are not
  metas,      \* topicMetas: the partitions read, with what was read
  value,      \* the percentage to be written
  exact,      \* history: figures written from a cluster that has not changed
  calm,       \* history: no change and no exception since the figure began
  changes, failures

cluster == <<replicas, leader, alive>>
job == <<figure, pc, unread, reading, metas, value>>
vars == <<replicas, leader, alive, rows, figure, pc, unread, reading, metas,
          value, exact, calm, changes, failures>>

Spread == 1
Skewed == 2
LeaderSkewed == 3
Figures == {Spread, Skewed, LeaderSkewed}
NoRow == -1
Exists == {p \in Partitions : replicas[p] # {}}
Meta == [leader : Brokers \cup {NoLeader}, replicas : SUBSET Brokers]

-----------------------------------------------------------------------------
(* The figures.  m maps the partitions that were read to what was read. *)

\* Mutant: the even share is rounded down.
CeilRoundsDown(numerator, denominator) == denominator \div numerator

ceil(numerator, denominator) ==
  IF denominator % numerator = 0 THEN denominator \div numerator
                                 ELSE denominator \div numerator + 1

BrokerSizes(m) == UNION {m[p].replicas : p \in DOMAIN m}

\* Division by zero throws; what is caught leaves the figure at 0.
Percent(n, size) == IF size = 0 THEN 0 ELSE (n * 100) \div size

getBrokerSpreadByTopic(m, brokers) ==
  Percent(Cardinality(BrokerSizes(m)), Cardinality(brokers))

Loaded(m, b) == Cardinality({p \in DOMAIN m : b \in m[p].replicas})

PartitionAndReplicaTopics(m) ==
  MapThenSumSet(LAMBDA p : Cardinality(m[p].replicas), DOMAIN m)

getBrokerSkewedByTopic(m) ==
  LET used == BrokerSizes(m)
      size == Cardinality(used)
  IN  IF size = 0 THEN 0
      ELSE Percent(Cardinality({b \in used : Loaded(m, b) >
                     ceil(size, PartitionAndReplicaTopics(m))}), size)

Leads(m, b) == Cardinality({p \in DOMAIN m : m[p].leader = b})

getBrokerLeaderSkewedByTopic(m) ==
  LET size == Cardinality(BrokerSizes(m))
  IN  IF size = 0 THEN 0
      ELSE Percent(Cardinality({b \in {m[p].leader : p \in DOMAIN m} :
                     Leads(m, b) > ceil(size, Cardinality(DOMAIN m))}), size)

-----------------------------------------------------------------------------
(* The cluster.  Every change here is one that ZooKeeper shows at once.      *)

Init ==
  /\ replicas \in [Partitions -> ReplicaSets \cup {{}}]
  /\ alive \in SUBSET Brokers
  /\ leader \in [Partitions -> Brokers \cup {NoLeader, NoState}]
  /\ \A p \in Partitions :
       IF replicas[p] = {} THEN leader[p] = NoState
       ELSE IF replicas[p] \cap alive = {} THEN leader[p] = NoLeader
       ELSE leader[p] \in replicas[p] \cap alive
  /\ rows = [f \in Figures |-> NoRow] /\ exact = [f \in Figures |-> FALSE]
  /\ figure = 0 /\ pc = "list" /\ unread = {} /\ reading = {} /\ metas = <<>>
  /\ value = 0 /\ calm = FALSE /\ changes = 0 /\ failures = 0

ClusterChange ==
  /\ changes < MaxChanges
  /\ changes' = changes + 1 /\ calm' = FALSE
  /\ exact' = [f \in Figures |-> FALSE]
  /\ UNCHANGED <<rows, job, failures>>

\* A new partition, of a new topic or added to it: the assignment is written
\* first, its state by the controller later.
AddPartition(p) ==
  /\ ClusterChange
  /\ replicas[p] = {}
  /\ \E r \in ReplicaSets : replicas' = [replicas EXCEPT ![p] = r]
  /\ UNCHANGED <<leader, alive>>

\* A reassignment ends.
Reassign(p) ==
  /\ ClusterChange
  /\ replicas[p] # {}
  /\ \E r \in ReplicaSets \ {replicas[p]} : replicas' = [replicas EXCEPT ![p] = r]
  /\ UNCHANGED <<leader, alive>>

\* The controller names a leader, or that there is none.
Elect(p) ==
  /\ ClusterChange
  /\ replicas[p] # {}
  /\ \E l \in (IF replicas[p] \cap alive = {} THEN {NoLeader} ELSE replicas[p] \cap alive) :
       l # leader[p] /\ leader' = [leader EXCEPT ![p] = l]
  /\ UNCHANGED <<replicas, alive>>

BrokerStops(b) ==
  /\ ClusterChange
  /\ b \in alive /\ alive' = alive \ {b}
  /\ UNCHANGED <<replicas, leader>>

BrokerStarts(b) ==
  /\ ClusterChange
  /\ b \in Brokers \ alive /\ alive' = alive \cup {b}
  /\ UNCHANGED <<replicas, leader>>

DeleteTopic ==
  /\ ClusterChange
  /\ Exists # {}
  /\ replicas' = [p \in Partitions |-> {}]
  /\ leader' = [p \in Partitions |-> NoState]
  /\ UNCHANGED alive

-----------------------------------------------------------------------------
(* The job: brokerPerformanceByTopicStats for one figure after the other.    *)

Finished == figure' = (figure + 1) % 4 /\ pc' = "list"
            /\ unread' = {} /\ reading' = {} /\ metas' = <<>> /\ value' = 0

\* The earlier steps of execute are over, and the figures begin.
Execute ==
  /\ figure = 0 /\ Finished
  /\ UNCHANGED <<cluster, rows, exact, calm, changes, failures>>

\* topicList: a topic that is not listed gets no row.
TopicList ==
  /\ figure # 0 /\ pc = "list"
  /\ calm' = TRUE
  /\ IF Exists = {} THEN Finished
     ELSE pc' = "topic" /\ UNCHANGED <<figure, unread, reading, metas, value>>
  /\ UNCHANGED <<cluster, rows, exact, changes, failures>>

\* topicMetadata: the partitions of the topic, none when it is gone.
TopicMetadata ==
  /\ pc = "topic"
  /\ unread' = Exists
  /\ pc' = "partitions"
  /\ UNCHANGED <<cluster, rows, figure, reading, metas, value, exact, calm, changes, failures>>

\* What a figure's method catches leaves its figure at 0.
Caught == pc' = "write" /\ value' = 0 /\ unread' = {} /\ reading' = {} /\ metas' = <<>>

\* The state of a partition, in the order of the keys: its absence throws.
ReadLeader ==
  /\ pc = "partitions" /\ reading = {} /\ unread # {}
  /\ LET p == Min(unread)
     IN  IF leader[p] = NoState THEN Caught /\ calm' = FALSE
         ELSE /\ reading' = {[partition |-> p, leader |-> leader[p]]}
              /\ unread' = unread \ {p}
              /\ UNCHANGED <<pc, metas, value, calm>>
  /\ UNCHANGED <<cluster, rows, figure, exact, changes, failures>>

\* getTopicPartitionReplicas: an empty list when the partition is gone.
ReadReplicas ==
  /\ pc = "partitions"
  /\ \E r \in reading :
       metas' = [p \in DOMAIN metas \cup {r.partition} |->
                   IF p = r.partition
                   THEN [leader |-> r.leader, replicas |-> replicas[p]]
                   ELSE metas[p]]
  /\ reading' = {}
  /\ UNCHANGED <<cluster, rows, figure, pc, unread, value, exact, calm, changes, failures>>

\* The figure is computed; only the spread asks for the brokers, and last.
Compute ==
  /\ pc = "partitions" /\ unread = {} /\ reading = {}
  /\ value' = CASE figure = Spread       -> getBrokerSpreadByTopic(metas, alive)
                [] figure = Skewed       -> getBrokerSkewedByTopic(metas)
                [] figure = LeaderSkewed -> getBrokerLeaderSkewedByTopic(metas)
  /\ pc' = "write" /\ metas' = <<>>
  /\ UNCHANGED <<cluster, rows, figure, unread, reading, exact, calm, changes, failures>>

\* Mutant: an insert that leaves a row alone when there is one.
WriteTopicRankOnce ==
  /\ pc = "write"
  /\ IF rows[figure] # NoRow THEN UNCHANGED <<rows, exact>>
     ELSE /\ rows' = [rows EXCEPT ![figure] = value]
          /\ exact' = [exact EXCEPT ![figure] = calm]
  /\ Finished
  /\ UNCHANGED <<cluster, calm, changes, failures>>

\* writeTopicRank replaces the row.
WriteTopicRank ==
  /\ pc = "write"
  /\ rows' = [rows EXCEPT ![figure] = value]
  /\ exact' = [exact EXCEPT ![figure] = calm]
  /\ Finished
  /\ UNCHANGED <<cluster, calm, changes, failures>>

Failure == failures < MaxFailures /\ failures' = failures + 1 /\ calm' = FALSE

\* A request of a figure's method fails.
RequestFails ==
  /\ Failure
  /\ pc \in {"topic", "partitions"}
  /\ Caught
  /\ UNCHANGED <<cluster, rows, figure, exact, changes>>

\* topicList fails: nothing catches it, and execute ends.
TopicListFails ==
  /\ Failure
  /\ figure # 0 /\ pc = "list"
  /\ figure' = 0
  /\ UNCHANGED <<cluster, rows, pc, unread, reading, metas, value, exact, changes>>

\* writeTopicRank fails: it is logged, and the next figure begins.
WriteFails ==
  /\ Failure
  /\ pc = "write"
  /\ Finished
  /\ UNCHANGED <<cluster, rows, exact, changes>>

JobStep == \/ Execute \/ TopicList \/ TopicMetadata \/ ReadLeader \/ ReadReplicas
           \/ Compute \/ WriteTopicRank

Next == \/ JobStep \/ RequestFails \/ TopicListFails \/ WriteFails \/ DeleteTopic
        \/ \E p \in Partitions : AddPartition(p) \/ Reassign(p) \/ Elect(p)
        \/ \E b \in Brokers : BrokerStops(b) \/ BrokerStarts(b)

Spec == Init /\ [][Next]_vars

\* The scheduler thread takes its next step; a state's writer is the
\* controller, which owes nothing to this program.
FairSpec == Spec /\ WF_vars(JobStep)

-----------------------------------------------------------------------------
(* What the figures are to say, of the cluster as it is.                     *)

Used == UNION {replicas[p] : p \in Exists}
Hosts(b) == Cardinality({p \in Exists : b \in replicas[p]})
LeaderOf(b) == Cardinality({p \in Exists : leader[p] = b})

\* The percentage n is k of m: rounded down, and 0 of nothing.
IsPercent(n, k, m) ==
  IF m = 0 THEN n = 0 ELSE n * m <= 100 * k /\ 100 * k < (n + 1) * m

\* b has more than its share of a total when it has more than every broker has
\* in a placement as even as can be: one less would still be an even share.
Over(amount, total) == (amount - 1) * Cardinality(Used) >= total

FigureIs(f, n) ==
  CASE f = Spread -> IsPercent(n, Cardinality(Used), Cardinality(alive))
    [] f = Skewed ->
         IsPercent(n, Cardinality({b \in Used : Over(Hosts(b), MapThenSumSet(Hosts, Used))}),
                   Cardinality(Used))
    [] f = LeaderSkewed ->
         IsPercent(n, Cardinality({b \in Used : Over(LeaderOf(b), Cardinality(Exists))}),
                   Cardinality(Used))

\* Every partition has a leader, and one of its replicas.
AllLed == \A p \in Exists : leader[p] \in replicas[p]

-----------------------------------------------------------------------------
(* Properties.                                                               *)

\* The rows hold percentages, the job is in the middle of one figure, and what
\* it has read of a partition has the shape the page and the job expect.
TypeOK ==
  /\ replicas \in [Partitions -> ReplicaSets \cup {{}}]
  /\ leader \in [Partitions -> Brokers \cup {NoLeader, NoState}]
  /\ alive \in SUBSET Brokers
  /\ rows \in [Figures -> Nat \cup {NoRow}]
  /\ figure \in Figures \cup {0}
  /\ pc \in {"list", "topic", "partitions", "write"}
  /\ unread \subseteq Partitions
  /\ reading \subseteq [partition : Partitions, leader : Brokers \cup {NoLeader}]
  /\ Cardinality(reading) <= 1
  /\ DOMAIN metas \subseteq Partitions /\ \A p \in DOMAIN metas : metas[p] \in Meta
  /\ value \in Nat
  /\ exact \in [Figures -> BOOLEAN] /\ calm \in BOOLEAN

\* A figure that was taken while the cluster stood still, and nothing failed,
\* is the one of the cluster, for as long as it goes on standing still: the
\* walk over the partitions and the two roundings of getBroker*ByTopic give
\* the percentage of the brokers in use that carry more than an even share.
\* (A partition without a leader counts for a broker -1 in the leader skew.)
FiguresExact ==
  \A f \in Figures :
    exact[f] /\ (f = LeaderSkewed => AllLed) => FigureIs(f, rows[f])

\* Once the cluster stands still and nothing fails any more, the rows that
\* TopicRankJob replaces every ten minutes come to show it, and go on doing
\* so: what an earlier failure or a torn walk left there does not stay.
FiguresConverge ==
  <>[](Exists # {} /\ AllLed => \A f \in Figures : FigureIs(f, rows[f]))
=============================================================================
