----------------------------- MODULE TopicClean -----------------------------
(***************************************************************************)
(* Truncating a topic.  A request stores 0 in the topic's 'truncate' row;  *)
(* topicCleanTask, every ten minutes, measures a topic whose row is 0: if  *)
(* it holds records it adds a one-second retention to the topic's          *)
(* configuration, otherwise it deletes these keys and stores 1.  A change  *)
(* of one key reads the whole configuration from ZooKeeper and sends it    *)
(* back whole; an added key is awaited, a deleted key is not.  The topic   *)
(* page changes keys in the same way on a web thread.                      *)
(***************************************************************************)
EXTENDS Integers, Sequences, FiniteSets, Functions

CONSTANTS
  Partitions,  \* partitions of the topic
  MaxRecords,  \* bound: records produced to a partition
  MaxTroubles  \* bound: changes made on the topic page, and failures

ASSUME TopicAssumption ==
  /\ IsFiniteSet(Partitions)
  /\ MaxRecords \in Nat /\ MaxTroubles \in Nat

Writers == {"job", "page"}
CleanupValues == {"none", "delete", "compact"}    \* "none": the key is not set
RetentionValues == {"none", "1000", "long"}
Config == [cleanup: CleanupValues, retention: RetentionValues]
Change == [key: {"cleanup"}, value: CleanupValues]
            \cup [key: {"retention"}, value: RetentionValues]

VARIABLES
  begin, end,  \* first and next offset of each partition
  config,      \* the topic's node in ZooKeeper
  row,         \* tvalue of the topic's 'truncate' row: 0, 1, or 2 for no row
  phase,       \* the job: "idle", "listed", "ends" or "altering"
  ends,        \* the end offsets it has read, while it needs them
  empty,       \* it measured the topic as empty
  changes,     \* changes[w]: the changes writer w still has to make
  stage,       \* stage[w]: "describe", "alter" or "await" for the first of them
  copy,        \* copy[w]: the configuration w read for it
  requests,    \* alterConfigs requests on their way
  troubles,    \* changes made on the page, and failures, so far
  \* History:
  asked,       \* end offsets when the truncation was last asked for
  taken,       \* asked, when the job last read the row
  overtaken    \* begin offsets were past the end offsets read before them

log    == <<begin, end>>
job    == <<phase, ends, empty, overtaken>>
writer == <<changes, stage, copy>>
vars   == <<log, config, row, job, writer, requests, troubles, asked, taken>>

NoCopy == [cleanup |-> "none", retention |-> "none"]
NoEnds == [p \in Partitions |-> 0]
Total(f) == FoldFunction(+, 0, f)

Init ==
  /\ begin = [p \in Partitions |-> 0]
  /\ end \in [Partitions -> 0..MaxRecords]
  /\ config \in [cleanup: {"none", "compact"}, retention: {"none", "long"}]
  /\ row = 2
  /\ phase = "idle" /\ ends = begin /\ empty = FALSE /\ overtaken = FALSE
  /\ changes = [w \in Writers |-> <<>>]
  /\ stage = [w \in Writers |-> "describe"]
  /\ copy = [w \in Writers |-> NoCopy]
  /\ requests = {} /\ troubles = 0
  /\ asked = begin /\ taken = begin

-----------------------------------------------------------------------------
(* The topic.                                                               *)

Produce(p) ==
  /\ end[p] < MaxRecords
  /\ end' = [end EXCEPT ![p] = @ + 1]
  /\ UNCHANGED <<begin, config, row, job, writer, requests, troubles, asked, taken>>

\* Retention deletes old records where the cleanup policy is, or defaults to,
\* delete.  Expiry after days is left out.
Expire(p) ==
  /\ config.retention = "1000" /\ config.cleanup # "compact"
  /\ \E k \in (begin[p] + 1)..end[p] : begin' = [begin EXCEPT ![p] = k]
  /\ UNCHANGED <<end, config, row, job, writer, requests, troubles, asked, taken>>

-----------------------------------------------------------------------------
(* Changing a key: addTopicConfig and deleteTopicConfig.                    *)

\* describeTopicConfig.
DescribeTopicConfig(w) ==
  /\ changes[w] # <<>> /\ stage[w] = "describe"
  /\ copy' = [copy EXCEPT ![w] = config]
  /\ stage' = [stage EXCEPT ![w] = "alter"]
  /\ UNCHANGED <<log, config, row, job, changes, requests, troubles, asked, taken>>

Request(w) == LET c == Head(changes[w])
              IN [by |-> w, change |-> c, config |-> [copy[w] EXCEPT ![c.key] = c.value]]

Finish(w) ==
  /\ changes' = [changes EXCEPT ![w] = Tail(@)]
  /\ stage' = [stage EXCEPT ![w] = "describe"]
  /\ copy' = [copy EXCEPT ![w] = NoCopy]

\* Mutant: no change waits for the answer.
AlterConfigsUnawaited(w) ==
  /\ changes[w] # <<>> /\ stage[w] = "alter"
  /\ requests' = requests \cup {Request(w)}
  /\ Finish(w)
  /\ UNCHANGED <<log, config, row, job, troubles, asked, taken>>

\* alterConfigs: only an added key waits for the answer.
AlterConfigs(w) ==
  /\ changes[w] # <<>> /\ stage[w] = "alter"
  /\ requests' = requests \cup {Request(w)}
  /\ IF Head(changes[w]).value = "none"
     THEN Finish(w)
     ELSE stage' = [stage EXCEPT ![w] = "await"] /\ UNCHANGED <<changes, copy>>
  /\ UNCHANGED <<log, config, row, job, troubles, asked, taken>>

AlterReturns(w) ==
  /\ changes[w] # <<>> /\ stage[w] = "await"
  /\ Request(w) \notin requests
  /\ Finish(w)
  /\ UNCHANGED <<log, config, row, job, requests, troubles, asked, taken>>

Trouble == troubles < MaxTroubles /\ troubles' = troubles + 1

\* The answer does not come: an exception is logged, the request may still act.
AlterTimesOut(w) ==
  /\ Trouble
  /\ changes[w] # <<>> /\ stage[w] = "await"
  /\ Finish(w)
  /\ UNCHANGED <<log, config, row, job, requests, asked, taken>>

\* Requests of several clients reach the brokers in any order.
ApplyConfigs(n) ==
  /\ n \in requests
  /\ requests' = requests \ {n}
  /\ config' = n.config
  /\ UNCHANGED <<log, row, job, writer, troubles, asked, taken>>

RejectConfigs(n) ==
  /\ Trouble
  /\ n \in requests
  /\ requests' = requests \ {n}
  /\ UNCHANGED <<log, config, row, job, writer, asked, taken>>

-----------------------------------------------------------------------------
(* Web threads.                                                             *)

CleanTopicData ==
  /\ row' = 0
  /\ asked' = end
  /\ UNCHANGED <<log, config, job, writer, requests, troubles, taken>>

AlterTopicConfig(c) ==
  /\ Trouble
  /\ changes["page"] = <<>>
  /\ changes' = [changes EXCEPT !["page"] = <<c>>]
  /\ UNCHANGED <<log, config, row, job, stage, copy, requests, asked, taken>>

-----------------------------------------------------------------------------
(* The job: topicCleanTask.                                                 *)

\* getCleanTopicList.  The requests of the last pass, ten minutes ago, have
\* been answered or have timed out.
ListTopics ==
  /\ phase = "idle" /\ row = 0
  /\ \A n \in requests : n.by # "job"
  /\ phase' = "listed"
  /\ taken' = asked
  /\ UNCHANGED <<log, config, row, ends, empty, overtaken, writer, requests, troubles, asked>>

\* getKafkaRealLogSize reads all end offsets, then all begin offsets.
EndOffsets ==
  /\ phase = "listed"
  /\ phase' = "ends"
  /\ ends' = end
  /\ UNCHANGED <<log, config, row, empty, overtaken, writer, requests, troubles, asked, taken>>

\* Mutants: the cleanup policy is taken for granted; a last record is not
\* counted.
AddRetentionOnly == <<[key |-> "retention", value |-> "1000"]>>
HasSeveralRecords(size) == size > 1

Add == <<[key |-> "cleanup", value |-> "delete"], [key |-> "retention", value |-> "1000"]>>
Delete == <<[key |-> "cleanup", value |-> "none"], [key |-> "retention", value |-> "none"]>>
HasRecords(size) == size > 0

BeginningOffsets ==
  /\ phase = "ends"
  /\ phase' = "altering"
  /\ empty' = ~HasRecords(Total(ends) - Total(begin))
  /\ overtaken' = \E p \in Partitions : begin[p] > ends[p]
  /\ ends' = NoEnds
  /\ changes' = [changes EXCEPT !["job"] = IF empty' THEN Delete ELSE Add]
  /\ UNCHANGED <<log, config, row, stage, copy, requests, troubles, asked, taken>>

\* A measurement throws and ends the job.
MeasureFails ==
  /\ Trouble
  /\ phase \in {"listed", "ends"}
  /\ phase' = "idle" /\ ends' = NoEnds
  /\ UNCHANGED <<log, config, row, empty, overtaken, writer, requests, asked, taken>>

\* The next topic, or the end: an emptied topic's row becomes 1.
NextTopic ==
  /\ phase = "altering" /\ changes["job"] = <<>>
  /\ phase' = "idle"
  /\ row' = IF empty THEN 1 ELSE row
  /\ empty' = FALSE /\ overtaken' = FALSE
  /\ UNCHANGED <<log, config, ends, writer, requests, troubles, asked, taken>>

WriterStep(w) == DescribeTopicConfig(w) \/ AlterConfigs(w) \/ AlterReturns(w)
TopicCleanTask ==
  ListTopics \/ EndOffsets \/ BeginningOffsets \/ NextTopic \/ WriterStep("job")

Next ==
  \/ \E p \in Partitions : Produce(p) \/ Expire(p)
  \/ CleanTopicData
  \/ \E c \in Change : AlterTopicConfig(c)
  \/ TopicCleanTask \/ MeasureFails
  \/ WriterStep("page")
  \/ \E w \in Writers : AlterTimesOut(w)
  \/ \E n \in requests : ApplyConfigs(n) \/ RejectConfigs(n)

Spec == Init /\ [][Next]_vars

\* The scheduler and the web threads run on, the brokers answer, and retention
\* is enforced where it stays short.
FairSpec ==
  /\ Spec
  /\ WF_vars(TopicCleanTask) /\ WF_vars(WriterStep("page"))
  /\ WF_vars(\E n \in requests : ApplyConfigs(n))
  /\ \A p \in Partitions : WF_vars(Expire(p))
-----------------------------------------------------------------------------
(* Properties.                                                              *)

\* The types of all variables.
TypeOK ==
  /\ begin \in [Partitions -> 0..MaxRecords]
  /\ end \in [Partitions -> 0..MaxRecords]
  /\ \A p \in Partitions : begin[p] <= end[p]
  /\ config \in Config
  /\ row \in 0..2
  /\ phase \in {"idle", "listed", "ends", "altering"}
  /\ ends \in [Partitions -> 0..MaxRecords]
  /\ empty \in BOOLEAN /\ overtaken \in BOOLEAN
  /\ \A w \in Writers : \A i \in DOMAIN changes[w] : changes[w][i] \in Change
  /\ stage \in [Writers -> {"describe", "alter", "await"}]
  /\ copy \in [Writers -> Config]
  /\ requests \subseteq [by: Writers, change: Change, config: Config]

\* When the row becomes 1, every record there was when the request the job read
\* was made is gone, although end and begin are read one after the other while
\* records come and go; unless a record written between the two readings expired
\* before the second one.
TruncatedMeansGone ==
  [][row = 0 /\ row' = 1 /\ ~overtaken =>
       \A p \in Partitions : begin[p] >= taken[p]]_vars

\* A pass that found records leaves both keys in force, unless the page changed
\* something meanwhile: the second change, built on a fresh read, keeps the first.
BothKeysSet ==
  phase = "altering" /\ ~empty /\ changes["job"] = <<>> /\ troubles = 0
    => config = [cleanup |-> "delete", retention |-> "1000"]

\* A topic asked to be truncated is truncated in the end, once producers and the
\* page leave it alone.
TruncationEnds == row = 0 ~> row = 1

\* "delete znode" (TopicRankJob.java:87): when all changes have been answered, a
\* truncated topic no longer has the one-second retention.
RetentionRestored ==
  row = 1 /\ phase = "idle" /\ requests = {} /\ troubles = 0 => config.retention # "1000"

\* "0:truncating,1:truncated" (TopicConstants.java:19): without that exception.
\* What one partition has too little hides what another one has left.
MarkedMeansGone ==
  [][row = 0 /\ row' = 1 => \A p \in Partitions : begin[p] >= taken[p]]_vars
=============================================================================
