----------------------------- MODULE LagSampling -----------------------------
(***************************************************************************)
(* The samples behind the charts and the consumer alarms.  Every ten       *)
(* minutes KafkaTopicMetricsJob stores a row of ke_consumer_bscreen per    *)
(* group and topic, and TopicRankJob a row of ke_logsize per topic: what   *)
(* was written, what was consumed, and how both differ from the row before.*)
(* Rows are gathered in a list and inserted in batches; the list is cleared*)
(* only when the insert returned, so a batch that failed goes with the next*)
(* one.  KafkaRecordCleanJob deletes old rows.  All these jobs share the   *)
(* scheduler's one thread.                                                 *)
(*                                                                         *)
(* A series is <<group, topic>>, or <<Producer, topic>> for ke_logsize,    *)
(* whose rows have a log size only (offsets 0).  Sums over partitions are  *)
(* one number.  timespan, which orders the rows of a series, is the number *)
(* of the pass.  Clusters with offsets in Kafka only.  The Kafka client     *)
(* answers -1 for a partition without a committed offset; the page of a    *)
(* group knows that (OffsetServiceImpl), this job adds it up.              *)
(***************************************************************************)
EXTENDS Integers, FiniteSets

CONSTANTS
  Groups, Topics,
  Producer,     \* stands for the group of a topic's own series
  NoSeries,     \* series outside the loop body
  BATCH_SIZE,   \* a list longer than this is inserted
  Retain,       \* kafka.eagle.metrics.retain, in days
  MaxOffset,    \* bound: MaxOffset[t], the log size of a topic
  MaxPass,      \* bound: passes of the two sampling jobs
  MaxDay        \* bound: days

ASSUME SamplingAssumption ==
  /\ Producer \notin Groups
  /\ NoSeries \notin (Groups \union {Producer}) \X Topics
  /\ BATCH_SIZE \in Nat /\ Retain \in Nat
  /\ MaxOffset \in [Topics -> Nat] /\ MaxPass \in Nat /\ MaxDay \in Nat

Consumers == Groups \X Topics
Producers == {Producer} \X Topics
Series == Consumers \union Producers

VARIABLES
  logEnd,     \* logEnd[t]: end offset of the topic
  committed,  \* committed[s]: offset the group committed, or NoOffset
  day,        \* today
  pass,       \* passes begun, and the time stamp of the rows of this one
  pc,         \* the scheduler thread: "idle", "walk", "offsets", "logsize",
              \* "append", "flush", "final"
  walked,     \* the series the pass is about
  sampled,    \* those of them it has put in the list
  series,     \* local variables of the loop body
  offsets,
  logsize,
  buffer,     \* bscreenConsumers, topicLogSizes: the list of rows to insert
  rows,       \* the two tables
  since,      \* history: the topic when the loop came to it
  doubted,    \* history: an insert of this pass was carried out unanswered
  lost        \* history: the last pass that ended had dropped rows

world == <<logEnd, committed, day>>
body == <<series, offsets, logsize, since>>
walk == <<walked, sampled>>
table == <<rows, doubted>>
vars == <<logEnd, committed, day, pass, pc, walked, sampled, series, offsets,
          logsize, since, buffer, rows, doubted, lost>>

NoOffset == -1
Offset == Nat \union {NoOffset}

Row == [series: Series, timespan: 1..MaxPass, tm: 0..MaxDay,
        logsize: Nat, offsets: Offset, difflogsize: Int, diffoffsets: Int]
Lag(r) == r.logsize - r.offsets
Blank == [logEnd |-> 0, committed |-> 0, reset |-> FALSE]

\* The rows of a series, and the newest of some rows.
RowsOf(s) == {r \in rows : r.series = s}
IsNewest(r, S) == r \in S /\ \A q \in S : q.timespan <= r.timespan
Newest(S) == CHOOSE r \in S : IsNewest(r, S)
-----------------------------------------------------------------------------
Init ==
  /\ logEnd = [t \in Topics |-> 0] /\ committed = [s \in Consumers |-> NoOffset]
  /\ day = 0 /\ pass = 0 /\ pc = "idle"
  /\ walked = {} /\ sampled = {}
  /\ series = NoSeries /\ offsets = 0 /\ logsize = 0 /\ since = Blank
  /\ buffer = {} /\ rows = {}
  /\ doubted = FALSE /\ lost = FALSE

\* Kafka.
Produce(t) ==
  /\ logEnd[t] < MaxOffset[t]
  /\ logEnd' = [logEnd EXCEPT ![t] = @ + 1]
  /\ UNCHANGED <<committed, day, pass, pc, buffer, lost, walk, body, table>>

Consume(s) ==
  /\ committed[s] < logEnd[s[2]]
  /\ committed' = [committed EXCEPT ![s] = @ + 1]
  /\ UNCHANGED <<logEnd, day, pass, pc, buffer, lost, walk, body, table>>

\* The loop is at a series for which R holds: its two totals no longer belong
\* together.
Disturb(R) ==
  /\ since' = [since EXCEPT !.reset = @ \/ R]
  /\ UNCHANGED <<day, pass, pc, walk, series, offsets, logsize, buffer, lost, table>>

\* An operator resets the offset of a group.
Rewind(s) ==
  /\ committed[s] > 0
  /\ committed' = [committed EXCEPT ![s] = 0]
  /\ Disturb(series = s) /\ UNCHANGED logEnd

\* A topic is deleted, its groups' offsets with it, and created again.
RecreateTopic(t) ==
  /\ logEnd[t] > 0
  /\ logEnd' = [logEnd EXCEPT ![t] = 0]
  /\ committed' = [s \in Consumers |-> IF s[2] = t THEN NoOffset ELSE committed[s]]
  /\ Disturb(series # NoSeries /\ series[2] = t)

Midnight ==
  /\ day < MaxDay /\ day' = day + 1
  /\ UNCHANGED <<logEnd, committed, pass, pc, buffer, lost, walk, body, table>>
-----------------------------------------------------------------------------
(* A pass of a sampling job: W is Consumers or Producers.                   *)

Execute(W) ==
  /\ pc = "idle" /\ pass < MaxPass
  /\ pass' = pass + 1 /\ pc' = "walk"
  /\ walked' = W /\ lost' = FALSE
  /\ UNCHANGED <<world, sampled, body, buffer, table>>

\* The end of execute: its list and its local variables are gone.
Leave(dropped) ==
  /\ pc' = "idle" /\ lost' = dropped
  /\ buffer' = {} /\ walked' = {} /\ sampled' = {} /\ doubted' = FALSE
OutOfBody == series' = NoSeries /\ offsets' = 0 /\ logsize' = 0 /\ since' = Blank

\* Mutant: log sizes are asked for before offsets.
OrderSwapped(s) ==
  [walk |-> "logsize", offsets |-> "append",
   logsize |-> IF s \in Consumers THEN "offsets" ELSE "append"]

\* The loop body: where it goes from each place.  Of a group the offsets are
\* asked for first.
Order(s) ==
  [walk |-> IF s \in Consumers THEN "offsets" ELSE "logsize",
   offsets |-> "logsize", logsize |-> "append"]

\* The loop comes to a series.  A group or topic whose description fails is
\* left out without a word, so the loop may also end at any time.
NextSeries(s) ==
  /\ pc = "walk" /\ s \in walked \ sampled
  /\ series' = s /\ pc' = Order(s).walk
  /\ since' = [logEnd |-> logEnd[s[2]], reset |-> FALSE,
               committed |-> IF s \in Consumers THEN committed[s] ELSE 0]
  /\ UNCHANGED <<world, pass, walk, offsets, logsize, buffer, lost, table>>

GetKafkaOffset ==
  /\ pc = "offsets" /\ pc' = Order(series).offsets
  /\ offsets' = committed[series]
  /\ UNCHANGED <<world, pass, walk, series, logsize, since, buffer, lost, table>>

\* The offsets could not be fetched and getKafkaOffset answers an empty map.
\* Adding its null throws; the handler calls getMessage on the exception's
\* cause, which it has not, and throws too: nothing of the pass is kept.
GetKafkaOffsetFails ==
  /\ pc = "offsets"
  /\ Leave(TRUE) /\ OutOfBody
  /\ UNCHANGED <<world, pass, rows>>

GetKafkaLogSize ==
  /\ pc = "logsize" /\ pc' = Order(series).logsize
  /\ logsize' = logEnd[series[2]]
  /\ UNCHANGED <<world, pass, walk, series, offsets, since, buffer, lost, table>>

\* getKafkaProducerLogSize answers 0 when Kafka does not; for a group the
\* exception ends the pass (Abort).
GetKafkaProducerLogSizeFails ==
  /\ pc = "logsize" /\ series \in Producers /\ pc' = "append"
  /\ UNCHANGED <<world, pass, walk, body, buffer, lost, table>>

\* Differences to the last row, 0 when there is none or it had 0.
Difference(now, then) == IF then = 0 THEN 0 ELSE now - then
\* Mutant: one check serves both differences.
SampleOneCheck ==
  LET S == RowsOf(series)
      last == Newest(S)
      first == S = {} \/ last.logsize = 0
  IN [series |-> series, timespan |-> pass, tm |-> day,
      logsize |-> logsize, offsets |-> offsets,
      difflogsize |-> IF first THEN 0 ELSE logsize - last.logsize,
      diffoffsets |-> IF first THEN 0 ELSE offsets - last.offsets]

Sample ==
  LET S == RowsOf(series)
      last == Newest(S)
  IN [series |-> series, timespan |-> pass, tm |-> day,
      logsize |-> logsize, offsets |-> offsets,
      difflogsize |-> IF S = {} THEN 0 ELSE Difference(logsize, last.logsize),
      diffoffsets |-> IF S = {} THEN 0 ELSE Difference(offsets, last.offsets)]

Append ==
  /\ pc = "append"
  /\ buffer' = buffer \union {Sample}
  /\ sampled' = sampled \union {series}
  /\ pc' = IF Cardinality(buffer') > BATCH_SIZE THEN "flush" ELSE "walk"
  /\ OutOfBody
  /\ UNCHANGED <<world, pass, walked, lost, table>>

\* insert into ... values: all rows of the list, which no key keeps apart.
Insert == rows' = rows \union buffer
\* The insert throws: it did nothing, or the database carried it out and its
\* answer did not arrive.
InsertThrows == UNCHANGED table \/ (Insert /\ doubted' = TRUE)

\* Mutant: the list is not cleared.
FlushDoneKeeps ==
  /\ pc = "flush" /\ pc' = "walk"
  /\ Insert
  /\ UNCHANGED <<world, pass, walk, body, buffer, doubted, lost>>

FlushDone ==
  /\ pc = "flush" /\ pc' = "walk"
  /\ Insert /\ buffer' = {}
  /\ UNCHANGED <<world, pass, walk, body, doubted, lost>>

\* Mutant: the list is cleared in a finally.
FlushFailsClears ==
  /\ pc = "flush" /\ pc' = "walk"
  /\ InsertThrows /\ buffer' = {}
  /\ UNCHANGED <<world, pass, walk, body, lost>>

\* The list is kept.
FlushFails ==
  /\ pc = "flush" /\ pc' = "walk"
  /\ InsertThrows
  /\ UNCHANGED <<world, pass, walk, body, buffer, lost>>

EndLoop ==
  /\ pc = "walk"
  /\ \/ buffer = {} /\ Leave(FALSE)
     \/ buffer # {} /\ pc' = "final" /\ UNCHANGED <<walk, buffer, doubted, lost>>
  /\ UNCHANGED <<world, pass, body, rows>>

FinalDone ==
  /\ pc = "final"
  /\ Insert /\ Leave(FALSE)
  /\ UNCHANGED <<world, pass, body>>

\* The exception is logged, and the list, a local variable, goes with execute.
FinalFails ==
  /\ pc = "final"
  /\ (Insert \/ UNCHANGED rows) /\ Leave(TRUE)
  /\ UNCHANGED <<world, pass, body>>

\* An exception nothing catches (the log size, the last row), or the process dies.
Abort ==
  /\ pc # "idle"
  /\ Leave(TRUE) /\ OutOfBody
  /\ UNCHANGED <<world, pass, rows>>
-----------------------------------------------------------------------------
(* Another job of the same thread.                                          *)

\* KafkaRecordCleanJob: delete ... where tm <= the day Retain days ago.
CleanRows ==
  /\ pc = "idle"
  /\ rows' = {r \in rows : r.tm > day - Retain}
  /\ UNCHANGED <<world, pass, pc, buffer, lost, walk, body, doubted>>

JobStep ==
  \/ \E s \in walked : NextSeries(s)
  \/ GetKafkaOffset \/ GetKafkaOffsetFails
  \/ GetKafkaLogSize \/ GetKafkaProducerLogSizeFails \/ Append
  \/ FlushDone \/ FlushFails \/ EndLoop \/ FinalDone \/ FinalFails

Next ==
  \/ \E t \in Topics : Produce(t) \/ RecreateTopic(t)
  \/ \E s \in Consumers : Consume(s) \/ Rewind(s)
  \/ Midnight
  \/ Execute(Consumers) \/ Execute(Producers)
  \/ JobStep \/ Abort \/ CleanRows

Spec == Init /\ [][Next]_vars

-----------------------------------------------------------------------------
(* Properties.                                                              *)

\* The types of all variables.
TypeOK ==
  /\ logEnd \in [Topics -> Nat] /\ committed \in [Consumers -> Offset]
  /\ day \in 0..MaxDay /\ pass \in 0..MaxPass
  /\ pc \in {"idle", "walk", "offsets", "logsize", "append", "flush", "final"}
  /\ walked \in {{}, Consumers, Producers} /\ sampled \subseteq walked
  /\ series \in Series \union {NoSeries} /\ offsets \in Offset /\ logsize \in Nat
  /\ buffer \subseteq Row /\ rows \subseteq Row
  /\ doubted \in BOOLEAN
  /\ lost \in BOOLEAN
  /\ since \in [logEnd: Nat, committed: Offset, reset: BOOLEAN]

\* setLag(logsize - offsets) (KafkaTopicMetricsJob.java:123) is not negative,
\* whatever is produced and consumed between the two requests, because offsets
\* are asked for first; a topic recreated or a group reset meanwhile excepted.
LagNotNegative == pc = "append" /\ ~since.reset => offsets <= logsize

\* The lag of a sample is not negative, and lies between what the lag can have
\* been at least and at most while it was taken (same exceptions): the two
\* requests are made in the right order, and no part of one total is left out of
\* the other.
LagBracketed ==
  /\ LagNotNegative
  /\ pc = "append" /\ ~since.reset /\ series \in Consumers =>
       /\ since.logEnd - committed[series] <= logsize - offsets
       /\ logsize - offsets <= logEnd[series[2]] - since.committed

\* Two successive rows of a series: the later one's differences are what it
\* adds to the earlier one's totals (0 if those were 0), so a chart that adds
\* them up counts no record twice and loses none, with failed inserts, lost
\* passes and deleted rows in between.
DifferencesChain ==
  \A r \in rows : LET before == {q \in RowsOf(r.series) : q.timespan < r.timespan}
                      last == Newest(before)
    IN before # {} =>
         /\ r.difflogsize = Difference(r.logsize, last.logsize)
         /\ r.diffoffsets = Difference(r.offsets, last.offsets)

\* The tables have no keys: a row that is stored is in the list again, and would
\* be stored twice, only if the database carried out an insert without answering.
StoredTwiceOnlyInDoubt == buffer \intersect rows # {} => doubted

\* A pass that ends without dropping rows has stored every series it sampled,
\* even after inserts that failed on the way.
PassStoresAll ==
  [][pc # "idle" /\ pc' = "idle" /\ ~lost'
       => \A s \in sampled : \E r \in rows' : r.series = s /\ r.timespan = pass]_vars
=============================================================================
