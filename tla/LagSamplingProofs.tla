-------------------------- MODULE LagSamplingProofs --------------------------
(***************************************************************************)
(* Proofs, for every set of groups and topics, every batch size and every  *)
(* number of passes and days, that the two totals of a sample belong       *)
(* together and that the rows of a series chain.                           *)
(*                                                                         *)
(* Two inductive invariants: Together about the loop body and the offsets  *)
(* it reads, Stored about the list and the tables.                         *)
(***************************************************************************)
EXTENDS LagSampling, TLAPS

-----------------------------------------------------------------------------
(* The totals of a sample.                                                  *)

InBody == pc \in {"offsets", "logsize", "append"}

\* The variables of the loop body, where they are used.
BodyType ==
  /\ logEnd \in [Topics -> Nat] /\ committed \in [Consumers -> Offset]
  /\ walked \subseteq Series
  /\ offsets \in Offset /\ logsize \in Nat
  /\ since \in [logEnd: Nat, committed: Offset, reset: BOOLEAN]
  /\ InBody => series \in Series
  /\ ~InBody => series = NoSeries
  /\ pc = "offsets" => series \in Consumers
  /\ InBody /\ series \notin Consumers => offsets = 0
  /\ ~InBody => offsets = 0

\* No group is ahead of its topic.
Behind == \A s \in Consumers : committed[s] <= logEnd[s[2]]

\* What the loop body has read lies between then and now.
Between ==
  InBody /\ ~since.reset /\ series \in Consumers =>
    /\ since.logEnd <= logEnd[series[2]]
    /\ since.committed <= committed[series]
    /\ pc # "offsets" => since.committed <= offsets /\ offsets <= committed[series]
    /\ pc = "append" => since.logEnd <= logsize /\ logsize <= logEnd[series[2]]
                        /\ offsets <= logsize

Together == BodyType /\ Behind /\ Between

LEMMA SeriesTopic == \A s \in Series : s[2] \in Topics
BY DEF Series, Consumers, Producers

LEMMA InitTogether == Init => Together
BY SMT DEF Init, Together, BodyType, Behind, Between, InBody, Blank, Offset, NoOffset,
           Series, Consumers

LEMMA NextTogether == Together /\ [Next]_vars => Together'
<1> SUFFICES ASSUME Together, [Next]_vars PROVE Together'
  OBVIOUS
<1> USE DEF Together, InBody, Offset, NoOffset
<1>a. Consumers \subseteq Series /\ NoSeries \notin Series
  BY SamplingAssumption DEF Series, Consumers, Producers
<1>b. \A s \in Producers : s \notin Consumers
  BY SamplingAssumption DEF Consumers, Producers
<1>1. ASSUME NEW t \in Topics, Produce(t) PROVE Together'
  <2>1. BodyType'
    BY <1>1 DEF Produce, BodyType, walk, body, table
  <2>2. \A u \in Topics : logEnd[u] <= logEnd'[u]
    BY <1>1 DEF Produce, BodyType
  <2>3. Behind'
    BY <1>1, <2>1, <2>2, <1>a, SeriesTopic DEF Produce, Behind, BodyType
  <2>4. Between'
    BY <1>1, <2>1, <2>2, <1>a, SeriesTopic DEF Produce, Between, BodyType, walk, body, table
  <2> QED BY <2>1, <2>3, <2>4
<1>2. ASSUME NEW s \in Consumers, Consume(s) PROVE Together'
  <2>1. BodyType'
    BY <1>2 DEF Consume, BodyType, walk, body, table
  <2>2. Behind'
    BY <1>2, <1>a, SeriesTopic DEF Consume, Behind, BodyType
  <2>3. \A c \in Consumers : committed[c] <= committed'[c]
    BY <1>2 DEF Consume, BodyType
  <2>4. Between'
    BY <1>2, <2>1, <2>3, <1>a, SeriesTopic DEF Consume, Between, BodyType, walk, body, table
  <2> QED BY <2>1, <2>2, <2>4
<1>3. ASSUME NEW s \in Consumers, Rewind(s) PROVE Together'
  <2>1. BodyType'
    BY <1>3 DEF Rewind, Disturb, BodyType, walk, table
  <2>2. Behind'
    BY <1>3, <1>a, SeriesTopic DEF Rewind, Behind, BodyType
  <2>3. Between'
    BY <1>3, <2>1, <1>a, SeriesTopic DEF Rewind, Disturb, Between, BodyType, walk, table
  <2> QED BY <2>1, <2>2, <2>3
<1>4. ASSUME NEW t \in Topics, RecreateTopic(t) PROVE Together'
  <2>1. BodyType'
    BY <1>4 DEF RecreateTopic, Disturb, BodyType, walk, table
  <2>2. Behind'
    BY <1>4, <1>a, SeriesTopic DEF RecreateTopic, Behind, BodyType
  <2>3. Between'
    BY <1>4, <2>1, <1>a, SeriesTopic DEF RecreateTopic, Disturb, Between, BodyType, walk, table
  <2> QED BY <2>1, <2>2, <2>3
<1>5. CASE Midnight
  BY <1>5 DEF Midnight, BodyType, Behind, Between, walk, body, table
<1>6. ASSUME NEW W \in {Consumers, Producers}, Execute(W) PROVE Together'
  BY <1>6 DEF Execute, BodyType, Behind, Between, world, body, table, Series
<1>7. ASSUME NEW s \in walked, NextSeries(s) PROVE Together'
  BY <1>7, <1>a, <1>b, SeriesTopic DEF NextSeries, Order, BodyType, Behind, Between, world,
                                       walk, table, Series
<1>8. CASE GetKafkaOffset
  BY <1>8 DEF GetKafkaOffset, Order, BodyType, Behind, Between, world, walk, table
<1>9. CASE GetKafkaOffsetFails
  BY <1>9 DEF GetKafkaOffsetFails, Leave, OutOfBody, Blank, BodyType, Behind, Between, world
<1>10. CASE GetKafkaLogSize
  BY <1>10, <1>a, SeriesTopic DEF GetKafkaLogSize, Order, BodyType, Behind, Between, world, walk,
                                   table
<1>11. CASE GetKafkaProducerLogSizeFails
  BY <1>11, <1>b DEF GetKafkaProducerLogSizeFails, BodyType, Behind, Between, world, walk, body, table
<1>12. CASE Append
  BY <1>12 DEF Append, OutOfBody, Blank, BodyType, Behind, Between, world, table
<1>13. CASE FlushDone
  BY <1>13 DEF FlushDone, BodyType, Behind, Between, world, walk, body
<1>14. CASE FlushFails
  BY <1>14 DEF FlushFails, BodyType, Behind, Between, world, walk, body
<1>15. CASE EndLoop
  BY <1>15 DEF EndLoop, Leave, BodyType, Behind, Between, world, walk, body
<1>16. CASE FinalDone \/ FinalFails
  BY <1>16 DEF FinalDone, FinalFails, Leave, BodyType, Behind, Between, world, body
<1>17. CASE Abort
  BY <1>17 DEF Abort, Leave, OutOfBody, Blank, BodyType, Behind, Between, world
<1>18. CASE CleanRows
  BY <1>18 DEF CleanRows, BodyType, Behind, Between, world, walk, body
<1>19. CASE UNCHANGED vars
  BY <1>19 DEF vars, BodyType, Behind, Between
<1> QED
  BY <1>1, <1>2, <1>3, <1>4, <1>5, <1>6, <1>7, <1>8, <1>9, <1>10, <1>11, <1>12,
     <1>13, <1>14, <1>15, <1>16, <1>17, <1>18, <1>19 DEF Next, JobStep

LEMMA AlwaysTogether == Spec => []Together
BY InitTogether, NextTogether, PTL DEF Spec

\* No sample has a negative lag (KafkaTopicMetricsJob asks for the offsets
\* first), unless its topic was recreated or its group reset meanwhile.
THEOREM LagsAreNotNegative == Spec => []LagNotNegative
<1>1. Together => LagNotNegative
  BY DEF Together, BodyType, Between, InBody, LagNotNegative
<1> QED BY <1>1, AlwaysTogether, PTL

\* The lag of a sample is not negative and one the group can have had while it
\* was taken.
THEOREM LagsAreBracketed == Spec => []LagBracketed
<1>1. Together => LagNotNegative
  BY DEF Together, BodyType, Between, InBody, LagNotNegative
<1>2. Together /\ LagNotNegative => LagBracketed
  BY SeriesTopic DEF Together, BodyType, Between, InBody, LagBracketed, Offset, NoOffset, Series
<1> QED BY <1>1, <1>2, AlwaysTogether, PTL

-----------------------------------------------------------------------------
(* The list and the tables.                                                 *)

\* The rows that exist or are about to, and those of a row's series before it.
AllRows == rows \union buffer
Before(r) == {q \in RowsOf(r.series) : q.timespan < r.timespan}
Chained(r) ==
  Before(r) # {} =>
    /\ r.difflogsize = Difference(r.logsize, Newest(Before(r)).logsize)
    /\ r.diffoffsets = Difference(r.offsets, Newest(Before(r)).offsets)

\* Passes and days are numbers, and rows are not ahead of them.
Dated ==
  /\ pass \in Nat /\ day \in Nat
  /\ \A r \in AllRows : /\ r.timespan \in Nat /\ r.timespan <= pass
                        /\ r.tm \in Nat /\ r.tm <= day

\* The list belongs to the pass under way; the pass has a row of each series it
\* sampled, in the list or stored, and of no other.
Listed ==
  /\ pc = "idle" => buffer = {} /\ sampled = {}
  /\ InBody => series \notin sampled
  /\ \A r \in buffer : r.timespan = pass
  /\ pc # "idle" => \A r \in AllRows : r.timespan = pass => r.series \in sampled
  /\ \A s \in sampled : \E r \in AllRows : r.series = s /\ r.timespan = pass

\* The rows of a series are told apart by their pass, and dated in its order.
Ordered ==
  \A q, r \in AllRows : q.series = r.series =>
    /\ q.timespan = r.timespan => q = r
    /\ q.timespan < r.timespan => q.tm <= r.tm

AllChained == \A r \in AllRows : Chained(r)
Fresh == ~doubted => \A r \in buffer : r \notin rows

Stored == Dated /\ Listed /\ Ordered /\ AllChained /\ Fresh

LEMMA InitStored == Init => Stored
BY SMT DEF Init, Stored, Dated, Listed, Ordered, AllChained, Fresh, AllRows, InBody

\* Steps that leave the rows, the list and the series where they are.
LEMMA OtherStored ==
  ASSUME Stored, UNCHANGED <<pass, day, rows, buffer, sampled, doubted>>,
         pc # "idle", pc' # "idle", InBody' => series' \notin sampled
  PROVE  Stored'
BY DEF Stored, Dated, Listed, Ordered, AllChained, Fresh, AllRows, Before, RowsOf,
       Chained, Difference, Newest, IsNewest

\* The list is inserted, whether it is kept or not.
LEMMA InsertStored ==
  ASSUME Stored, Insert, UNCHANGED <<pass, day>>, buffer' \in {buffer, {}}
  PROVE  Dated' /\ Ordered' /\ AllChained' /\ AllRows' = AllRows
<1>1. AllRows' = AllRows
  BY DEF Insert, AllRows
<1>2. \A r \in AllRows : Before(r)' = Before(r)
  <2> SUFFICES ASSUME NEW r \in AllRows, NEW q \in buffer
               PROVE  ~(q.timespan < r.timespan)
    BY DEF Before, RowsOf, Insert
  <2> QED BY DEF Stored, Listed, Dated, AllRows
<1>3. \A r \in AllRows : Chained(r)' <=> Chained(r)
  <2> TAKE r \in AllRows
  <2>1. Before(r)' = Before(r)
    BY <1>2
  <2> QED BY <2>1 DEF Chained, Newest, IsNewest, Difference
<1> QED BY <1>1, <1>3 DEF Stored, Dated, Ordered, AllChained

\* A new row is chained to those of its series, all of earlier passes.
LEMMA AppendStored == Stored /\ Append => Stored'
<1> SUFFICES ASSUME Stored, Append PROVE Stored'
  OBVIOUS
<1>0. PICK x : x = Sample
  OBVIOUS
<1>1. /\ x.series = series /\ x.timespan = pass /\ x.tm = day
      /\ buffer' = buffer \union {x} /\ sampled' = sampled \union {series}
      /\ UNCHANGED <<pass, day, rows, doubted>>
      /\ pc = "append" /\ pc' \in {"flush", "walk"}
  BY <1>0 DEF Append, Sample, world, table
<1>2. AllRows' = AllRows \union {x} /\ series \notin sampled
  BY <1>1 DEF AllRows, Stored, Listed, InBody
<1>3. \A r \in AllRows : r.series = series => r.timespan < pass
  BY <1>1, <1>2 DEF Stored, Dated, Listed
<1>4. Dated'
  BY <1>1, <1>2 DEF Stored, Dated
<1>5. Listed'
  BY <1>1, <1>2 DEF Stored, Listed, InBody
<1>6. Ordered'
  BY <1>1, <1>2, <1>3 DEF Stored, Ordered, Dated
<1>7. AllChained'
  <2>1. \A r \in AllRows : Chained(r)' <=> Chained(r)
    BY <1>1 DEF Chained, Before, RowsOf, Newest, IsNewest, Difference
  <2>2. Chained(x)'
    <3>1. Before(x) = RowsOf(series)
      BY <1>1, <1>3 DEF Before, RowsOf, AllRows
    <3>2. Chained(x)
      BY <1>0, <1>1, <3>1 DEF Chained, Sample
    <3> QED BY <3>2, <1>1 DEF Chained, Before, RowsOf, Newest, IsNewest, Difference
  <2> QED BY <1>2, <2>1, <2>2 DEF Stored, AllChained
<1>8. Fresh'
  BY <1>1, <1>3 DEF Stored, Fresh, AllRows, Dated
<1> QED BY <1>4, <1>5, <1>6, <1>7, <1>8 DEF Stored

\* Sets with the same newest rows have the same Newest.
LEMMA SameNewest ==
  ASSUME NEW S, NEW T, \A n : IsNewest(n, S) <=> IsNewest(n, T)
  PROVE  Newest(S) = Newest(T)
<1>1. \A n : n \in S /\ IsNewest(n, S) <=> n \in T /\ IsNewest(n, T)
  BY DEF IsNewest
<1> QED BY <1>1, Zenon DEF Newest

\* Cleaning takes the oldest rows of a series, so the newest one before a row
\* that stays is the same, or there is none.
LEMMA CleanStored == Stored /\ CleanRows => Stored'
<1> SUFFICES ASSUME Stored, CleanRows PROVE Stored'
  OBVIOUS
<1>1. /\ buffer = {} /\ buffer' = {} /\ sampled = {} /\ pc = "idle"
      /\ UNCHANGED <<pass, day, pc, sampled, doubted, series>>
      /\ rows' = {r \in rows : r.tm > day - Retain}
  BY DEF Stored, Listed, CleanRows, world, walk, body
<1>2. AllRows = rows /\ AllRows' = rows' /\ rows' \subseteq rows
  BY <1>1 DEF AllRows
<1>3. Dated' /\ Ordered' /\ Fresh' /\ Listed'
  BY <1>1, <1>2 DEF Stored, Dated, Ordered, Fresh, Listed, InBody
<1>4. ASSUME NEW r \in rows' PROVE Chained(r)'
  <2>1. CASE Before(r)' = {}
    BY <2>1 DEF Chained
  <2>2. CASE Before(r)' # {}
    <3>1. PICK o : o \in Before(r)'
      BY <2>2
    <3>2. /\ Before(r)' \subseteq Before(r)
          /\ \A q \in Before(r) : q.tm > day - Retain => q \in Before(r)'
      BY <1>1 DEF Before, RowsOf
    <3>3. /\ \A q \in Before(r) : q \in rows /\ q.series = r.series
          /\ \A q \in Before(r)' : q.tm > day - Retain
      BY <1>1 DEF Before, RowsOf
    <3>4. /\ \A q \in rows : q.timespan \in Nat /\ q.tm \in Nat
          /\ day \in Nat /\ Retain \in Nat
      BY <1>2, SamplingAssumption DEF Stored, Dated
    <3>5. \A p, q \in Before(r) : /\ p.timespan = q.timespan => p = q
                                  /\ p.timespan < q.timespan => p.tm <= q.tm
      BY <1>2, <3>3 DEF Stored, Ordered
    <3>6. ASSUME NEW n
          PROVE  IsNewest(n, Before(r)') <=> IsNewest(n, Before(r))
      <4>1. ASSUME IsNewest(n, Before(r)'), NEW q \in Before(r)
            PROVE  q.timespan <= n.timespan
        <5>1. n \in Before(r)' /\ n \in Before(r)
          BY <4>1, <3>2 DEF IsNewest
        <5>2. CASE q \in Before(r)'
          BY <4>1, <5>2 DEF IsNewest
        <5>3. CASE q \notin Before(r)'
          BY <5>1, <5>3, <3>2, <3>3, <3>4, <3>5
        <5> QED BY <5>2, <5>3
      <4>2. ASSUME IsNewest(n, Before(r)) PROVE n \in Before(r)'
        <5>1. n \in Before(r) /\ o \in Before(r) /\ o.timespan <= n.timespan
          BY <4>2, <3>1, <3>2 DEF IsNewest
        <5>2. CASE o.timespan = n.timespan
          BY <5>1, <5>2, <3>1, <3>5
        <5>3. CASE o.timespan # n.timespan
          <6>1. o.timespan < n.timespan
            BY <5>1, <5>3, <3>3, <3>4
          <6>2. o.tm <= n.tm /\ o.tm > day - Retain
            BY <6>1, <5>1, <3>1, <3>3, <3>5
          <6>3. n.tm > day - Retain
            BY <6>2, <5>1, <3>3, <3>4
          <6> QED BY <6>3, <5>1, <3>2
        <5> QED BY <5>2, <5>3
      <4> QED BY <4>1, <4>2, <3>2 DEF IsNewest
    <3>7. Newest(Before(r)') = Newest(Before(r))
      BY <3>6, SameNewest
    <3>8. Chained(r) /\ Before(r) # {}
      BY <1>2, <2>2, <3>2 DEF Stored, AllChained
    <3> QED BY <3>7, <3>8 DEF Chained, Difference, Newest, IsNewest
  <2> QED BY <2>1, <2>2
<1> QED BY <1>2, <1>3, <1>4 DEF Stored, AllChained

LEMMA NextStored == Stored /\ [Next]_vars => Stored'
<1> SUFFICES ASSUME Stored, [Next]_vars PROVE Stored'
  OBVIOUS
<1>1. CASE \/ \E t \in Topics : Produce(t) \/ RecreateTopic(t)
           \/ \E s \in Consumers : Consume(s) \/ Rewind(s)
           \/ UNCHANGED vars
  <2>1. UNCHANGED <<pass, day, rows, buffer, sampled, doubted, pc, series>>
    BY <1>1 DEF Produce, RecreateTopic, Consume, Rewind, Disturb, walk, body, table, vars
  <2> QED BY <2>1 DEF Stored, Dated, Listed, Ordered, AllChained, Fresh, AllRows, Before,
                      RowsOf, Chained, Difference, Newest, IsNewest, InBody
<1>2. CASE Midnight
  <2>1. /\ UNCHANGED <<pass, rows, buffer, sampled, doubted, pc, series>>
        /\ day' = day + 1
    BY <1>2 DEF Midnight, walk, body, table
  <2>2. Dated'
    BY <2>1 DEF Stored, Dated, AllRows
  <2> QED BY <2>1, <2>2 DEF Stored, Listed, Ordered, AllChained, Fresh, AllRows, Before,
                            RowsOf, Chained, Difference, Newest, IsNewest, InBody
<1>3. ASSUME NEW W, Execute(W) PROVE Stored'
  <2>1. /\ UNCHANGED <<day, rows, buffer, sampled, doubted, series>>
        /\ pass' = pass + 1 /\ pc = "idle" /\ pc' = "walk"
    BY <1>3 DEF Execute, world, body, table
  <2>2. Dated' /\ Listed'
    BY <2>1 DEF Stored, Dated, Listed, AllRows, InBody
  <2> QED BY <2>1, <2>2 DEF Stored, Ordered, AllChained, Fresh, AllRows, Before,
                            RowsOf, Chained, Difference, Newest, IsNewest
<1>4. ASSUME NEW s \in walked, NextSeries(s) PROVE Stored'
  <2>1. /\ UNCHANGED <<pass, day, rows, buffer, sampled, doubted>>
        /\ pc # "idle" /\ pc' # "idle" /\ series' \notin sampled
    BY <1>4 DEF NextSeries, Order, world, walk, table
  <2> QED BY <2>1, OtherStored
<1>5. CASE GetKafkaOffset \/ GetKafkaLogSize \/ GetKafkaProducerLogSizeFails
  <2>1. /\ UNCHANGED <<pass, day, rows, buffer, sampled, doubted, series>>
        /\ InBody /\ pc # "idle" /\ pc' # "idle"
    BY <1>5 DEF GetKafkaOffset, GetKafkaLogSize, Order, GetKafkaProducerLogSizeFails,
                 world, walk, body, table, InBody
  <2>2. series' \notin sampled
    BY <2>1 DEF Stored, Listed
  <2> QED BY <2>1, <2>2, OtherStored
<1>6. CASE Append
  BY <1>6, AppendStored
<1>7. CASE FlushDone
  <2>1. /\ Insert /\ UNCHANGED <<pass, day, sampled, doubted>> /\ buffer' = {}
        /\ pc # "idle" /\ pc' = "walk"
    BY <1>7 DEF FlushDone, world, walk, body
  <2>2. Dated' /\ Ordered' /\ AllChained' /\ AllRows' = AllRows
    BY <2>1, InsertStored
  <2> QED BY <2>1, <2>2 DEF Stored, Listed, Fresh, InBody
<1>8. CASE FlushFails
  <2>1. /\ UNCHANGED <<pass, day, sampled, buffer>>
        /\ pc # "idle" /\ pc' = "walk"
    BY <1>8 DEF FlushFails, world, walk, body
  <2>2. CASE UNCHANGED table
    BY <2>1, <2>2, OtherStored DEF table, InBody
  <2>3. CASE Insert /\ doubted' = TRUE
    <3>1. Dated' /\ Ordered' /\ AllChained' /\ AllRows' = AllRows
      BY <2>1, <2>3, InsertStored
    <3> QED BY <2>1, <2>3, <3>1 DEF Stored, Listed, Fresh, InBody
  <2> QED BY <1>8, <2>2, <2>3 DEF FlushFails, InsertThrows
<1>9. CASE EndLoop /\ pc' # "idle"
  <2>1. /\ UNCHANGED <<pass, day, rows, buffer, sampled, doubted>>
        /\ pc # "idle" /\ pc' = "final"
    BY <1>9 DEF EndLoop, Leave, world, walk, body
  <2> QED BY <2>1, OtherStored DEF InBody
<1>10. ASSUME pc' = "idle", UNCHANGED <<pass, day>>, buffer' = {}, sampled' = {},
             doubted' = FALSE, Insert \/ UNCHANGED rows
      PROVE  Stored'
  <2>1. Listed' /\ Fresh'
    BY <1>10 DEF Stored, Listed, Fresh, AllRows, InBody
  <2>2. CASE Insert
    BY <1>10, <2>1, <2>2, InsertStored DEF Stored
  <2>3. CASE UNCHANGED rows
    BY <1>10, <2>1, <2>3 DEF Stored, Dated, Ordered, AllChained, AllRows, Before, RowsOf,
                            Chained, Difference, Newest, IsNewest
  <2> QED BY <1>10, <2>2, <2>3
<1>11. CASE GetKafkaOffsetFails \/ FinalDone \/ FinalFails \/ Abort \/ (EndLoop /\ pc' = "idle")
  BY <1>10, <1>11 DEF GetKafkaOffsetFails, FinalDone, FinalFails, Abort, EndLoop, Leave, world
<1>12. CASE CleanRows
  BY <1>12, CleanStored
<1> QED
  BY <1>1, <1>2, <1>3, <1>4, <1>5, <1>6, <1>7, <1>8, <1>9, <1>11, <1>12 DEF Next, JobStep

LEMMA AlwaysStored == Spec => []Stored
BY InitStored, NextStored, PTL DEF Spec

\* The differences of every stored row are what it adds to the row of its series
\* before it, through failed inserts, lost passes and the cleaning of old rows.
THEOREM RowsChain == Spec => []DifferencesChain
<1>1. Stored => DifferencesChain
  BY DEF Stored, AllChained, AllRows, Chained, Before, DifferencesChain
<1> QED BY <1>1, AlwaysStored, PTL

\* A row that is stored is in the list again only after an insert in doubt.
THEOREM NoDuplicates == Spec => []StoredTwiceOnlyInDoubt
<1>1. Stored => StoredTwiceOnlyInDoubt
  BY DEF Stored, Fresh, StoredTwiceOnlyInDoubt
<1> QED BY <1>1, AlwaysStored, PTL

\* A pass that ends without dropping rows has stored every series it sampled.
THEOREM PassesStoreAll == Spec => PassStoresAll
<1> DEFINE A == pc # "idle" /\ pc' = "idle" /\ ~lost'
                  => \A s \in sampled : \E r \in rows' : r.series = s /\ r.timespan = pass
<1>1. Stored /\ [Next]_vars => [A]_vars
  <2> SUFFICES ASSUME Stored, Next, pc # "idle", pc' = "idle", ~lost',
                      NEW s \in sampled
               PROVE  \E r \in rows' : r.series = s /\ r.timespan = pass
    OBVIOUS
  <2>1. PICK r \in AllRows : r.series = s /\ r.timespan = pass
    BY DEF Stored, Listed
  <2>2. (EndLoop /\ buffer = {}) \/ FinalDone
    BY DEF Next, JobStep, Produce, RecreateTopic, Consume, Rewind, Disturb, Midnight, Execute,
           NextSeries, GetKafkaOffset, GetKafkaOffsetFails, GetKafkaLogSize, Order,
           GetKafkaProducerLogSizeFails, Append, FlushDone, FlushFails, EndLoop, FinalFails,
           Abort, CleanRows, Leave, world, walk, body, table
  <2>3. r \in rows'
    BY <2>1, <2>2 DEF EndLoop, FinalDone, Insert, AllRows, world, table
  <2> QED BY <2>1, <2>3
<1>2. [][A]_vars => PassStoresAll
  BY PTL DEF PassStoresAll
<1> QED BY <1>1, <1>2, AlwaysStored, PTL DEF Spec
=============================================================================
