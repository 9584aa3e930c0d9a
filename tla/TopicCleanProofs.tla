--------------------------- MODULE TopicCleanProofs ---------------------------
(***************************************************************************)
(* Proofs, for every set of partitions, every number of records and of     *)
(* troubles, that a pass that found records leaves both keys of the        *)
(* topic's configuration in force, and that a topic marked as truncated    *)
(* has lost every record it held when the truncation was asked for.        *)
(***************************************************************************)
EXTENDS TopicClean, FoldLemmas, TLAPS

Stages == {"describe", "alter", "await"}
Requests == [by : Writers, change : Change, config : Config]

\* The part of TypeOK the argument rests on, with the lists as sequences; a
\* writer without a change is not in the midst of one.
WritersTyped ==
  /\ config \in Config /\ troubles \in Nat
  /\ changes \in [Writers -> Seq(Change)]
  /\ stage \in [Writers -> Stages]
  /\ copy \in [Writers -> Config]
  /\ requests \subseteq Requests
  /\ \A w \in Writers : changes[w] = <<>> => stage[w] = "describe"

Both == [cleanup |-> "delete", retention |-> "1000"]
SetCleanup == [key |-> "cleanup", value |-> "delete"]
SetRetention == [key |-> "retention", value |-> "1000"]
DropCleanup == [key |-> "cleanup", value |-> "none"]
DropRetention == [key |-> "retention", value |-> "none"]

\* The job on its way to both keys: its last request has been answered before
\* the configuration is read anew, so what it read is what is in force.
Adding ==
  /\ changes["job"] \in {Add, <<SetRetention>>, <<>>}
  /\ stage["job"] # "await" => requests = {}
  /\ stage["job"] = "alter" => copy["job"] = config
  /\ stage["job"] = "await" =>
       /\ requests \subseteq {Request("job")}
       /\ Request("job") \notin requests => config = Request("job").config
       /\ changes["job"] = <<SetRetention>> => copy["job"].cleanup = "delete"
  /\ changes["job"] = <<SetRetention>> /\ stage["job"] # "await" => config.cleanup = "delete"
  /\ changes["job"] = <<>> => config = Both

\* Nobody but the job has changed anything.
Undisturbed ==
  /\ changes["page"] = <<>>
  /\ \A n \in requests : n.by = "job"
  /\ phase \in {"listed", "ends"} => requests = {}
  /\ phase = "altering" /\ ~empty => Adding

IInv ==
  /\ WritersTyped
  /\ phase # "altering" => changes["job"] = <<>>
  /\ troubles = 0 => Undisturbed

-----------------------------------------------------------------------------
LEMMA ChangesTyped ==
  /\ {SetCleanup, SetRetention, DropCleanup, DropRetention} \subseteq Change
  /\ Add = <<SetCleanup, SetRetention>> /\ Delete = <<DropCleanup, DropRetention>>
  /\ Add \in Seq(Change) /\ Delete \in Seq(Change)
<1>1. {SetCleanup, SetRetention, DropCleanup, DropRetention} \subseteq Change
  BY DEF Change, SetCleanup, SetRetention, DropCleanup, DropRetention, CleanupValues,
         RetentionValues
<1>2. Add = <<SetCleanup, SetRetention>> /\ Delete = <<DropCleanup, DropRetention>>
  BY DEF Add, Delete, SetCleanup, SetRetention, DropCleanup, DropRetention
<1> QED BY <1>1, <1>2

LEMMA ListFacts ==
  ASSUME NEW a, NEW b
  PROVE  /\ Head(<<a, b>>) = a /\ Tail(<<a, b>>) = <<b>> /\ <<a, b>> # <<>>
         /\ Head(<<a>>) = a /\ Tail(<<a>>) = <<>> /\ <<a>> # <<>> /\ <<a, b>> # <<a>>
         /\ \A c : <<a, b>> # <<c>>
OBVIOUS

\* What a request carries is a configuration.
LEMMA RequestTyped ==
  ASSUME WritersTyped, NEW w \in Writers, changes[w] # <<>>
  PROVE  /\ Head(changes[w]) \in Change /\ Tail(changes[w]) \in Seq(Change)
         /\ Request(w) \in Requests /\ Request(w).by = w
         /\ Request(w).config = [copy[w] EXCEPT ![Head(changes[w]).key] = Head(changes[w]).value]
<1>1. /\ changes[w] \in Seq(Change) /\ copy[w] \in Config
  BY DEF WritersTyped
<1>2. Head(changes[w]) \in Change /\ Tail(changes[w]) \in Seq(Change)
  BY <1>1
<1>3. ASSUME NEW c \in Change, NEW f \in Config
      PROVE  [f EXCEPT ![c.key] = c.value] \in Config
  BY DEF Change, Config
<1> QED BY <1>1, <1>2, <1>3 DEF Request, Requests

\* A writer that is done with its first change.
LEMMA FinishTyped ==
  ASSUME WritersTyped, NEW w \in Writers, changes[w] # <<>>, Finish(w),
         config' = config, requests' \subseteq Requests, troubles' \in Nat
  PROVE  /\ WritersTyped'
         /\ changes'[w] = Tail(changes[w]) /\ stage'[w] = "describe"
         /\ \A v \in Writers \ {w} : changes'[v] = changes[v] /\ stage'[v] = stage[v]
<1>1. Tail(changes[w]) \in Seq(Change)
  BY RequestTyped
<1>2. NoCopy \in Config /\ "describe" \in Stages
  BY DEF NoCopy, Config, CleanupValues, RetentionValues, Stages
<1> QED BY <1>1, <1>2 DEF WritersTyped, Finish

-----------------------------------------------------------------------------
(* The steps. *)

LEMMA InitIInv == Init => IInv
<1> SUFFICES ASSUME Init PROVE IInv
  OBVIOUS
<1>1. WritersTyped
  BY DEF Init, WritersTyped, Config, CleanupValues, RetentionValues, NoCopy, Stages
<1>2. phase = "idle" /\ changes["job"] = <<>> /\ changes["page"] = <<>> /\ requests = {}
  BY DEF Init, Writers
<1> QED BY <1>1, <1>2 DEF IInv, Undisturbed

LEMMA DescribeIInv ==
  ASSUME IInv, NEW w \in Writers, DescribeTopicConfig(w)
  PROVE  IInv'
<1>1. /\ changes' = changes /\ config' = config /\ requests' = requests
      /\ troubles' = troubles /\ phase' = phase /\ empty' = empty
      /\ copy' = [copy EXCEPT ![w] = config] /\ stage' = [stage EXCEPT ![w] = "alter"]
      /\ changes[w] # <<>> /\ stage[w] = "describe"
  BY DEF DescribeTopicConfig, job
<1>2. WritersTyped'
  BY <1>1 DEF IInv, WritersTyped, Stages
<1>3. ASSUME troubles = 0, phase = "altering", ~empty PROVE Adding'
  <2>1. Adding /\ w = "job"
    BY <1>1, <1>3 DEF IInv, Undisturbed, Writers
  <2>2. stage'["job"] = "alter" /\ copy'["job"] = config
    BY <1>1, <2>1 DEF IInv, WritersTyped, Writers
  <2> QED BY <1>1, <2>1, <2>2 DEF Adding
<1> QED BY <1>1, <1>2, <1>3 DEF IInv, Undisturbed

LEMMA AlterConfigsIInv ==
  ASSUME IInv, NEW w \in Writers, AlterConfigs(w)
  PROVE  IInv'
<1> PICK r : r = Request(w)
  OBVIOUS
<1>1. /\ config' = config /\ requests' = requests \cup {r} /\ troubles' = troubles
      /\ phase' = phase /\ empty' = empty /\ changes[w] # <<>> /\ stage[w] = "alter"
  BY DEF AlterConfigs, job
<1>2. r \in Requests /\ r.by = w /\ Head(changes[w]) \in Change
  BY <1>1, RequestTyped DEF IInv
<1>3. CASE Head(changes[w]).value = "none"
  <2>1. Finish(w)
    BY <1>3 DEF AlterConfigs
  <2>2. requests' \subseteq Requests /\ troubles' \in Nat
    BY <1>1, <1>2 DEF IInv, WritersTyped
  <2>3. /\ WritersTyped' /\ changes'[w] = Tail(changes[w])
        /\ \A v \in Writers \ {w} : changes'[v] = changes[v] /\ stage'[v] = stage[v]
    BY <1>1, <2>1, <2>2, FinishTyped DEF IInv
  <2>4. phase # "altering" => changes'["job"] = <<>>
    BY <1>1, <2>3 DEF IInv, Writers
  <2>5. ASSUME troubles = 0 PROVE Undisturbed'
    <3>1. w = "job" /\ changes'["page"] = <<>>
      BY <1>1, <2>3, <2>5 DEF IInv, Undisturbed, Writers
    <3>2. phase = "altering"
      BY <1>1, <3>1 DEF IInv
    <3>3. empty
      <4> SUFFICES ASSUME ~empty PROVE FALSE
        OBVIOUS
      <4>1. changes["job"] = Add \/ changes["job"] = <<SetRetention>>
        BY <1>1, <2>5, <3>1, <3>2 DEF IInv, Undisturbed, Adding
      <4>2. Head(changes["job"]) \in {SetCleanup, SetRetention}
        BY <4>1, ChangesTyped, ListFacts
      <4> QED BY <4>2, <1>3, <3>1 DEF SetCleanup, SetRetention
    <3> QED BY <1>1, <1>2, <2>5, <3>1, <3>2, <3>3 DEF IInv, Undisturbed
  <2> QED BY <1>1, <2>3, <2>4, <2>5 DEF IInv
<1>4. CASE Head(changes[w]).value # "none"
  <2>1. stage' = [stage EXCEPT ![w] = "await"] /\ changes' = changes /\ copy' = copy
    BY <1>4 DEF AlterConfigs
  <2>2. WritersTyped'
    BY <1>1, <1>2, <2>1 DEF IInv, WritersTyped, Stages
  <2>3. ASSUME troubles = 0 PROVE Undisturbed'
    <3>1. w = "job" /\ changes'["page"] = <<>>
      BY <1>1, <2>1, <2>3 DEF IInv, Undisturbed, Writers
    <3>2. phase = "altering"
      BY <1>1, <3>1 DEF IInv
    <3>3. ASSUME ~empty PROVE Adding'
      <4>1. Adding
        BY <2>3, <3>2, <3>3 DEF IInv, Undisturbed
      <4>2. stage'["job"] = "await"
        BY <2>1, <3>1 DEF IInv, WritersTyped
      <4>3. requests' = {r} /\ Request("job")' = r
        BY <1>1, <2>1, <3>1, <4>1 DEF Adding, Request
      <4> QED BY <1>1, <2>1, <3>1, <4>1, <4>2, <4>3 DEF Adding
    <3> QED BY <1>1, <1>2, <2>3, <3>1, <3>2, <3>3 DEF IInv, Undisturbed
  <2> QED BY <1>1, <2>1, <2>2, <2>3 DEF IInv
<1> QED BY <1>3, <1>4

LEMMA AlterReturnsIInv ==
  ASSUME IInv, NEW w \in Writers, AlterReturns(w)
  PROVE  IInv'
<1>1. /\ config' = config /\ requests' = requests /\ troubles' = troubles
      /\ phase' = phase /\ empty' = empty /\ changes[w] # <<>> /\ stage[w] = "await"
      /\ Request(w) \notin requests /\ Finish(w)
  BY DEF AlterReturns, job
<1>2. requests' \subseteq Requests /\ troubles' \in Nat
  BY <1>1 DEF IInv, WritersTyped
<1>3. /\ WritersTyped' /\ changes'[w] = Tail(changes[w]) /\ stage'[w] = "describe"
      /\ \A v \in Writers \ {w} : changes'[v] = changes[v] /\ stage'[v] = stage[v]
  BY <1>1, <1>2, FinishTyped DEF IInv
<1>4. phase # "altering" => changes'["job"] = <<>>
  BY <1>1, <1>3 DEF IInv, Writers
<1>5. ASSUME troubles = 0 PROVE Undisturbed'
  <2>1. w = "job" /\ changes'["page"] = <<>>
    BY <1>1, <1>3, <1>5 DEF IInv, Undisturbed, Writers
  <2>2. phase = "altering"
    BY <1>1, <2>1 DEF IInv
  <2>3. ASSUME ~empty PROVE Adding'
    <3>1. Adding
      BY <1>5, <2>2, <2>3 DEF IInv, Undisturbed
    <3>2. requests = {} /\ config = Request("job").config
      BY <1>1, <2>1, <3>1 DEF Adding
    <3>3. Request("job").config =
            [copy["job"] EXCEPT ![Head(changes["job"]).key] = Head(changes["job"]).value]
      BY <1>1, <2>1, RequestTyped DEF IInv
    <3>4. copy["job"] \in Config
      BY <2>1 DEF IInv, WritersTyped
    <3>5. CASE changes["job"] = Add
      <4>1. Head(changes["job"]) = SetCleanup /\ changes'["job"] = <<SetRetention>>
        BY <1>3, <2>1, <3>5, ChangesTyped, ListFacts
      <4>2. config.cleanup = "delete"
        BY <3>2, <3>3, <3>4, <4>1 DEF SetCleanup, Config
      <4> QED BY <1>1, <1>3, <2>1, <3>2, <4>1, <4>2, ListFacts DEF Adding
    <3>6. CASE changes["job"] = <<SetRetention>>
      <4>1. Head(changes["job"]) = SetRetention /\ changes'["job"] = <<>>
        BY <1>3, <2>1, <3>6, ListFacts
      <4>2. copy["job"].cleanup = "delete"
        BY <1>1, <2>1, <3>1, <3>6 DEF Adding
      <4>3. config = Both
        BY <3>2, <3>3, <3>4, <4>1, <4>2 DEF SetRetention, Config, Both
      <4> QED BY <1>1, <1>3, <2>1, <3>2, <4>1, <4>3, ListFacts DEF Adding
    <3> QED BY <1>1, <2>1, <3>1, <3>5, <3>6 DEF Adding
  <2> QED BY <1>1, <1>5, <2>1, <2>2, <2>3 DEF IInv, Undisturbed
<1> QED BY <1>1, <1>3, <1>4, <1>5 DEF IInv

LEMMA ApplyConfigsIInv ==
  ASSUME IInv, NEW n \in requests, ApplyConfigs(n)
  PROVE  IInv'
<1>1. /\ config' = n.config /\ requests' = requests \ {n} /\ troubles' = troubles
      /\ phase' = phase /\ empty' = empty /\ changes' = changes /\ stage' = stage
      /\ copy' = copy
  BY DEF ApplyConfigs, job, writer
<1>2. WritersTyped'
  BY <1>1 DEF IInv, WritersTyped, Requests
<1>3. ASSUME troubles = 0, phase = "altering", ~empty PROVE Adding'
  <2>1. Adding
    BY <1>3 DEF IInv, Undisturbed
  <2>2. stage["job"] = "await" /\ n = Request("job")
    BY <2>1 DEF Adding
  <2>3. Request("job")' = n
    BY <1>1, <2>2 DEF Request
  <2>4. changes["job"] # <<>>
    BY <2>2 DEF IInv, WritersTyped, Writers
  <2> QED BY <1>1, <2>1, <2>2, <2>3, <2>4 DEF Adding
<1> QED BY <1>1, <1>2, <1>3 DEF IInv, Undisturbed

\* After a trouble only the types are left to keep.
LEMMA TroubleIInv ==
  ASSUME IInv, Trouble, WritersTyped', phase' # "altering" => changes'["job"] = <<>>
  PROVE  IInv'
<1>1. troubles' # 0
  BY DEF IInv, WritersTyped, Trouble
<1> QED BY <1>1 DEF IInv

LEMMA TroublesIInv ==
  ASSUME IInv,
         \/ \E w \in Writers : AlterTimesOut(w)
         \/ \E n \in requests : RejectConfigs(n)
         \/ \E c \in Change : AlterTopicConfig(c)
         \/ MeasureFails
  PROVE  IInv'
<1>1. ASSUME NEW w \in Writers, AlterTimesOut(w) PROVE IInv'
  <2>1. /\ config' = config /\ requests' = requests /\ phase' = phase /\ Trouble
        /\ changes[w] # <<>> /\ Finish(w)
    BY <1>1 DEF AlterTimesOut, job
  <2>2. requests' \subseteq Requests /\ troubles' \in Nat
    BY <2>1 DEF IInv, WritersTyped, Trouble
  <2>3. /\ WritersTyped' /\ changes'[w] = Tail(changes[w])
        /\ \A v \in Writers \ {w} : changes'[v] = changes[v]
    BY <2>1, <2>2, FinishTyped DEF IInv
  <2>4. phase' # "altering" => changes'["job"] = <<>>
    BY <2>1, <2>3 DEF IInv, Writers
  <2> QED BY <2>1, <2>3, <2>4, TroubleIInv
<1>2. ASSUME NEW n \in requests, RejectConfigs(n) PROVE IInv'
  <2>1. WritersTyped' /\ Trouble /\ phase' = phase /\ changes' = changes
    BY <1>2 DEF RejectConfigs, Trouble, job, writer, IInv, WritersTyped
  <2> QED BY <2>1, TroubleIInv DEF IInv
<1>3. ASSUME NEW c \in Change, AlterTopicConfig(c) PROVE IInv'
  <2>1. /\ Trouble /\ changes["page"] = <<>> /\ changes' = [changes EXCEPT !["page"] = <<c>>]
        /\ config' = config /\ phase' = phase /\ stage' = stage /\ copy' = copy
        /\ requests' = requests
    BY <1>3 DEF AlterTopicConfig, job
  <2>2. <<c>> \in Seq(Change) /\ "page" \in Writers /\ "job" \in Writers
    BY DEF Writers
  <2>3. WritersTyped'
    BY <2>1, <2>2, ListFacts DEF IInv, WritersTyped, Trouble
  <2>4. changes'["job"] = changes["job"]
    BY <2>1, <2>2 DEF IInv, WritersTyped
  <2> QED BY <2>1, <2>3, <2>4, TroubleIInv DEF IInv
<1>4. CASE MeasureFails
  <2>1. WritersTyped' /\ Trouble /\ changes' = changes /\ phase # "altering"
    BY <1>4 DEF MeasureFails, Trouble, writer, IInv, WritersTyped
  <2> QED BY <2>1, TroubleIInv DEF IInv
<1> QED BY <1>1, <1>2, <1>3, <1>4

LEMMA JobIInv ==
  ASSUME IInv, ListTopics \/ EndOffsets \/ BeginningOffsets \/ NextTopic
  PROVE  IInv'
<1> USE DEF IInv
<1>1. CASE ListTopics
  <2>1. WritersTyped'
    BY <1>1 DEF ListTopics, WritersTyped, writer
  <2>2. troubles = 0 => requests = {}
    BY <1>1 DEF ListTopics, Undisturbed
  <2> QED BY <1>1, <2>1, <2>2 DEF ListTopics, Undisturbed, writer
<1>2. CASE EndOffsets
  <2>1. WritersTyped'
    BY <1>2 DEF EndOffsets, WritersTyped, writer
  <2> QED BY <1>2, <2>1 DEF EndOffsets, Undisturbed, writer
<1>3. CASE BeginningOffsets
  <2> PICK list : list = IF empty' THEN Delete ELSE Add
    OBVIOUS
  <2>1. /\ phase = "ends" /\ phase' = "altering" /\ changes' = [changes EXCEPT !["job"] = list]
        /\ config' = config /\ stage' = stage /\ copy' = copy /\ requests' = requests
        /\ troubles' = troubles /\ changes["job"] = <<>>
    BY <1>3 DEF BeginningOffsets
  <2>2. list \in Seq(Change) /\ list # <<>> /\ "job" \in Writers /\ "page" \in Writers
    BY ChangesTyped, ListFacts DEF Writers
  <2>3. WritersTyped'
    BY <2>1, <2>2 DEF WritersTyped
  <2>4. /\ changes'["job"] = list /\ changes'["page"] = changes["page"]
        /\ stage'["job"] = "describe"
    BY <2>1, <2>2 DEF WritersTyped
  <2>5. ASSUME troubles = 0 PROVE Undisturbed'
    <3>1. requests = {} /\ changes["page"] = <<>>
      BY <2>1, <2>5 DEF Undisturbed
    <3>2. ~empty' => Adding'
      <4> SUFFICES ASSUME ~empty' PROVE Adding'
        OBVIOUS
      <4>1. changes'["job"] = Add /\ Add # <<>> /\ Add # <<SetRetention>>
        BY <2>4, ChangesTyped, ListFacts
      <4> QED BY <2>1, <2>4, <3>1, <4>1 DEF Adding
    <3> QED BY <2>1, <2>4, <3>1, <3>2 DEF Undisturbed
  <2> QED BY <2>1, <2>3, <2>5
<1>4. CASE NextTopic
  <2>1. WritersTyped'
    BY <1>4 DEF NextTopic, WritersTyped, writer
  <2> QED BY <1>4, <2>1 DEF NextTopic, Undisturbed, writer
<1> QED BY <1>1, <1>2, <1>3, <1>4

\* IInv only speaks of the job, the writers and the configuration.
LEMMA QuietIInv ==
  ASSUME IInv, UNCHANGED <<config, phase, empty, writer, requests, troubles>>
  PROVE  IInv'
BY DEF IInv, WritersTyped, Undisturbed, Adding, Request, writer

LEMMA NextIInv == IInv /\ [Next]_vars => IInv'
<1> SUFFICES ASSUME IInv, [Next]_vars PROVE IInv'
  OBVIOUS
<1>1. ASSUME NEW p \in Partitions, Produce(p) \/ Expire(p) PROVE IInv'
  BY <1>1, QuietIInv DEF Produce, Expire, job
<1>2. CASE CleanTopicData
  BY <1>2, QuietIInv DEF CleanTopicData, job
<1>3. ASSUME NEW w \in Writers, WriterStep(w) PROVE IInv'
  BY <1>3, DescribeIInv, AlterConfigsIInv, AlterReturnsIInv DEF WriterStep
<1>4. CASE UNCHANGED vars
  BY <1>4, QuietIInv DEF vars, job
<1>5. "job" \in Writers /\ "page" \in Writers
  BY DEF Writers
<1> QED BY <1>1, <1>2, <1>3, <1>4, <1>5, JobIInv, TroublesIInv, ApplyConfigsIInv
        DEF Next, TopicCleanTask

\* When a pass has found records and made its two changes, both keys are in
\* force, unless the topic page or a failure came in between: the second
\* change is built on a configuration read after the first was applied.
THEOREM BothKeysStaySet == Spec => []BothKeysSet
<1>1. IInv => BothKeysSet
  BY DEF IInv, Undisturbed, Adding, BothKeysSet, Both
<1> QED BY <1>1, InitIInv, NextIInv, PTL DEF Spec

-----------------------------------------------------------------------------
(* What the job measures, and the types of the rest. *)

Offsets == 0..MaxRecords

\* Records are only added at the end and taken away at the beginning, so what
\* was there when a truncation was asked for lies before every later end.
LogTyped ==
  /\ begin \in [Partitions -> Offsets] /\ end \in [Partitions -> Offsets]
  /\ ends \in [Partitions -> Offsets]
  /\ asked \in [Partitions -> Offsets] /\ taken \in [Partitions -> Offsets]
  /\ \A p \in Partitions : begin[p] <= end[p] /\ asked[p] <= end[p] /\ taken[p] <= asked[p]
  /\ row \in 0..2 /\ phase \in {"idle", "listed", "ends", "altering"}
  /\ empty \in BOOLEAN /\ overtaken \in BOOLEAN

\* What has been measured of it: the two totals can only agree, with no begin
\* past its end, when partition by partition nothing is left.
Measured ==
  /\ phase = "ends" => \A p \in Partitions : taken[p] <= ends[p]
  /\ phase = "altering" /\ empty /\ ~overtaken =>
       \A p \in Partitions : taken[p] <= begin[p]

LogInv == LogTyped /\ Measured

\* The total over the partitions is their sum.
LEMMA TotalIsSum ==
  ASSUME NEW f \in [Partitions -> Offsets]
  PROVE  Total(f) = SumFunctionOnSet(f, Partitions)
<1>1. DOMAIN f = Partitions
  OBVIOUS
<1> QED BY <1>1 DEF Total, FoldFunction, SumFunctionOnSet

\* No record is left where the ends add up to no more than the begins.
LEMMA NothingLeft ==
  ASSUME NEW e \in [Partitions -> Offsets], NEW b \in [Partitions -> Offsets],
         ~HasRecords(Total(e) - Total(b)), \A p \in Partitions : b[p] <= e[p]
  PROVE  \A p \in Partitions : b[p] = e[p]
<1>1. IsFiniteSet(Partitions) /\ Offsets \subseteq Nat
  BY TopicAssumption DEF Offsets
<1>2. \A p \in Partitions : b[p] \in Nat /\ e[p] \in Nat /\ b[p] <= e[p]
  BY <1>1
<1>3. /\ SumFunctionOnSet(e, Partitions) \in Nat /\ SumFunctionOnSet(b, Partitions) \in Nat
  BY <1>1, <1>2, SumNat
<1>4. SumFunctionOnSet(e, Partitions) <= SumFunctionOnSet(b, Partitions)
  BY <1>3, TotalIsSum DEF HasRecords
<1> QED BY ONLY <1>1, <1>2, <1>4, SumMonotone

LEMMA InitLogInv == Init => LogInv
<1> SUFFICES ASSUME Init PROVE LogInv
  OBVIOUS
<1>1. begin \in [Partitions -> Offsets] /\ end \in [Partitions -> Offsets]
  BY TopicAssumption DEF Init, Offsets
<1>2. \A p \in Partitions : begin[p] = 0 /\ 0 <= end[p]
  BY TopicAssumption DEF Init
<1>3. /\ ends = begin /\ asked = begin /\ taken = begin /\ row = 2 /\ phase = "idle"
      /\ empty = FALSE /\ overtaken = FALSE
  BY DEF Init
<1>4. \A p \in Partitions : begin[p] <= end[p] /\ asked[p] <= end[p] /\ taken[p] <= asked[p]
  BY <1>2, <1>3
<1>5. /\ ends \in [Partitions -> Offsets] /\ asked \in [Partitions -> Offsets]
      /\ taken \in [Partitions -> Offsets]
  BY <1>1, <1>3
<1>6. row \in 0..2
  BY <1>3
<1>7. empty \in BOOLEAN /\ overtaken \in BOOLEAN
  BY <1>3, Zenon
<1>8. LogTyped
  BY ONLY <1>1, <1>3, <1>4, <1>5, <1>6, <1>7 DEF LogTyped
<1> QED BY <1>3, <1>8 DEF LogInv, Measured

LEMMA NextLogInv == LogInv /\ [Next]_vars => LogInv'
<1> SUFFICES ASSUME LogInv, [Next]_vars PROVE LogInv'
  OBVIOUS
<1> USE DEF LogInv
<1>1. ASSUME NEW p \in Partitions, Produce(p) PROVE LogInv'
  <2>1. end'[p] = end[p] + 1 /\ end'[p] \in Offsets /\ end[p] \in Nat
    BY <1>1, TopicAssumption DEF Produce, LogTyped, Offsets
  <2>2. /\ end' \in [Partitions -> Offsets] /\ begin' = begin /\ asked' = asked /\ taken' = taken
        /\ \A q \in Partitions : end[q] <= end'[q]
    BY <1>1, <2>1 DEF Produce, LogTyped, Offsets
  <2>3. LogTyped'
    BY <1>1, <2>2 DEF Produce, LogTyped, job, Offsets
  <2> QED BY <1>1, <2>2, <2>3 DEF Produce, Measured, job
<1>2. ASSUME NEW p \in Partitions, Expire(p) PROVE LogInv'
  <2>1. PICK k \in (begin[p] + 1)..end[p] : begin' = [begin EXCEPT ![p] = k]
    BY <1>2 DEF Expire
  <2>0. begin[p] \in 0..MaxRecords /\ end[p] \in 0..MaxRecords /\ MaxRecords \in Nat
    BY TopicAssumption DEF LogTyped, Offsets
  <2>2. k \in Offsets /\ begin[p] <= k /\ k <= end[p]
    BY <2>0 DEF Offsets
  <2>3. LogTyped'
    BY <1>2, <2>1, <2>2 DEF Expire, LogTyped, job
  <2>4. \A q \in Partitions : begin[q] <= begin'[q]
    BY <2>1, <2>2 DEF LogTyped, Offsets
  <2>5. Measured'
    BY <1>2, <2>3, <2>4 DEF Expire, Measured, LogTyped, job, Offsets
  <2> QED BY <2>3, <2>5
<1>3. CASE CleanTopicData
  <2>1. asked' = end /\ \A p \in Partitions : taken[p] <= end[p]
    BY <1>3 DEF CleanTopicData, LogTyped, Offsets
  <2> QED BY <1>3, <2>1 DEF CleanTopicData, LogTyped, Measured, job, log, Offsets
<1>4. CASE ListTopics
  BY <1>4 DEF ListTopics, LogTyped, Measured, log, Offsets
<1>5. CASE EndOffsets
  <2>1. \A p \in Partitions : taken[p] <= end[p]
    BY DEF LogTyped, Offsets
  <2> QED BY <1>5, <2>1 DEF EndOffsets, LogTyped, Measured, log
<1>6. NoEnds \in [Partitions -> Offsets]
  BY TopicAssumption DEF NoEnds, Offsets
<1>7. CASE BeginningOffsets
  <2>1. /\ phase = "ends" /\ phase' = "altering" /\ ends' = NoEnds /\ begin' = begin /\ end' = end
        /\ empty' = ~HasRecords(Total(ends) - Total(begin))
        /\ overtaken' = \E p \in Partitions : begin[p] > ends[p]
        /\ row' = row /\ asked' = asked /\ taken' = taken
    BY <1>7 DEF BeginningOffsets, log
  <2>2. empty' \in BOOLEAN /\ overtaken' \in BOOLEAN
    BY <2>1
  <2>3. LogTyped'
    BY <1>6, <2>1, <2>2 DEF LogTyped
  <2>4. ASSUME empty', ~overtaken' PROVE \A p \in Partitions : taken'[p] <= begin'[p]
    <3>1. \A p \in Partitions : begin[p] <= ends[p]
      BY <2>1, <2>4 DEF LogTyped, Offsets
    <3>2. \A p \in Partitions : begin[p] = ends[p]
      BY <2>1, <2>4, <3>1, NothingLeft DEF LogTyped
    <3> QED BY <2>1, <3>2 DEF Measured
  <2> QED BY <2>1, <2>3, <2>4 DEF Measured
<1>8. CASE MeasureFails
  BY <1>6, <1>8 DEF MeasureFails, LogTyped, Measured, log
<1>9. CASE NextTopic
  <2>1. /\ phase' = "idle" /\ empty' = FALSE /\ overtaken' = FALSE /\ row' \in {1, row}
        /\ begin' = begin /\ end' = end /\ ends' = ends /\ asked' = asked /\ taken' = taken
    BY <1>9 DEF NextTopic, log
  <2>2. row' \in 0..2
    BY <2>1 DEF LogTyped
  <2> QED BY <2>1, <2>2 DEF LogTyped, Measured
<1>10. ASSUME UNCHANGED <<log, row, job, asked, taken>> PROVE LogInv'
  BY <1>10 DEF LogTyped, Measured, log, job
<1>11. ASSUME NEW w \in Writers, WriterStep(w) \/ AlterTimesOut(w) PROVE LogInv'
  BY <1>10, <1>11 DEF WriterStep, DescribeTopicConfig, AlterConfigs, AlterReturns, AlterTimesOut
<1>12. ASSUME NEW n \in requests, ApplyConfigs(n) \/ RejectConfigs(n) PROVE LogInv'
  BY <1>10, <1>12 DEF ApplyConfigs, RejectConfigs
<1>13. ASSUME NEW c \in Change, AlterTopicConfig(c) PROVE LogInv'
  BY <1>10, <1>13 DEF AlterTopicConfig
<1>14. CASE UNCHANGED vars
  BY <1>10, <1>14 DEF vars
<1>15. "job" \in Writers /\ "page" \in Writers
  BY DEF Writers
<1> QED BY <1>1, <1>2, <1>3, <1>4, <1>5, <1>7, <1>8, <1>9, <1>11, <1>12, <1>13, <1>14, <1>15
        DEF Next, TopicCleanTask

\* All variables keep their types: no request carries anything but a
\* configuration, and retention never takes away more than there is.
THEOREM TypesHold == Spec => []TypeOK
<1>1. IInv /\ LogInv => TypeOK
  BY DEF IInv, WritersTyped, LogInv, LogTyped, TypeOK, Stages, Requests, Offsets
<1> QED BY <1>1, InitIInv, NextIInv, InitLogInv, NextLogInv, PTL DEF Spec

\* The row of a topic becomes 1 only when every record is gone that it held
\* when the request was made, although the end and the begin offsets are read
\* one after the other and only their sums are compared: without a begin past
\* the end read before, equal sums are sums of equal offsets.
THEOREM TruncatedMeansItIsGone == Spec => TruncatedMeansGone
<1> DEFINE Gone == row = 0 /\ row' = 1 /\ ~overtaken =>
                     \A p \in Partitions : begin[p] >= taken[p]
<1>1. LogInv /\ [Next]_vars => [Gone]_vars
  <2> SUFFICES ASSUME LogInv, [Next]_vars, row = 0, row' = 1, ~overtaken
               PROVE  \A p \in Partitions : begin[p] >= taken[p]
    OBVIOUS
  <2>1. NextTopic
    BY DEF Next, TopicCleanTask, WriterStep, Produce, Expire, CleanTopicData, AlterTopicConfig,
           ListTopics, EndOffsets, BeginningOffsets, MeasureFails, DescribeTopicConfig,
           AlterConfigs, AlterReturns, AlterTimesOut, ApplyConfigs, RejectConfigs, vars
  <2>2. phase = "altering" /\ empty
    BY <2>1 DEF NextTopic
  <2> QED BY <2>2 DEF LogInv, LogTyped, Measured, Offsets
<1>2. Spec => [][Gone]_vars
  BY <1>1, InitLogInv, NextLogInv, PTL DEF Spec
<1> QED BY <1>2 DEF TruncatedMeansGone
=============================================================================
