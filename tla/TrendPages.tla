----------------------------- MODULE TrendPages -----------------------------
(***************************************************************************)
(* The pages that draw charts over a range of days, and the big screen:    *)
(* one page is open in the browser, its requests are answered in any       *)
(* order or not at all, and its timers ask again.  The date picker is the  *)
(* one RangeChooser describes (DateRangePicker implements it).             *)
(*                                                                         *)
(* A chart shows the answer it was last drawn from: the days and names     *)
(* asked for, and how new the server's figures were.                       *)
(***************************************************************************)
EXTENDS RangeChooser, Sequences, SequencesExt

CONSTANTS
  Modules,     \* check boxes of the Kafka metrics page, one chart each
  Topics,      \* topics the select box of the topic page can list
  Ids,         \* positions in its list of results
  NoTopic,     \* an id without an <option> element
  ScreenShows, \* the requests of the big screen that are followed
  Chosen,     \* bound: the pairs of days the user chooses
  MaxUpdates,  \* bound: how often the server's figures change
  MaxSent      \* bound: requests in flight

ASSUME TrendAssumption ==
  MaxUpdates \in Nat /\ MaxSent \in Nat /\ Chosen \subseteq Pairs

VARIABLES
  page,        \* the open page
  ticked,      \* checked boxes of the Kafka page
  option,      \* <option> elements of the select box: id -> text
  selected,    \* ids of the selected ones
  hidden,      \* #ke_topic_aggrate: the topics the next query asks for
  sent,        \* requests in flight, oldest first
  shown,       \* chart -> the answer it was drawn from
  version,     \* of the server's figures
  dismissed    \* history: a changed range was dismissed, not applied

inputs == <<ticked, option, selected, hidden>>
vars == <<chooser, inputs, page, sent, shown, version, dismissed>>

-----------------------------------------------------------------------------
(* The requests of each page: what they carry, and the timer that repeats  *)
(* them: every minute or every five, none for those made on loading.  The  *)
(* realtime page has two timers.                                           *)

Request(on, no, name, ranged, timer) ==
  [page |-> on, no |-> no, name |-> name, ranged |-> ranged, timer |-> timer]

MbeanRealtime == Request("kafka", 1, "mbeans", TRUE, "polled")
ZkRealtime == Request("zk", 1, "zk", TRUE, "polled")

MetaRates == Request("meta", 2, "rates", FALSE, "load")
MetaSize == Request("meta", 3, "size", FALSE, "load")
ProducerMsg == Request("meta", 1, "producer", TRUE, "polled")

OffsetRealtime == Request("realtime", 1, "offsets", TRUE, "polled")
OffsetRateRealtime == Request("realtime", 2, "rate", FALSE, "beside it")

ProducerSelect == Request("topics", 1, "aggregate", TRUE, "polled")

RealRate == Request("screen", 1, "realrate", FALSE, "polled")
TotalCapacity == Request("screen", 8, "capacity", FALSE, "load")
TotalLogSize == Request("screen", 2, "logsize", FALSE, "polled")
ProducerHistory == Request("screen", 3, "producers", FALSE, "polled")
ConsumerHistory == Request("screen", 4, "consumers", FALSE, "polled")
TodayProducer == Request("screen", 5, "producer", FALSE, "polled")
TodayConsumer == Request("screen", 6, "consumer", FALSE, "polled")
TodayLag == Request("screen", 7, "lag", FALSE, "polled")

Requests ==
  {MbeanRealtime, ZkRealtime, MetaRates, MetaSize, ProducerMsg, OffsetRealtime,
   OffsetRateRealtime, ProducerSelect} \cup
  {r \in {RealRate, TotalCapacity, TotalLogSize, ProducerHistory,
          ConsumerHistory, TodayProducer, TodayConsumer, TodayLag} :
     r.name \in ScreenShows}
Pages == {r.page : r \in Requests}
Once == {r \in Requests : r.timer = "load"}
Timers == {r.timer : r \in Requests \ Once}
OnPage(p) == {r \in Requests : r.page = p}

ChartsOf(r) == IF r = MbeanRealtime THEN Modules ELSE {r.name}
Charts(p) == UNION {ChartsOf(r) : r \in OnPage(p)}

-----------------------------------------------------------------------------
(* Asking and drawing. *)

\* A request as it is sent: the days and names are read at that moment.
Asking(r, days, names) ==
  [request |-> r, days |-> IF r.ranged THEN days ELSE <<>>,
   names |-> IF r \in {MbeanRealtime, ProducerSelect} THEN names ELSE {},
   since |-> version]

\* The names the page sends along: the checked modules or the hidden topics.
\* The first query of the topic page names none.
Names(p, boxes) == IF p = "kafka" THEN boxes ELSE hidden

\* Mutant: the timer asks for what the page was loaded with.
AskForOpening(rs) ==
  sent' = sent \o SetToSeq({Asking(r, Opening, Names(page, ticked)) : r \in rs})

Ask(rs) ==
  sent' = sent \o SetToSeq({Asking(r, asked, Names(page, ticked)) : r \in rs})

\* filter(): what chart c draws from an answer to q with figures of version v.
\* A module the request did not name comes back empty; none named means all.
Drawn(q, c, v) ==
  IF q.request = MbeanRealtime
  THEN [days |-> q.days, version |-> v,
        names |-> IF q.names = {} \/ c \in q.names THEN {c} ELSE {}]
  ELSE [days |-> q.days, version |-> v, names |-> q.names]

Empty == [days |-> <<>>, version |-> -1, names |-> {}]

-----------------------------------------------------------------------------
Init ==
  /\ ChooserInit
  /\ page \in Pages
  /\ ticked \in IF page = "kafka" THEN SUBSET Modules ELSE {{}}
  /\ option = [i \in Ids |-> NoTopic] /\ selected = {} /\ hidden = {}
  /\ version = 0 /\ dismissed = FALSE
  /\ sent = SetToSeq({Asking(r, asked, ticked) : r \in OnPage(page)})
  /\ shown = [c \in Charts(page) |-> Empty]

HasPicker == \E r \in OnPage(page) : r.ranged
Room(n) == Len(sent) + n <= MaxSent

\* The user and the picker.
OpenPicker ==
  HasPicker /\ Open /\ UNCHANGED <<inputs, page, sent, shown, version, dismissed>>

DismissPicker ==
  /\ \E r \in Chosen : Dismiss(r)
  /\ dismissed' = (dismissed \/ label' # label)
  /\ UNCHANGED <<inputs, page, sent, shown, version>>

\* A typed date taken over after the picker was dismissed: the label is not
\* told, now or when the picker is closed again unchanged.
StrayDate ==
  /\ HasPicker
  /\ \E r \in Chosen : StrayEdit(r)
  /\ UNCHANGED <<inputs, page, sent, shown, version, dismissed>>

\* The requests the page repeats when a range is applied.
RangedOnes == {r \in OnPage(page) : r.ranged}

\* Mutant: the handler of the apply event reads the label no more.
ApplyUnread ==
  /\ Room(1)
  /\ \E r \in Chosen : Close(r)
  /\ asked' = asked
  /\ sent' = sent \o SetToSeq({Asking(r, asked, Names(page, ticked)) :
                                 r \in RangedOnes})
  /\ dismissed' = FALSE
  /\ UNCHANGED <<inputs, page, shown, version>>

\* on('apply.daterangepicker')
ApplyRange ==
  /\ Room(1)
  /\ \E r \in Chosen : Apply(r)
  /\ sent' = sent \o SetToSeq({Asking(r, asked', Names(page, ticked)) :
                                 r \in RangedOnes})
  /\ dismissed' = FALSE
  /\ UNCHANGED <<inputs, page, shown, version>>

\* A box that is checked shows its chart and asks anew, label first; one that
\* is unchecked only hides its chart.
Check(m) ==
  /\ page = "kafka" /\ m \notin ticked /\ Room(1)
  /\ ticked' = ticked \cup {m}
  /\ asked' = label /\ dismissed' = FALSE
  /\ sent' = Append(sent, Asking(MbeanRealtime, asked', ticked'))
  /\ UNCHANGED <<open, chosen, label, option, selected, hidden, page, shown,
                 version>>

Uncheck(m) ==
  /\ page = "kafka" /\ m \in ticked
  /\ ticked' = ticked \ {m}
  /\ UNCHANGED <<chooser, option, selected, hidden, page, sent, shown, version,
                 dismissed>>

\* The select box numbers each list of results from 1 and knows its options
\* by that number.  A number that is selected is deselected, one that has an
\* <option> already is selected with the old text.  The change event then
\* copies the selected texts into the hidden field.
Choose(id, topic) ==
  /\ page = "topics"
  /\ selected' = IF id \in selected THEN selected \ {id} ELSE selected \cup {id}
  /\ option' = IF option[id] = NoTopic THEN [option EXCEPT ![id] = topic]
               ELSE option
  /\ hidden' = {option'[i] : i \in selected'}
  /\ UNCHANGED <<chooser, ticked, page, sent, shown, version, dismissed>>

QueryClick ==
  /\ page = "topics" /\ Room(1)
  /\ Ask({ProducerSelect})
  /\ UNCHANGED <<chooser, inputs, page, shown, version, dismissed>>

\* A timer asks for everything it repeats on the open page.
Repeated(t) == {r \in OnPage(page) : r.timer = t}
Poll(t) ==
  /\ Repeated(t) # {} /\ Len(sent) + Len(SetToSeq(Repeated(t))) <= MaxSent
  /\ Ask(Repeated(t))
  /\ UNCHANGED <<chooser, inputs, page, shown, version, dismissed>>

\* An answer, computed at any moment since the request, draws its charts.
Arrive(i) ==
  /\ LET q == sent[i]
     IN  \E v \in q.since..version :
           shown' = [c \in DOMAIN shown |->
                       IF c \in ChartsOf(q.request) THEN Drawn(q, c, v)
                       ELSE shown[c]]
  /\ sent' = RemoveAt(sent, i)
  /\ UNCHANGED <<chooser, inputs, page, version, dismissed>>

\* A request that fails is not noticed: no page has an error handler.
Fail(i) ==
  sent' = RemoveAt(sent, i)
  /\ UNCHANGED <<chooser, inputs, page, shown, version, dismissed>>

\* The jobs on the server store new figures.
Update ==
  /\ version < MaxUpdates /\ version' = version + 1
  /\ UNCHANGED <<chooser, inputs, page, sent, shown, dismissed>>

Next ==
  \/ OpenPicker \/ DismissPicker \/ StrayDate \/ ApplyRange \/ QueryClick
  \/ \E m \in Modules : Check(m) \/ Uncheck(m)
  \/ \E id \in Ids, topic \in Topics : Choose(id, topic)
  \/ \E t \in Timers : Poll(t)
  \/ \E i \in DOMAIN sent : Arrive(i) \/ Fail(i)
  \/ Update

\* The timers go on, the oldest request does not stay in flight for ever, and
\* a request that is made again and again is answered again and again.
ArriveFor(no) ==
  \E i \in DOMAIN sent : sent[i].request.no = no /\ Arrive(i)
OldestLeaves == sent # <<>> /\ (Arrive(1) \/ Fail(1))
Fairness ==
  /\ \A t \in Timers : SF_vars(Poll(t))
  /\ \A no \in {r.no : r \in Requests \ Once} : SF_vars(ArriveFor(no))
  /\ WF_vars(OldestLeaves)

Spec == Init /\ [][Next]_vars /\ Fairness

-----------------------------------------------------------------------------
\* What the charts should show: the days of the label, unless the user only
\* dismissed a range, and what is checked or selected now.
Wanted(r) ==
  LET days == IF dismissed THEN asked ELSE label
  IN  Asking(r, days, Names(page, ticked))
Visible(r, c) == r = MbeanRealtime => c \in ticked
Current ==
  \A r \in {s \in OnPage(page) : s \notin Once} : \A c \in ChartsOf(r) :
    Visible(r, c) => shown[c] = Drawn(Wanted(r), c, version)

(***************************************************************************)
(* Once the user leaves the page alone, every chart that is visible and    *)
(* polled comes to show the labelled days (those last asked for, if a      *)
(* change was only dismissed), the checked modules or selected topics and  *)
(* the server's newest figures, and goes on showing them: answers that     *)
(* arrive out of order, get lost or were asked for other days do no        *)
(* lasting harm.                                                           *)
(***************************************************************************)
ChartsConverge ==
  <>[][UNCHANGED <<chooser, inputs>>]_vars => <>[]Current
=============================================================================
