# Kafka Eagle: a verification project

TLA+ modules, TLC configurations and TLAPS proofs about Kafka Eagle, the Spring
Boot application under `src/` that monitors and manages Kafka clusters. Java
paths below are relative to `src/src/main/java/org/smartloli/kafka/eagle/web/`.

## 1. Inventory

The program keeps its durable state in a relational database reached through
MyBatis mappers (`dao/*.xml`), and acts on Kafka and ZooKeeper. Four kinds of
threads run its code on the server:

* web threads, one per request, running the handlers of `controller/`;
* one Spring scheduler thread (`@EnableScheduling` with the default pool of
  one), running the five jobs of `job/` every ten minutes, one after another;
* Quartz threads, delivering alarm notices from an in-memory store;
* the network threads of Kafka clients.

They share the database, the object pools of clients and the Quartz store; no
handler or job uses a transaction that spans several statements.

The other half of the program runs in the browser
(`src/src/main/resources/static/media/js`, below `js/`): a script per page in
`js/main` and `js/bscreen`, and the libraries of `js/plugins` that carry the pages'
behaviour. A browser runs one script at a time, but between two scripts come, in
any order, the user's clicks and keys, answers to requests, timers and animation
frames. Server and browser meet in requests that may be answered late, out of
order or not at all; no page handles a failed request.

| Component | State | Operations | What is hard | What makes it correct |
|---|---|---|---|---|
| Alarm rules (`controller/AlarmController`, `dao/AlertDao.xml`) | rows of `ke_alarm_consumer`, `ke_alarm_clusters` | create, edit, switch, delete; status update by the job | edits while the job holds copies of the rows | status columns agree with each other; the job undoes no edit |
| Alarm evaluation (`job/KafkaAlertJob`) | the list it walks over, the element it is at | walk, judge, store status, send | exceptions that end a loop; deleted groups; database failures | a count never passes the quotas; nothing is announced twice; every rule is judged |
| Notification queue (`service/impl/IMServiceImpl`, `util/QuartzManagerUtils`, `job/im/*`) | Quartz's RAM store | add, deliver | name collisions, crash, silent failures | a notice agrees with the stored status |
| Alarm groups (`AlarmController`, `ke_alarm_config`) | one row per cluster and group | add, edit, delete | check and insert are two statements | what a user was told is created is stored until it is edited or deleted |
| Topic truncation (`TopicController.cleanTopicDataAjax`, `job/TopicRankJob.topicCleanTask`, `KafkaMetricsServiceImpl.changeTopicConfig`) | `truncate` row, the topic's configuration | request, shorten retention, restore, mark | read-modify-write of a whole configuration; writes not awaited; requests that race with the job | data goes only when asked; a request is carried out in the end, unless it repeats one the job is just at, whose mark then covers both; the configuration comes back |
| Client pools (`support/*Template`, `config/GlobalResourceConfig`) | borrowed and idle clients | borrow, nested borrow, return | exhaustion, nested borrowing, exceptions between borrow and return | every client comes back; nobody waits for ever |
| Metrics collection (`job/TopicRankJob`, `KafkaTopicMetricsJob`, `KafkaMetricsJob`, `KafkaRecordCleanJob`) | batch buffers, previous samples, sample tables | sample, difference, flush, clean | partial flush failures, nulls, counters that go back | each sample is stored once |
| Broker balance (`service/impl/BrokerServiceImpl`, `job/TopicRankJob`, topic page) | a row per topic and figure | walk over partitions, compute, replace, show | the cluster moves during the walk; exceptions stored as 0; integer rounding | undisturbed figures are exact; rows recover |
| Trend pages and big screen (`js/main/metrics`, `topic.meta.js`, `topic/list.js`, `offset.realtime.js`, `js/bscreen`) | days, checked modules, topics, charts | choose, poll, draw | answers for other days, late, lost | the charts come to show what is chosen |
| Date picker (`plugins/datatimepicker/daterangepicker.js`) | range, old range, two calendars, the page's caption | click, hover, type, leaf, apply, cancel, press outside | half-chosen ranges; several ways to close | closed, it holds a whole range, in order |
| Tree diagrams (`plugins/d3`, `consumers.js`, `resource.js`) | folded nodes, elements, transitions, timers | fold, unfold, animate | clicks while older transitions run | at rest the picture is the tree, without overlaps |
| Tables and dialogs (`js/main/alarm`, `system`, `topic`, `cluster`, `consumer`) | what is shown, the row a dialog is open for, check boxes | page, search, open, edit, tick, confirm | answers that cross; one variable for several dialogs; one request per click | what is shown, stored or confirmed is of the row it says |
| Forms with select boxes (`alarm/create.js`, `add.js`, `modify.js`, `config.js`, `topic/manager.js`, `mock.js`) | options, hidden inputs | search, pick, submit | options numbered anew per answer | what is sent is what is shown |
| Query page and editor (`topic/msg.js`, `plugins/codemirror`) | queries, document, history, views, colours, hidden text area | query, type, undo, scroll, colour, complete | incremental updates of five derived structures; timers and polls | each derived structure agrees with the text |
| Users, roles and resources (`SystemController`, `AccountController`, `RoleServiceImpl`) | user, role and resource tables, sessions | add, edit, reset, assign | assigning is one request per box; the page's boxes | boxes and rows agree |
| Ad-hoc queries (`sql/`, `service/impl/TopicServiceImpl`) | query history | run, log | large results | the page shows the answer of the query it was asked |
| Read-only services (`ConsumerServiceImpl`, `KafkaServiceImpl`, `ZkServiceImpl`, `OffsetServiceImpl`, `DashboardServiceImpl`, `BScreenServiceImpl`, `Mx4jServiceImpl`, `ClusterServiceImpl`) | none of their own | queries of Kafka, ZooKeeper, JMX | they borrow pooled clients | covered by the pools |
| Schema set-up (`plugin/mysql`, `plugin/sqlite`), sign-in (`security/`), utilities (`util/`) | tables | create if missing; format | none | idempotent |

How the parts meet: the alarm job reads the rule tables the alarm pages edit,
the groups they delete, and the newest rows the sampling jobs stored; all jobs
run on one thread, so a job that dies gives way to the next and one that hangs
stops them all; the truncation job and the topic page write the same topic
configuration; every one of these operations borrows clients from the pools. The
trend pages draw the rows the sampling jobs store, over the days their picker
holds. The query page sends the text of its editor, whose history, views, colours
and input all follow the same changes of one document.

`PROJECT.json` lists the hazards of this code one by one, with the line where
each bites and the property that watches it.

## 2. Modules, runs and proofs

| Module | Models | Extends / implements |
|---|---|---|
| `AlarmEpisodes` | what is promised about one alarm rule (abstract) | |
| `AlarmCenter` | rules, handlers, job, notices | implements `AlarmEpisodes` |
| `AlarmCenterProofs` | theorems about `AlarmCenter` | `AlarmCenter`, TLAPS |
| `TopicClean` | truncation, and the changes of a topic's configuration | |
| `TopicCleanProofs` | theorems about `TopicClean` | `TopicClean`, `FoldLemmas`, TLAPS |
| `ClientPool` | pools and the templates that lend from them | |
| `ClientPoolProofs` | theorems about `ClientPool` | `ClientPool`, TLAPS |
| `LagSampling` | samples, differences, batches, cleaning | |
| `LagAlarm` | the consumer alarms on top of the samples | `LagSampling` |
| `LagSamplingProofs` | theorems about `LagSampling` | `LagSampling`, TLAPS |
| `BrokerBalance` | spread, skew and leader skew of a topic | |
| `BrokerBalanceProofs` | theorems about `BrokerBalance` | `BrokerBalance`, `FoldLemmas`, TLAPS |
| `FoldLemmas` | induction, sums, folds and parts of sequences, for the proofs | TLAPS |
| `RangeChooser` | what a trend page relies on in its date picker (abstract) | |
| `DateRangePicker` | the picker's handlers | implements `RangeChooser` |
| `TrendPages` | the trend pages and the big screen | `RangeChooser` |
| `TreeLayout` | the layout of d3's tree diagrams | |
| `TreeDiagram` | folding, joining by key, transitions and timers | `TreeLayout` |
| `PageAnswers` | tables, details and lists filled by answers | |
| `RowBoxes` | boxes whose every click is a request | |
| `RowForms` | dialogs in which a row is edited | |
| `RowLinks` | dialogs that confirm what is done with a row | |
| `AlarmGroups` | the handlers of alarm groups, several at a time | |
| `QueryResults` | the query page and the answers to its queries | |
| `PickForms` | forms with select boxes | |
| `PagesProofs` | theorems about the seven modules above, the picker and the text area | those seven, `DateRangePicker`, `TextareaInput`, `FoldLemmas`, TLAPS |
| `SqlCompletion` | completing keywords in the editor | |
| `LineTree` | the editor's tree of lines | |
| `EditHistory` | the editor's document, undo and redo | |
| `ViewMap` | the views of lines and their elements | |
| `HighlightWorker` | colouring lines, in sight and in the background | |
| `TextareaInput` | from the hidden text area to the document | |
| `EditorProofs` | theorems about completion, colours and what is drawn | `SqlCompletion`, `HighlightWorker`, `ViewMap`, `FoldLemmas`, TLAPS |
| `Console` | the browser's components side by side | the fifteen from `DateRangePicker` on, `TrendPages` apart |
| `MC*` | values of the constants for TLC | the module of that name |

Operators that begin with a comment `Mutant:` are altered copies of the
definition below them. Nothing uses them; they are the plausible bugs each
property was tried against. Variables marked *history* record what the
properties speak of; no guard reads them.

Every run checks deadlock, and none occurs: no configuration turns it off.

| Run | Configuration | Result |
|---|---|---|
| `alarm_two_rules` | `AlarmCenter_two_rules.cfg` | holds |
| `alarm_liveness` | `AlarmCenter_liveness.cfg` | holds |
| `alarm_cancel` | `AlarmCenter_cancel.cfg` | violated: finding 1 |
| `truncate` | `TopicClean_fair.cfg` | holds |
| `truncate_restore` | `TopicClean_restore.cfg` | violated: finding 2 |
| `truncate_masked` | `TopicClean_masked.cfg` | violated: finding 3 |
| `pool` | `ClientPool_fair.cfg` | holds |
| `lag` | `LagSampling_rows.cfg` | holds |
| `lag_midnight` | `LagAlarm_midnight.cfg` | violated: finding 4 |
| `balance` | `BrokerBalance_figures.cfg` | holds |
| `trend` | `TrendPages_fair.cfg` | holds |
| `console` | `Console.cfg` | holds |

To repeat them: `tlc -config AlarmCenter_two_rules.cfg MCAlarmCenter` and so on,
and `tlapm AlarmCenterProofs.tla` for the proofs. The longest run takes about
three minutes on two cores.

### 2.1 The alarm centre: `AlarmCenter`, `AlarmEpisodes`

**State.** `rule[r]` is the row with id `r` of `ke_alarm_consumer` or
`ke_alarm_clusters` (`Kind` says which), reduced to the columns the job reads or
writes: quota (`alarm_max_times`), group, whether the server text parses,
`is_enable`, `alarm_times`, `is_normal`. `configs` are the groups that have a
row in `ke_alarm_config`. The job's local variables are `pending` (the rest of
the list of copies it iterates over), `task` (the element), `found`
(`alarmConfig != null`) and `notice` (what it is about to send). `queue` holds
the notices that wait in Quartz.

**Actions.** One per handler of `AlarmController` that changes a rule or a
group (`AlarmCreateForm`, `ModifyInfo`, `SwitchById`, `DeleteRule`, `AddConfig`,
`DeleteConfig`); for the job one per database or Quartz call, because other
threads run between these: the two list queries (`Execute`, `ConsumersDone`),
`FetchConfig`, `Judge` with the status update, `SendError`/`SendNormal`. The
exceptions are actions too: `JudgeMalformed`, `SendWithoutConfig` and
`DatabaseFails` leave the loop where the code does, `QuartzRefuses` leaves it in
`consumer()` and not in `cluster()`, `Crash` loses the job's variables and the
queue. `Deliver` takes a notice out of the queue whether or not the post works,
as `MailJob` and the others only log a failure.

Rules that compare a lag recover at the limit, rules that compare a capacity
only below it; `Measures` and `Recovers` keep that difference and leave out the
numbers. A topic rule is always stored malformed (the form's topic branch is
overwritten), and consumer rules cannot be created at all (the insert names a
reserved word), so those present at the start are all there are.

**What is checked.** The hard part is that the job writes back a status computed
from a copy that may be minutes old. `SnapshotFresh` says why this is right:
nobody else writes the status columns, and the job holds one copy of a row.
`StatusConsistent`, `QuotaRespected`, `RaisedWithinTimes` and `NoticeAgrees`
follow from it. `JobKeepsEdits` says that the update, which names two
columns, undoes no edit. `ImplementsEpisodes` sums it up: under the mapping from
rows to *absent, normal, alarm, deleted* every step is a step of
`AlarmEpisodes`, or none. `PassEnds` and `EnabledRulesJudged` are the liveness
properties; the second has the premise that no enabled rule is malformed or
names a missing group, since one such rule ends `cluster()` before the rules
after it are judged, pass after pass.

**Bounds.** A consumer and a server rule with quotas 1 and 2, edited from one to
the other, and every failure; for refinement and liveness two unlimited rules of
one list, one of them always malformed. Two are enough: the properties relate at most two rows,
since rules meet only in the job's list and Quartz's queue. `TimesBound` stops an unlimited rule at a count of 1: the code
does the same at every later one, and counts of 2 occur under the quota 2. `QueueBound` 1 is enough for the queue to
be occupied when the next notice comes. Ids are finite because `AUTO_INCREMENT`
never uses one twice.

**Fairness.** Weak fairness of `JobStep`: the scheduler thread takes its next
step (the cron trigger comes again, a loop over a finite list goes on). Weak
fairness of each `Deliver`: Quartz starts a due job. None of handlers, failures
or crashes.

### 2.2 Truncating a topic: `TopicClean`

**State.** `begin` and `end` are the offsets of the partitions in Kafka, `config`
the two keys of the topic's node in ZooKeeper that truncation is about, `row` the
`truncate` row. A writer (the job, or a web thread of the topic page) has a list
of `changes` to make, and for the first of them a `stage` and the `copy` of the
configuration it read; `requests` are `alterConfigs` on their way.

**Actions.** `CleanTopicData` (the request); `ListTopics`, `EndOffsets`,
`BeginningOffsets`, `NextTopic` (`topicCleanTask`, with the two reads of
`getKafkaRealLogSize` apart); `DescribeTopicConfig`, `AlterConfigs`,
`AlterReturns`, `AlterTimesOut` (`addTopicConfig`, `deleteTopicConfig`: the
whole configuration is read, changed and sent; only an added key waits for the
answer); `ApplyConfigs` and `RejectConfigs` (the brokers, in any order); `Produce`
and `Expire` (producers and retention).

**What is checked.** `TruncatedMeansGone`: when the row becomes 1 the records
there were at the request are gone, although end offsets and begin offsets are
read at two moments, provided no record was written and expired between the
two; without that exception (`MarkedMeansGone`) it is violated (finding 3). `BothKeysSet`: the second of the two changes, built on a
fresh read, keeps the first. `TruncationEnds`: the row of a request becomes 1 in the end. A request
repeated while the job is at the topic only writes the 0 that is there, and the mark of that
pass covers it, though records written between the two requests may be left: `TruncatedMeansGone`
speaks of those there were at the request the job read (`taken`).
`RetentionRestored` is violated (finding 2).

**Bounds.** Two partitions, since what is compared are sums over partitions; a record
in each, before or after the request; one trouble (a change from the page, a
timeout, a refusal or a failed measurement). More records repeat what one does:
the job only distinguishes a positive size from others.

**Fairness.** Weak fairness of the job's and the page's steps (threads go on), of
applying some request (brokers answer) and of `Expire` for each partition
(retention is enforced where it stays short; it is disabled when the keys are
gone, so nothing is assumed of topics that are not being truncated).

### 2.3 Client pools: `ClientPool`

**State.** For each pool its `count` (`createCount` of commons-pool2) and `idle`
clients; for each thread the stack `frames` of calls of `doExecute` it is in,
each with its client or `Null`, and what it is doing (`at`, `want`). `up` says
whether servers accept connections.

**Actions.** `Call`; `BorrowIdle`, `BorrowNew`, `BorrowRefused` (`borrowObject`
with `blockWhenExhausted` false); `Create`, `CreateFails` (the factories);
`Throw`, `Release` (the `finally` of `doExecute`); `Outage`. commons-pool2 is
not under `src/`: it is modelled from its configuration and what the templates
rely on, in the version the build names.

**What is checked.** `Exclusive` (a client is in one place), `SlotsAccounted` (no
call loses a slot, however it ends, where the factory throws), and `OperationEnds`: nested
borrowing from the same exhausted pool does not block, because the inner call
goes on with null, throws, and the outer call's `finally` gives its client back.
With pools that block, the mutant, two threads that hold a ZooKeeper client each
and want another wait for ever. A quiet factory, that of JMX connectors, answers a
failed connection with null, which the pool has counted and nobody returns: the
model has this too, and `SlotsAccounted` leaves such pools out. That no pool
exceeds its size (`WithinTotal`) is only proved.

**Bounds.** Two threads, a pool whose callbacks nest in itself and a pool whose
factory is quiet, pools smaller than the threads need, depth two: exhaustion,
nesting and failing all happen at once.

**Fairness.** Weak fairness of a thread that is in template or pool code
(connecting times out). Strong fairness of `Release` at each depth: a callback
runs over finite lists of topics or partitions, so it cannot start inner calls
for ever without ending.

### 2.4 Sampling: `LagSampling`, `LagAlarm`

**State.** `logEnd` and `committed` are Kafka's; `pc`, `walked`, `sampled` and the
local variables of the loop body are the scheduler thread's; `buffer` is the list of rows
not inserted yet; `rows` are the tables `ke_consumer_bscreen` and `ke_logsize`.

**Actions.** Both sampling loops, consumers and producers, with the requests for
offsets and log sizes apart; `Append` with the differences to the newest stored
row; the three inserts (full list, end of the pass, and their failures, where the
database may have carried the insert out); `Abort` for the exceptions nothing
catches and for a crash; `CleanRows` of `KafkaRecordCleanJob`; `Midnight`, and
in Kafka producing, consuming, resetting offsets and recreating topics. `LagAlarm` adds the
judgement of a consumer rule by the newest row of the day.

**What is checked.** `LagBracketed`: the two totals of a sample belong together
because offsets are requested first (`Order`), so the lag is not negative
(`LagNotNegative`), and because one total leaves no part of the other out, so the lag lies
between what it can have been at least and at most. The bracket alone holds in either
order; the sign is what the order is for. `DifferencesChain`:
the differences of a row are what it adds to the newest row before it, through
failed inserts, lost passes and deleted rows. `StoredTwiceOnlyInDoubt`: the
tables have no keys, so a retried batch may be stored twice, but only
after an insert whose answer was lost. `PassStoresAll`: a failed batch goes with
the next. `CancelMeansCaughtUp` is violated (finding 4).

**Bounds.** One group and two topics, so that a list of more than one row is
full before the pass ends; two passes, for a row and its predecessor; two days, and a
retention of one.

**Fairness.** `LagAlarm` assumes that the scheduler thread goes on and judges every
rule; the violated property is a safety property and needs neither.

### 2.5 Broker balance: `BrokerBalance`

**State.** The topic's assignment, the leaders the partitions' states name, the
brokers alive; of the job the `figure` it is at, the partitions `unread`, what it
has read (`reading`, `metas`), the `value` to be stored; the `rows` of
`ke_topic_rank`.

**Actions.** For each figure the job lists the topics (`TopicList`), reads the topic
(`TopicMetadata`), then for each partition its state and its replicas
(`ReadLeader`, `ReadReplicas`), computes the percentage (`Compute`, where the
spread asks for the brokers) and replaces the row (`WriteTopicRank`). What a
figure's method catches leaves 0 to be stored (`RequestFails`, and `ReadLeader`
where the state is not written yet); a failing list ends the job; a failing insert
loses the figure. The cluster adds partitions, reassigns, elects, deletes the
topic; brokers stop and start.

**What is checked.** `FiguresExact` compares what the walk and the roundings yield
with a definition in other terms: the percentage as an inequality, "more than its
share" as *one less would still be an even share*, the sum of loads taken over brokers
instead of partitions. `FiguresConverge`: rows of torn walks and caught exceptions do not stay.

A spread of more than 100 % is possible and no error here: brokers that are down
still count as used, and not as brokers. `FiguresExact` says nothing of the
leader skew of topics that have partitions without a leader, which the code
counts for a broker `-1`.

**Bounds.** Three partitions on one or two of three brokers: with two partitions
no placement is skewed; with three, loads of 3 and 1 and of 3 and 3 occur, the
sums do not divide evenly, and a broker is left that hosts nothing. One change
and one failure, at any step: what a walk reads is torn by one change already, and
`FiguresConverge` is about the time after the last.

**Fairness.** Weak fairness of `JobStep`, the scheduler thread.

### 2.6 Trend pages and their date picker: `TrendPages`, `RangeChooser`, `DateRangePicker`

**State.** `TrendPages` is one page, whichever: its boxes (`ticked`), the select
box of topics (`option`, `selected`), the requests in flight with what they ask for,
and for each chart the answer it was last drawn from. What it needs of the picker is
in `RangeChooser`: the pair of days it holds, the page's caption, and the days the
page asks for, which its apply handler reads off the caption. `DateRangePicker` is
the widget (`daterangepicker.js`) with the options the pages give it, as one record, and its
methods as operators from record to record, so that `show`, `hide`, `clickApply`,
`updateView` and the others are chained as the code chains them.

**Actions.** `TrendPages`: every change of days, modules and topics, each timer
(`Poll`), an answer or its loss for any request in flight, a newer figure on the server
(`Update`: a pass of the sampling jobs). `DateRangePicker`: toggling, pressing
outside, cancel and apply, the predefined ranges, clicks and hovers on days, leafing,
and typing into the two fields with each way of leaving them.

**What is checked.** `ChartsConverge`: once the user leaves the page alone, what
is polled and visible comes to show what is chosen and stays so, whatever
answers came late, crossed or got lost before. `RangeWhole`, `CalendarsWhole` (the six
weeks drawn hold their month, February and month ends included), and
`ImplementsChooser`: the widget with the page's callback and apply handler is
a `RangeChooser`, so that what the trend pages rely on is what the picker does.

**Bounds.** Two pairs of days, two modules, two topics with one position in the
list of results (so that two topics share an id), two requests in flight and one update: two
requests are enough to cross, one update to tell a stale answer. The picker's user works with the last
day of August and the first of September 2019, so that ranges within a month, over its
end, and backwards occur.

**Fairness.** Each timer goes on for ever (`setInterval`), also between other
events: strong fairness of `Poll`, which is disabled while the bound of
requests in flight is reached. The oldest request does not stay in flight for ever: it is
answered or fails (weak fairness of `OldestLeaves`). A request that is made again and
again is answered again and again (strong fairness of its `Arrive`); of a request made
once nothing is assumed, and `Current` leaves its charts out.

### 2.7 Tree diagrams: `TreeLayout`, `TreeDiagram`

`TreeLayout` is d3's tree layout (Buchheim's algorithm) with the record `_tree` of
every node: first walk, apportioning along the contours by threads and ancestors, shifts,
second walk. `LaidOut` compares its result with what a layout promises: nodes of a
depth in their order and at least a separation apart, parents over the middle
of their children. It is in whole multiples of a unit; a division that does not come out even
would stop TLC.

`TreeDiagram` is what the two pages build on it: `ClickNode` folds or unfolds,
lays out, joins nodes to elements by key and starts transitions; `Frame` is one pass over
the queue of timers, in which transitions begin, tick and end, with the locks by which a
newer transition takes an element from an older one. `slow` says whether a frame comes so late that a
transition ends in it. `DiagramWhole` is the property; its comment says where
the code falls short of it.

**Bounds.** All trees of one to six nodes on three levels, the depth of what the server
answers, and three wide ones (`WideTrees`), in which branches that are not neighbours would
meet: across one that ends early, across two, and across one with another to the left of both.
Only there is a contour followed further than a subtree and its neighbour go, along a thread
set before. Clicks between two rests: 4 for two nodes, 2 for three, 1 above. Apportioning with threads needs
two subtrees of different depth, overlapping transitions of one element need two clicks, removal against
return three.

### 2.8 Tables, boxes, dialogs, forms and alarm groups

* `PageAnswers`: where pages show an answer to a choice. Tables with `bServerSide`
  drop the answers to all but the newest request, tables that are made anew
  leave old answers to elements that are gone, dialogs draw all. `AnswersFollow`.
* `RowBoxes`: the roles of a user, the resources of a role, the switches of
  alarm rules. A click is a request; the server acts on requests in any order, and a
  switch is read and written in two statements (`ReadSwitch`). `BoxesStored`.
* `RowForms`: the dialogs that edit a row. Some set the hidden id on the click,
  some with the answer; `saved` records whose values went under whose id. `EditsKeepRows`.
* `RowLinks`: dialogs with a link that acts, made from a variable that several
  dialogs share and from text that stays when a dialog is dismissed. `LinkNamesOpenRow`.
* `PickForms`: the select boxes (select2 is external: it keeps the first option of
  a number), hidden inputs, and the checks before submitting. `FormAsShown`.
* `AlarmGroups`: the handlers that count or read a group and then insert, any
  number at once. `created` keeps what users were told; `CreatedMeansStored`: of two adds that
  both found the name free, the one that was answered with success is the one stored.

The exemptions in these properties (`crossed`, `missed`, `muddled`, `hasty`, `reused`) are
history variables for what the code does not guard against: answers that overtake each other
where requests are not numbered, requests lost without an error handler, two requests for one
switch, a form submitted before its values came. What the properties say is
that nothing else breaks the agreement. Each is listed at its hazard.

**Bounds.** Two rows (one open before, one now), two pages of a table and two search terms, one box and two
requests at a time, three openings of a dialog, two texts where it matters which is picked, two groups and two
addresses for three requests.

### 2.9 The query page and its editor

* `QueryResults`: queries sent, answered in any order, and the two tables
  that are made with "retrieve". `LogAndMessagesAgree`.
* `SqlCompletion`: `show-hint.js` and `sql-hint.js`, with the list that is kept for a frame
  after a key. `CompletedWhole`.
* `LineTree`: CodeMirror's B-tree of lines: inserting and removing runs of lines, cutting leaves,
  spilling and collapsing branches, and the searches by number and by height. `TreeHoldsLines`.
* `EditHistory`: changes, their joining into events, selections between them, undo, redo, the
  depth, generations. `HistoryFaithful` undoes the whole stack
  and compares with the texts there were.
* `ViewMap`: the views of the lines near the window, patched for each change by line
  number, the view built on the side, and the pass that brings the elements up to
  date. `DisplayFollows`.
* `HighlightWorker`: the states kept of lines, the frontier and the timer's work, with the
  SQL mode's strings and comments. `ColoursSettle` compares with colouring from the top.
* `TextareaInput`: typing, composing, pasting, cutting, selecting and the context menu, all by way
  of a hidden text area and two kinds of timers. `TypedOnce`.

**Bounds.** The constants of the code are large and their values arbitrary, so they are
parameters with small values: a slice of 2 lines for 25, a spill of 1 for 5, six lines (a
tree of three levels); an undo depth of 2 for 200 with two changes besides the first text, so that events are
dropped, and texts of up to two characters, a letter or a line end, so that texts of one length
differ (`MaxChanges` bounds the numbers of the texts, which start at 1); a window of 1, margin 1, slack 2 for 10 and 20, line numbers that get another digit at 4 for
10, four lines; a state kept every 2 lines for 5, two lines searched for 100, one line ahead
for 500, three lines of which one may open a comment and one end it; two characters in the area; a line of three letters and three keywords of which one begins like the others. In
every case the limits are smaller than the document, so each branch at a limit is taken.

### 2.10 The browser as a whole: `Console`

The pages are loaded independently of each other, and the components of one page share
nothing that another of them writes, or are modelled with what the others do to
them (the editor's document, for one, is reduced in each module to what that module
derives from it, with any change as an input). So `Console` has the state of
all fifteen and a variable `live` for the component the user is at; the others rest.
Interleaving them would add states and no behaviours of any one of them. One run
checks them all. No fairness is assumed: all its properties are safety properties or step-wise.

## 3. Findings

1. **A cancel notice can be lost for good** (`alarm_cancel`). `KafkaAlertJob` stores
   `is_normal='Y'` and then announces it through a group that may have been
   deleted; the exception ends the loop and no later pass announces it.
2. **A truncated topic can keep a retention of one second** (`truncate_restore`). The two
   deletions are not awaited, and the second carries the first's key back.
3. **A topic that holds records can be marked truncated** (`truncate_masked`). The sums
   of end and begin offsets are read one after the other; a record written to one
   partition and expired in between cancels a record another partition holds.
4. **At midnight consumer alarms are cancelled** (`lag_midnight`). The newest lag of
   *today* is looked for, and none reads as 0.

Seen while modelling, without a run of their own. They are in the models as the code
has them, and the properties named exempt them, or they lie outside:

* a failed JMX connection costs its pool a slot for good
  (`support/factory/PooledJMXConnectorFactory.java:53`; `SlotsAccounted` speaks of
  the other pools);
* the topic page chooses the button of the leader skew by the skew
  (`controller/TopicController.java:353`, `:355`);
* a partition without a committed offset counts as -1 in the sum of offsets
  (`job/KafkaTopicMetricsJob.java:98`), one without a leader as a broker -1
  (`service/impl/BrokerServiceImpl.java:627`);
* the topic branch of the alarm form is overwritten, so that every topic rule is malformed
  (`controller/AlarmController.java:372`);
* "Modify alarm config." (`controller/AlarmController.java:763`) modifies nothing: the
  statement `insertOrUpdateAlarmConfig` (`dao/AlertDao.xml:48`) is a plain insert, which meets the key
  of the row it should update; and it brings back a group deleted since the handler read it.
  `InsertGroup` does as the code does; `CreatedMeansStored` holds either way and does not speak
  of edits;
* a user's roles are never ticked when the dialog opens (`system/user.js:107`; `BoxesStored`);
* the messages of a second query are not shown (`topic/msg.js:35`; `LogAndMessagesAgree`);
* an emptied topic box leaves the topic before in its hidden input
  (`alarm/add.js:94`; `FormAsShown`);
* a click in a completion list that is about to be brought up to date completes another word
  (`show-hint.js:324`; `CompletedWhole`);
* a line the background worker passed out of sight keeps stale colours (`codemirror.js:2465`;
  `ColoursSettle`); four ways to lose or misplace a typed key (`codemirror.js:1137`, `:1446`,
  `:1536`, `:4276`; `TypedOnce`); Ctrl-U works in the read-only log (`codemirror.js:4437`).

## 4. What is proved

The theorems hold for all values of the constants that satisfy the modules' named
assumptions (`ConstantsAssumption`, `TopicAssumption`, `PoolAssumption`,
`SamplingAssumption`, `BalanceAssumption`, `PickerAssumption`, `AnswersAssumption`,
`BoxesAssumption`, `FormsAssumption`, `LinksAssumption`, `QueriesAssumption`,
`GroupsAssumption`, `CompletionAssumption`, `HighlightAssumption`, `FieldAssumption`, `ViewAssumption`), which TLC
evaluates in the runs. The failures the runs admit are in the proofs as well. The assumptions say what the
code makes so: a cluster has finitely many brokers and a topic finitely many partitions,
numbered, each with a replica (`BalanceAssumption`); a keyword is a word without a blank and
there is one (`CompletionAssumption`, the words of `text/x-mariadb`); a line is a sequence
of characters, and at least as many lines are searched for a kept state as lie between two
of them (`HighlightAssumption`, 100 and 5 in `codemirror.js`); the window holds a line at least
(`ViewAssumption`); a key that is typed is neither
a line end, which a bound key puts in, nor the character without width the menu is shown
with (`FieldAssumption`).

**`FoldLemmas`.** The library's induction theorems are about operators, which the provers
cannot instantiate, so induction is over sets: the data that have a property are a set,
and `SubsetInduction` (from the library's `WFMin` on the subsets of a finite set) and
`CountInduction` show that it holds all. A fold of the community modules is a recursive
function, of which nothing can be said before it is known that one exists: `WalkExists` does
this for sums and `SequenceWalk` for sequences, and `WalkUnique` and `SameWalk` that there is
one only. On them rest what is needed of sums (`SumStep`, `SumMonotone`, `SumAdd`,
`SumIndicator`, and `DoubleCounting`: pairs counted by rows and by columns) and of folds
over sequences: `WalkStages` gives the values along the way, one per place, so that a
proof about a loop of the code goes on from one line to the next. The last section says which
elements a part of a sequence has and which two sequences one after the other (`PartIs`,
`HeadIs`, `BothIs`).

**`AlarmCenterProofs`.** `TypeCorrect` first. The other invariants are not
inductive one by one: that a status update keeps `QuotaRespected` depends on the copy
being fresh, and that it stays fresh on the job holding at most one copy of
a row. `IInv` joins the five properties with `Bookkeeping`, which states this:
copies are of distinct rows and of rows that exist or existed, quotas in
unjudged copies were granted, a counted alarm awaits its notice. One lemma per action that
disturbs it (`AlarmCreateFormIInv`, `ModifyInfoIInv`, `RaiseAlarmIInv`, ...),
and `Shrinks` for all those that only take copies away. From `IInv`:
`StatusStaysConsistent`, `SnapshotsStayFresh`, `QuotasAreRespected`,
`NoticesStayWithinTimes`, `NoticesAgree`, the action property
`JobNeverUndoesEdits`, and `AlarmCenterImplementsEpisodes`: initial states map to
initial states, and each action to `Create`, `Grant`, `Raise`, `Clear`, `Drop` or a
stutter.

**`ClientPoolProofs`.** `SlotsAccounted` speaks of pools whose factory throws, `WithinTotal`
of all. `Counted` strengthens both: for every pool the clients in use are at
most `count`, which is at most `MaxTotal`, with equality where the factory is not quiet. With
`TypeOK` and `Exclusive` (pushing and popping a frame changes the set of held
clients by one: `HeldPush`, `HeldPop`) it is inductive. Results: `TypeCorrect`,
`ExclusiveUse`, `NoSlotLost`, `PoolsBounded`.

**`LagSamplingProofs`.** Two invariants. `Together` (a group is never ahead
of its topic; what the loop has read lies between the values at the loop's start and
now) gives `LagsAreNotNegative` and `LagsAreBracketed`. `Stored` (rows are dated
in the order of their passes, the rows of a list are those of the series sampled,
every row, stored or listed, chains to the newest earlier one) gives `RowsChain`, `NoDuplicates` and
`PassesStoreAll`. The step that needs care is cleaning: it deletes by day, later
passes have later days, so what it leaves of a series is its newest end and the newest
predecessor of a row survives whenever any predecessor does.

**`TopicCleanProofs`.** `BothKeysSet` speaks of the end of a pass; the
invariant follows the job through it. As long as there was no trouble, `Undisturbed`
says that the page writes nothing and that while the job measures no request of the pass
before is on its way; and while the job adds its keys, `Adding` relates the changes left,
the stage, the copy and the configuration: a request on its way is the job's, once it is
applied the configuration is the one it carried, and after the first change the first key
is there. This needs that adding
is awaited; it fails for the deletions, which is finding 2. Result: `BothKeysStaySet`.

What the job measures has an invariant of its own, `LogInv`. Offsets only grow and no begin
passes its end (`LogTyped`). The job compares two sums read one after the other, and
`Measured` says what they are worth: unless a begin has passed the end read
before, equal sums are sums of equal offsets, partition by partition (`NothingLeft`, by
`SumMonotone`). So nothing is left of what was there when the truncation was asked
for. Results: `TypesHold` and the action property `TruncatedMeansItIsGone`.

**`BrokerBalanceProofs`.** `FiguresExact` speaks of rows that are written; the
invariant follows the walk to them. `Walked`: as long as the cluster stood still every
partition of the topic is still to be read, is being read or has been read, and what was read
is what there is. `Placed`: what is kept belongs to the place in the method. And the value
that waits to be written is the figure. The figure itself is arithmetic, once per method: the loads counted
by partition add up to the loads counted by broker (`DoubleCounting`), the percentage is the
whole number below the share (`PercentIs`), and more than the ceiling of the even share is *one
less is still no less than the share* (`CeilIs`). Results: `TypesHold`, `FiguresAreExact`.

**`PagesProofs`.** Small modules of the browser, an invariant each; two larger ones after them.

* `CreatedIsStored`: with the types (`GroupsTyped`) and because no address is the mark of an absent
  group (`GroupsAssumption`), an insert that succeeds finds no address promised: promises are of
  stored groups only.
* `LogAndMessagesDoAgree`: `QueriesOrdered`, what is running or succeeded was sent, a success in
  the log is among the successes, and so are the messages once there is one.
* `LinksNameOpenRows`: `LinksReady`, on the pages with topics the variable is the row of
  the open dialog, and a dialog whose text cannot be typed into holds none.
* `EditsDoKeepRows`: `FormsFollow`, the hidden id is that of the row opened last, or of the values
  shown; and the newest dialog's answer is the newest there is, unless it is still out, got
  lost or was overtaken.
* `AnswersDoFollow`: `AnswersReady`, the request that is current is for what the user wants, and it is on its
  way or its answer is drawn; and `OwnFollows` for tables made anew.
* `BoxesAreStored`: `BoxesPending`, a box that differs from what is stored has exactly one
  request on its way that will make up for it; and `FillsClean`, an answer that fills the
  boxes was not overtaken by one of them.
* `FormsAreAsShown`: `PicksInv` is `FormAsShown` part by part, with what the parts need of
  the state (`PicksReady`: the topics on offer are those of the consumer group that is
  sent). The case to look at is `Submits`, where the checks of the form decide what is
  stored.

The picker is larger. `Sound` joins the type, that a range is in
order (`Ordered`), that the two calendars are neighbours (`Linked`) and that the range to
fall back to is whole and in order while the picker shows (`Remembers`). Lemmas per method, since handlers are chains of methods. Results:
`PickerTypeHolds`, `RangeWholeHolds`, `CalendarsWholeHold` (with
`GridsAreWhole`, the arithmetic of a month's grid, for months of 28 to 31 days), and
`PickerImplementsChooser`.

The text area the editor is typed in is the largest. `TypedAlwaysOnce` says that what is typed is
in the document once; the code reads it off an area that also holds what was there before:
what was typed of late, a selection or a line to be copied, the character a menu is shown with.
`FieldInv` accounts for the area. As long as nothing went astray, what it holds is one of five
shapes (`AreaKnown`: `WithSelection`, `AsSeen`, `MenuOpen`, `LineCopied`, `PastedOver`), and in
each of them what is entered next takes the place of what is selected, and nothing else
(`EnteredPuts`). That rests on what `poll` puts in for an area that was added to (`PollPuts`,
`NewIn`) and on the longest common part of two texts (`CommonIs`). A composition is typed
one character at a time and puts in the whole each time (`ComposeKeeps`, `PutSame`). Per
action a lemma says which shape it leads to (`PressKeyKeeps`, `PasteKeeps`, `RehideKeeps`,
`DetectKeeps`, ...). What the property excepts, `astray`, the model sets in three places, where
the code misreads the area; the proof shows that these are all.

**`EditorProofs`.** Three components.

* `CompletionIsWhole`: `CompletionInv` says of a list that is open that it is the one
  for the text and the cursor (`OpenFits`), of any list that its words are no shorter than
  what they are to replace (`ListFits`), and of the completion that it began in the word the
  cursor is in (`StartNear`). That
  a picked word stands whole left of the cursor afterwards (`PickStep`) rests on what
  splicing a word keeps (`PutIn`) and on a word having one start only (`WordStartIs`);
  `WordKept` carries it through the keys that follow.
* `ColoursDoSettle`: `ColoursSettle` compares with colouring from the top; `Rights` are the
  states that gives, one per line, and `RightStages` gets each from the one before it.
  `HInv` is `ColoursSettle` and what makes it inductive: below the frontier every
  line whose number `Every` divides keeps a state. So a search that begins no further than the
  frontier finds one within `Lookback` lines or begins at the top, and what it begins with is
  right (`StartRight`); this is where `Lookback >= Every` is needed. With it, getting a state
  (`BeforeIs`), colouring a line (`ColouredIs`), drawing (`RedrawnIs`) and the
  timer's pass (`RecolouredIs`) keep the invariant; but for colouring one line, each is a
  loop over lines. A change lowers the frontier to its line, from which on nothing is claimed, and
  the right states before it are what they were (`GoodStays`). The timer is set wherever
  a view reaches past the frontier: each handler sets it by the frontier before or after
  drawing, and drawing only raises it (`Goes`).
* `DisplayDoesFollow`: `ScreenInv` says that the screen is sound at all times (`SoundScreen`: the types,
  as many views as lines they stand for, the view on the side right, and the elements in the
  order of the views while `rendered` says so); that the views are in place (`Placed`: those of lines there
  are, each with an element that is right or noted to be wrong) but after the document was filled
  anew with views left past its end, until the display is brought up to date; and that all is drawn right
  (`AsDrawn`) unless an update is due. A change cuts views out, puts new ones in and moves the
  rest (`RegChangeFits`): a run of views that fit is made of runs that do (`AboveFits`, `BelowFits`,
  `BothFit`), and those beyond the change fit at their new lines, because the numbers are noted to be
  wrong from the change on (`UpdatedShows`). `FilledSound` is the document filled anew, `RemadeIs` the
  measuring of a line, `AdjustedIs` the scrolling of the views and `PatchedIs` the pass over the elements.
  That this pass may be left out, as `updateDisplayIfNeeded` does when nothing seems to have
  changed, is `SettledDrawn`: as many elements as views, in order, no mark and no number noted.

These theorems are about each component's own specification (`BoxesSpec`,
`FormsSpec`, ...), while the run checks them as part of `ConsoleSpec`, whose
steps are steps of one component that leave the variables of the others
alone. `Console` itself reaches recursive operators, which keeps it from the prover.

**Only model-checked.** The liveness properties (`PassEnds`,
`EnabledRulesJudged`, `TruncationEnds`, `OperationEnds`, `FiguresConverge`,
`ChartsConverge`), as the prover has no fairness or ENABLED. `LaidOut`, `DiagramWhole`,
`TreeHoldsLines` and `HistoryFaithful`: the algorithms recur over trees and stacks, with RECURSIVE
operators, which take the prover its arithmetic. All findings, which are behaviours TLC prints.

## 5. What is not modelled, and why

* Clusters that keep offsets in ZooKeeper: the models take
  `offsetStorage = kafka`. The other branch reads one total instead of two; a
  topic of such a cluster is never seen empty, and so never marked truncated.
* A pooled connection that breaks while idle: whether a stale connector recovers
  is decided inside the client libraries.
* What `KafkaMetricsJob` and the size and producer figures of `TopicRankJob` compute:
  straight-line collection into rows nothing acts on. That figures get newer is
  `Update` in `TrendPages`.
* The server side of creating and deleting users, roles, resources and topics, and of adding
  partitions: single statements or single requests to Kafka. Their pages are
  in `RowBoxes`, `RowForms`, `RowLinks` and `PickForms`.
* Read-only services, the ZooKeeper console, ad-hoc SQL on the server, Spring
  Security's configuration, utilities, schema set-up: no state shared between threads
  beyond what the tables above hold, or text processing.
* In the browser: libraries no page calls (`magicsuggest`, `tokenfield`), d3 beyond its tree layout,
  selections and transitions, and scripts without state (`liquidFillGauge.js`, `index.js`,
  `navbar.js`, `signin.js`, `zkcli.js`, `brokers.js`). In CodeMirror: several selections,
  marked and collapsed text, bidirectional text, drag and drop, the contenteditable
  input, indentation, very long lines, measuring of characters; the pages never get there, or nothing
  is remembered from it. In the date picker: times, limits, single
  dates, week numbers and drop-downs, options no page sets. DataTables, select2, jQuery and the
  chart library are external.

## 6. Plan

Done: the alarm centre (rules, job, queue) with its abstract specification; truncation; pools;
sampling and the alarms on top of it; broker balance; the trend pages on the
abstract picker, and the picker that implements it; tree diagrams; tables, dialogs, boxes,
forms; alarm groups; the query page and its editor; theorems for all
safety properties of modules without RECURSIVE operators.

Left, in this order:

1. Adding partitions (the count read and raised without awaiting) as an extension of
   `TopicClean`, once its configuration is no longer the only thing two writers share.
2. Paging of topics, partitions and offsets on the server, and the aggregation of broker
   metrics, as operators checked against reference definitions over bounded inputs.
3. Proofs: undo and redo (`EditHistory`) have one RECURSIVE operator, which cuts a stack to
   its depth; as a fold it would let `HistoryFaithful` be proved on `FoldLemmas`.
