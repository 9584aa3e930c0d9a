---------------------------- MODULE AlarmCenter ----------------------------
(***************************************************************************)
(* The alarm centre: the rule tables ke_alarm_consumer and                 *)
(* ke_alarm_clusters, the alarm groups of ke_alarm_config, the handlers of *)
(* AlarmController that edit them, the scheduled KafkaAlertJob that walks  *)
(* over a snapshot of the enabled rules, and the in-memory Quartz queue    *)
(* its notices wait in.  Handlers run on web threads, the job on the one   *)
(* Spring scheduler thread, deliveries on Quartz threads; they share only  *)
(* the tables and the queue.                                               *)
(***************************************************************************)
EXTENDS Integers, FiniteSets

CONSTANTS
  Rules,       \* ids of rule rows (AUTO_INCREMENT: an id is never used twice)
  Kind,        \* Kind[r]: the table, and the type column, of rule r
  Groups,      \* alarm_group names
  Quotas,      \* values of alarm_max_times, NoLimit among them
  NoRow,       \* no row has this id
  NoTask,      \* the job is not looking at a rule
  Faults,      \* failures admitted: "crash", "database", "quartz"
  TimesBound,  \* bound: an unlimited rule is not seen over at this count
  QueueBound   \* bound: notices waiting in the queue

Kinds == {"Consumer", "Topic", "Producer", "Server"}
Statuses == {"PROBLEM", "NORMAL"}
NoLimit == -1

Row == [quota: Quotas, group: Groups, watch: {"parsable", "malformed"},
        enable: {"Y", "N"}, times: Nat, normal: {"Y", "N"}]
Task == [id: Rules, row: Row]

ASSUME ConstantsAssumption ==
  /\ Kind \in [Rules -> Kinds]
  /\ Quotas \subseteq Int
  /\ NoRow \notin Row /\ NoTask \notin Task
  /\ TimesBound \in Nat /\ QueueBound \in Nat \ {0}
  /\ Faults \subseteq {"crash", "database", "quartz"}

VARIABLES
  rule,      \* rule[r]: the row with id r in either table, or NoRow
  dropped,   \* ids of the deleted rows
  configs,   \* groups that have a row in ke_alarm_config
  phase,     \* what the job is doing: "idle", "consumer" or "cluster"
  pending,   \* the rest of the list the job iterates over
  task,      \* the element it is at, or NoTask
  found,     \* alarmConfig # null for that element
  notice,    \* the notice to send for it, or "none"
  queue,     \* notices <<r, s>> waiting in Quartz
  \* History, never read by an action's guard:
  granted,   \* granted[r]: quotas that row r has had
  raised     \* raised[r]: PROBLEM notices queued since row r was last normal

tables  == <<rule, dropped, granted>>
jobVars == <<phase, pending, task, found, notice>>
vars == <<tables, configs, jobVars, queue, raised>>

rows == {r \in Rules : rule[r] # NoRow}

Fresh(q, g, w) ==
  [quota |-> q, group |-> g, watch |-> w, enable |-> "Y", times |-> 0, normal |-> "Y"]

\* insertAlarmConsumer leaves `group` unquoted and both databases reject it, so
\* the consumer rules are those the table holds when the application starts.
Init ==
  /\ \E q \in Quotas, g \in Groups :
       /\ rule = [r \in Rules |-> IF Kind[r] = "Consumer"
                                 THEN Fresh(q, g, "parsable") ELSE NoRow]
       /\ granted = [r \in Rules |-> IF Kind[r] = "Consumer" THEN {q} ELSE {}]
  /\ dropped = {}
  /\ configs \in SUBSET Groups
  /\ phase = "idle" /\ pending = {} /\ task = NoTask
  /\ found = FALSE /\ notice = "none"
  /\ queue = {}
  /\ raised = [r \in Rules |-> 0]

-----------------------------------------------------------------------------
(* Administrators: handlers of AlarmController, one transaction each.       *)

\* The form's Topic branch is overwritten by its else branch, so a Topic rule
\* is stored with the empty server text; the others store what was typed.
AlarmCreateForm(r, q, g, w) ==
  /\ r \notin rows \cup dropped
  /\ Kind[r] # "Consumer"
  /\ Kind[r] = "Topic" => w = "malformed"
  /\ rule' = [rule EXCEPT ![r] = Fresh(q, g, w)]
  /\ granted' = [granted EXCEPT ![r] = {q}]
  /\ UNCHANGED <<dropped, configs, jobVars, queue, raised>>

\* Mutant: an edit stores a whole new row.
ModifyInfoRearming(r, q, g, w) ==
  /\ r \in rows
  /\ Kind[r] = "Consumer" => w = "parsable"
  /\ rule' = [rule EXCEPT ![r] = Fresh(q, g, w)]
  /\ granted' = [granted EXCEPT ![r] = @ \cup {q}]
  /\ UNCHANGED <<dropped, configs, jobVars, queue, raised>>

ModifyInfo(r, q, g, w) ==
  /\ r \in rows
  /\ Kind[r] = "Consumer" => w = "parsable"
  /\ rule' = [rule EXCEPT ![r].quota = q, ![r].group = g, ![r].watch = w]
  /\ granted' = [granted EXCEPT ![r] = @ \cup {q}]
  /\ UNCHANGED <<dropped, configs, jobVars, queue, raised>>

\* Mutant: switching also resets the status.
SwitchByIdResetting(r, e) ==
  /\ r \in rows
  /\ rule' = [rule EXCEPT ![r].enable = e, ![r].times = 0, ![r].normal = "Y"]
  /\ UNCHANGED <<dropped, granted, configs, jobVars, queue, raised>>

\* Read, flip and write is_enable are three calls: the value written is the
\* opposite of one that may be stale, so it may be either.
SwitchById(r, e) ==
  /\ r \in rows
  /\ rule' = [rule EXCEPT ![r].enable = e]
  /\ UNCHANGED <<dropped, granted, configs, jobVars, queue, raised>>

DeleteRule(r) ==
  /\ r \in rows
  /\ rule' = [rule EXCEPT ![r] = NoRow]
  /\ dropped' = dropped \cup {r}
  /\ granted' = [granted EXCEPT ![r] = {}]
  /\ raised' = [raised EXCEPT ![r] = 0]
  /\ UNCHANGED <<configs, jobVars, queue>>

AddConfig(g) ==
  /\ g \notin configs
  /\ configs' = configs \cup {g}
  /\ UNCHANGED <<tables, jobVars, queue, raised>>

\* Nothing checks whether a rule still names the group.
DeleteConfig(g) ==
  /\ g \in configs
  /\ configs' = configs \ {g}
  /\ UNCHANGED <<tables, jobVars, queue, raised>>

AdminStep ==
  \/ \E r \in Rules :
       \/ DeleteRule(r)
       \/ \E e \in {"Y", "N"} : SwitchById(r, e)
       \/ \E q \in Quotas, g \in Groups, w \in {"parsable", "malformed"} :
            AlarmCreateForm(r, q, g, w) \/ ModifyInfo(r, q, g, w)
  \/ \E g \in Groups : AddConfig(g) \/ DeleteConfig(g)

-----------------------------------------------------------------------------
(* The job.                                                                 *)

\* The rows a task query returns: a copy of the enabled ones.
AllTasks(kinds) ==
  {[id |-> r, row |-> rule[r]] :
     r \in {s \in rows : Kind[s] \in kinds /\ rule[s].enable = "Y"}}

NextTask == task' = NoTask /\ found' = FALSE /\ notice' = "none"

\* An exception leaves the loop: the catch of consumer() is around the loop,
\* cluster() has none and execute() ends.  The rest of the list is skipped.
Abandon == NextTask /\ pending' = {}

Execute ==
  /\ phase = "idle"
  /\ phase' = "consumer"
  /\ pending' = AllTasks({"Consumer"})
  /\ UNCHANGED <<tables, configs, task, found, notice, queue, raised>>

ConsumersDone ==
  /\ phase = "consumer" /\ task = NoTask /\ pending = {}
  /\ phase' = "cluster"
  /\ pending' = AllTasks(Kinds \ {"Consumer"})
  /\ UNCHANGED <<tables, configs, task, found, notice, queue, raised>>

ClustersDone ==
  /\ phase = "cluster" /\ task = NoTask /\ pending = {}
  /\ phase' = "idle"
  /\ UNCHANGED <<tables, configs, pending, task, found, notice, queue, raised>>

\* Mutant: the element stays in the list.
FetchConfigKeeping ==
  /\ task = NoTask
  /\ \E t \in pending : task' = t /\ found' = (t.row.group \in configs)
  /\ UNCHANGED <<tables, configs, phase, pending, notice, queue, raised>>

\* The loop takes an element and reads its alarm group.
FetchConfig ==
  /\ task = NoTask
  /\ \E t \in pending :
       /\ task' = t
       /\ pending' = pending \ {t}
       /\ found' = (t.row.group \in configs)
  /\ UNCHANGED <<tables, configs, phase, notice, queue, raised>>

Judging == task # NoTask /\ notice = "none"

\* The copies the job holds, and those of them it has yet to judge.
Held == pending \cup ({task} \ {NoTask})
Unjudged == pending \cup {t \in {task} : Judging}

\* Mutant: the update stores every column of the copy.
WriteWholeRow(t, times, normal) ==
  rule' = IF t.id \in rows
          THEN [rule EXCEPT ![t.id] = [t.row EXCEPT !.times = times, !.normal = normal]]
          ELSE rule

\* Mutant: as above, with replace into.
ReplaceInto(t, times, normal) ==
  rule' = [rule EXCEPT ![t.id] = [t.row EXCEPT !.times = times, !.normal = normal]]

\* modify{Consumer,Cluster}StatusAlertById: the two status columns, where the
\* row still exists.
WriteStatus(t, times, normal) ==
  rule' = IF t.id \in rows
          THEN [rule EXCEPT ![t.id].times = times, ![t.id].normal = normal]
          ELSE rule

\* Mutant: <= for <.
UpToQuota(t) == t.row.times <= t.row.quota \/ t.row.quota = NoLimit

BelowQuota(t) == t.row.times < t.row.quota \/ t.row.quota = NoLimit

\* The value measured against the row's threshold.  A lag, or a capacity, may
\* equal it; a lag with no sample today reads as 0.
Measures(k) == IF k \in {"Consumer", "Topic"} THEN {"over", "equal", "under"}
                                              ELSE {"over", "under"}

\* Which values count as recovered: <= for a lag, < for a capacity.
Recovers(k, m) == m = "under" \/ (k = "Consumer" /\ m = "equal")

RaiseAlarm(t) ==
  /\ BelowQuota(t)
  /\ t.row.quota = NoLimit => t.row.times < TimesBound
  /\ WriteStatus(t, t.row.times + 1, "N")
  /\ notice' = "PROBLEM"
  /\ UNCHANGED <<dropped, granted, configs, phase, pending, task, found, queue, raised>>

\* Mutant: the count is not reset.
ClearAlarmKeepingTimes(t) ==
  /\ t.row.normal = "N"
  /\ WriteStatus(t, t.row.times, "Y")
  /\ notice' = "NORMAL"
  /\ raised' = [raised EXCEPT ![t.id] = 0]
  /\ UNCHANGED <<dropped, granted, configs, phase, pending, task, found, queue>>

ClearAlarm(t) ==
  /\ t.row.normal = "N"
  /\ WriteStatus(t, 0, "Y")
  /\ notice' = "NORMAL"
  /\ raised' = [raised EXCEPT ![t.id] = 0]
  /\ UNCHANGED <<dropped, granted, configs, phase, pending, task, found, queue>>

\* Mutant: break for continue.
BreakTheLoop ==
  /\ Abandon
  /\ UNCHANGED <<tables, configs, phase, queue, raised>>

LeaveAlone ==
  /\ NextTask
  /\ UNCHANGED <<tables, configs, phase, pending, queue, raised>>

Judge ==
  /\ Judging
  /\ task.row.watch = "parsable"
  /\ \E m \in Measures(Kind[task.id]) :
       \/ m = "over" /\ RaiseAlarm(task)
       \/ m = "over" /\ ~BelowQuota(task) /\ LeaveAlone
       \/ Recovers(Kind[task.id], m) /\ ClearAlarm(task)
       \/ Recovers(Kind[task.id], m) /\ task.row.normal = "Y" /\ LeaveAlone
       \/ m = "equal" /\ Kind[task.id] = "Topic" /\ LeaveAlone

\* The server text does not parse: the exception (or the one its own handler
\* throws by dereferencing a null cause) leaves cluster().
JudgeMalformed ==
  /\ Judging
  /\ task.row.watch = "malformed"
  /\ Abandon
  /\ UNCHANGED <<tables, configs, phase, queue, raised>>

\* A statement throws: the query for the list, for the group or for what is
\* measured, or the update of the status.
DatabaseFails ==
  /\ "database" \in Faults
  /\ phase # "idle" /\ notice = "none"
  /\ Abandon
  /\ UNCHANGED <<tables, configs, phase, queue, raised>>

Enqueue == queue' = queue \cup {<<task.id, notice>>}

HasRoom == <<task.id, notice>> \notin queue /\ Cardinality(queue) < QueueBound

CountRaised ==
  raised' = IF task.id \in rows THEN [raised EXCEPT ![task.id] = @ + 1] ELSE raised

\* Mutant: the element is sent again.
SendErrorAgain ==
  /\ notice = "PROBLEM" /\ found /\ HasRoom
  /\ Enqueue /\ CountRaised
  /\ UNCHANGED <<tables, configs, jobVars>>

\* sendAlarm{Consumer,Cluster}Error: queue the notice, go to the next element.
SendError ==
  /\ notice = "PROBLEM" /\ found /\ HasRoom
  /\ Enqueue /\ CountRaised
  /\ NextTask
  /\ UNCHANGED <<tables, configs, phase, pending>>

SendNormal ==
  /\ notice = "NORMAL" /\ found /\ HasRoom
  /\ Enqueue
  /\ NextTask
  /\ UNCHANGED <<tables, configs, phase, pending, raised>>

\* alarmConfig is null: the send dereferences it after the status is stored.
SendWithoutConfig ==
  /\ notice # "none" /\ ~found
  /\ Abandon
  /\ UNCHANGED <<tables, configs, phase, queue, raised>>

\* Two jobs named in one millisecond: addJob throws.  consumer() gives up its
\* list, cluster() logs the cause and goes on.
QuartzRefuses ==
  /\ "quartz" \in Faults
  /\ notice # "none" /\ found
  /\ IF phase = "consumer" THEN Abandon ELSE NextTask /\ UNCHANGED pending
  /\ UNCHANGED <<tables, configs, phase, queue, raised>>

JobStep ==
  \/ Execute \/ ConsumersDone \/ ClustersDone
  \/ FetchConfig \/ Judge \/ JudgeMalformed
  \/ SendError \/ SendNormal \/ SendWithoutConfig

-----------------------------------------------------------------------------
(* Quartz and the process.                                                  *)

\* A due job posts its notice; a failing post is logged and not repeated.
Deliver(n) ==
  /\ n \in queue
  /\ queue' = queue \ {n}
  /\ UNCHANGED <<tables, configs, jobVars, raised>>

\* The tables survive; the job and Quartz's RAM store do not.
Crash ==
  /\ "crash" \in Faults
  /\ phase' = "idle"
  /\ Abandon
  /\ queue' = {}
  /\ UNCHANGED <<tables, configs, raised>>

Next ==
  \/ AdminStep
  \/ JobStep \/ DatabaseFails \/ QuartzRefuses
  \/ \E n \in Rules \X Statuses : Deliver(n)
  \/ Crash

Spec == Init /\ [][Next]_vars

\* The scheduler thread and Quartz's threads keep running; administrators and
\* failures need not happen.
FairSpec ==
  /\ Spec
  /\ WF_vars(JobStep)
  /\ \A n \in Rules \X Statuses : WF_vars(Deliver(n))
-----------------------------------------------------------------------------
(* Properties.                                                              *)

\* The types of all variables (the rows of the tables in KafkaAlertJob's terms).
TypeOK ==
  /\ rule \in [Rules -> Row \cup {NoRow}]
  /\ dropped \in SUBSET Rules
  /\ configs \in SUBSET Groups
  /\ phase \in {"idle", "consumer", "cluster"}
  /\ pending \in SUBSET Task
  /\ task \in Task \cup {NoTask}
  /\ found \in BOOLEAN
  /\ notice \in IF task = NoTask THEN {"none"} ELSE Statuses \cup {"none"}
  /\ queue \in SUBSET (Rules \X Statuses)
  /\ granted \in [Rules -> SUBSET Quotas]
  /\ raised \in [Rules -> Nat]

\* The two status columns, written from an old copy of the row while handlers
\* edit, delete and create rows, never contradict each other: is_normal is 'Y'
\* exactly when alarm_times is 0.
StatusConsistent ==
  \A r \in rows : rule[r].normal = "Y" <=> rule[r].times = 0

\* The copies the job still has to judge are never stale in what it will write
\* back: however long the pass takes and whatever the handlers did meanwhile,
\* a copy's status is the live row's status.
SnapshotFresh ==
  \A t \in Unjudged :
    t.id \in rows => /\ t.row.times = rule[t.id].times
                     /\ t.row.normal = rule[t.id].normal

\* alarm_times never passes every alarm_max_times the row has had, even if the
\* quota is lowered, raised or lifted while the job holds an older copy.
QuotaRespected ==
  \A r \in rows :
    \/ rule[r].times = 0
    \/ \E q \in granted[r] : q = NoLimit \/ rule[r].times <= q

\* Crashes, refused sends and missing groups lose PROBLEM notices but never
\* repeat one: those queued since the row was last normal are at most its count.
RaisedWithinTimes ==
  \A r \in rows : raised[r] <= rule[r].times

\* The notice about to be queued says what the table says, although the row was
\* edited by others since it was read: PROBLEM exactly while is_normal is 'N'.
NoticeAgrees ==
  notice # "none" /\ task.id \in rows =>
    (notice = "PROBLEM" <=> rule[task.id].normal = "N")

\* What makes the above inductive.  The job holds at most one copy of a row, of
\* rows that exist or existed; a row's quota, and the quota in a copy the job
\* still has to judge, were granted; a counted alarm awaits its notice.
Bookkeeping ==
  /\ rows \cap dropped = {}
  /\ phase = "idle" => pending = {} /\ task = NoTask
  /\ \A s, t \in pending : s.id = t.id => s = t
  /\ task # NoTask => \A t \in pending : t.id # task.id
  /\ \A t \in Held : t.id \in rows \cup dropped
  /\ \A r \in rows : rule[r].quota \in granted[r]
  /\ \A t \in Unjudged : t.id \in rows => t.row.quota \in granted[t.id]
  /\ \A r \in Rules \ rows : raised[r] = 0
  /\ notice = "PROBLEM" /\ task.id \in rows => raised[task.id] < rule[task.id].times

EditsOf(r) == [quota |-> rule[r].quota, group |-> rule[r].group,
               watch |-> rule[r].watch, enable |-> rule[r].enable]

\* The job, writing back a row it read minutes ago, never undoes what a handler
\* stored meanwhile and never brings a deleted row back.
JobKeepsEdits ==
  [][JobStep => /\ rows' = rows
                /\ \A r \in rows : EditsOf(r)' = EditsOf(r)]_vars

\* The refinement mapping: a rule's life as AlarmEpisodes sees it.
Episodes == INSTANCE AlarmEpisodes WITH
  state <- [r \in Rules |->
              IF r \in rows THEN IF rule[r].normal = "Y" THEN "normal" ELSE "alarm"
              ELSE IF r \in dropped THEN "deleted" ELSE "absent"],
  count <- [r \in Rules |-> IF r \in rows THEN rule[r].times ELSE 0]

\* Tables, handlers and job together implement AlarmEpisodes: alarms are raised
\* one at a time within a granted quota and cleared from the alarm state only.
ImplementsEpisodes == Episodes!Spec

\* A pass over the rules ends, whatever handlers do while it runs.
PassEnds == phase # "idle" ~> phase = "idle"

\* Every enabled rule can be parsed and names a group that exists.
AllWellFormed ==
  \A r \in rows : rule[r].enable = "Y" =>
    rule[r].watch = "parsable" /\ rule[r].group \in configs

JudgedNow(r) == task # NoTask /\ task.id = r

\* A rule that stays enabled is judged again and again, provided that from some
\* time on no enabled rule is malformed or names a missing group: a single such
\* rule may starve the others for good, because it ends the loop.
EnabledRulesJudged ==
  \A r \in Rules :
    <>[](AllWellFormed /\ r \in rows /\ rule[r].enable = "Y") => []<>JudgedNow(r)

\* "notify the cancel of the alarm" (KafkaAlertJob.java:105): a cleared alarm
\* leads to a NORMAL notice in the queue.
CancelNotified ==
  \A r \in Rules :
    (notice = "NORMAL" /\ JudgedNow(r)) ~> <<r, "NORMAL">> \in queue
=============================================================================
