------------------------- MODULE AlarmCenterProofs -------------------------
(* Theorems about AlarmCenter, for every set of rules, groups and quotas.    *)
EXTENDS AlarmCenter, TLAPS

\* A row that exists has the columns of a row.
LEMMA LiveRow ==
  ASSUME TypeOK, NEW r \in rows
  PROVE  r \in Rules /\ rule[r] \in Row
BY DEF TypeOK, rows

\* The copies a task query returns are tasks, of live rows, each row once.
LEMMA AllTasksType ==
  ASSUME TypeOK, NEW kinds
  PROVE  /\ AllTasks(kinds) \in SUBSET Task
         /\ \A t \in AllTasks(kinds) : t.id \in rows /\ t.row = rule[t.id]
BY LiveRow DEF AllTasks, Task, rows

\* Writing the status columns keeps every column in its type.
LEMMA WriteStatusType ==
  ASSUME TypeOK, NEW t \in Task, NEW times \in Nat, NEW normal \in {"Y", "N"},
         WriteStatus(t, times, normal)
  PROVE  rule' \in [Rules -> Row \cup {NoRow}]
<1>1. t.id \in Rules
  BY DEF Task
<1>2. CASE t.id \in rows
  <2>1. rule[t.id] \in Row
    BY <1>2, LiveRow
  <2>2. [rule[t.id] EXCEPT !.times = times, !.normal = normal] \in Row
    BY <2>1 DEF Row
  <2>3. rule' = [rule EXCEPT ![t.id] = [rule[t.id] EXCEPT !.times = times, !.normal = normal]]
    BY <1>1, <1>2 DEF WriteStatus, TypeOK
  <2> QED
    BY <1>1, <2>2, <2>3 DEF TypeOK
<1>3. CASE t.id \notin rows
  BY <1>3 DEF WriteStatus, TypeOK
<1> QED
  BY <1>2, <1>3

LEMMA InitTypeOK == Init => TypeOK
<1> SUFFICES ASSUME Init PROVE TypeOK
  OBVIOUS
<1>1. \A q \in Quotas, g \in Groups : Fresh(q, g, "parsable") \in Row
  BY DEF Fresh, Row
<1>2. rule \in [Rules -> Row \cup {NoRow}] /\ granted \in [Rules -> SUBSET Quotas]
  BY <1>1 DEF Init
<1> QED
  BY <1>2 DEF Init, TypeOK

LEMMA NextTypeOK == TypeOK /\ [Next]_vars => TypeOK'
<1> SUFFICES ASSUME TypeOK, [Next]_vars PROVE TypeOK'
  OBVIOUS
<1> USE ConstantsAssumption
<1>1. ASSUME NEW r \in Rules, NEW q \in Quotas, NEW g \in Groups,
             NEW w \in {"parsable", "malformed"}, AlarmCreateForm(r, q, g, w)
      PROVE  TypeOK'
  <2>1. Fresh(q, g, w) \in Row
    BY DEF Fresh, Row
  <2> QED
    BY <1>1, <2>1 DEF AlarmCreateForm, TypeOK, jobVars
<1>2. ASSUME NEW r \in Rules, NEW q \in Quotas, NEW g \in Groups,
             NEW w \in {"parsable", "malformed"}, ModifyInfo(r, q, g, w)
      PROVE  TypeOK'
  <2>1. rule[r] \in Row
    BY <1>2, LiveRow DEF ModifyInfo
  <2>2. [rule[r] EXCEPT !.quota = q, !.group = g, !.watch = w] \in Row
    BY <2>1 DEF Row
  <2>3. rule' = [rule EXCEPT ![r] = [rule[r] EXCEPT !.quota = q, !.group = g, !.watch = w]]
    BY <1>2 DEF ModifyInfo, TypeOK
  <2> QED
    BY <1>2, <2>2, <2>3 DEF ModifyInfo, TypeOK, jobVars
<1>3. ASSUME NEW r \in Rules, NEW e \in {"Y", "N"}, SwitchById(r, e)
      PROVE  TypeOK'
  <2>1. rule[r] \in Row
    BY <1>3, LiveRow DEF SwitchById
  <2>2. [rule[r] EXCEPT !.enable = e] \in Row
    BY <2>1 DEF Row
  <2>3. rule' = [rule EXCEPT ![r] = [rule[r] EXCEPT !.enable = e]]
    BY <1>3 DEF SwitchById, TypeOK
  <2> QED
    BY <1>3, <2>2, <2>3 DEF SwitchById, TypeOK, jobVars
<1>4. ASSUME NEW r \in Rules, DeleteRule(r)
      PROVE  TypeOK'
  BY <1>4 DEF DeleteRule, TypeOK, jobVars
<1>5. ASSUME NEW g \in Groups, AddConfig(g) \/ DeleteConfig(g)
      PROVE  TypeOK'
  BY <1>5 DEF AddConfig, DeleteConfig, TypeOK, jobVars, tables
<1>6. CASE Execute \/ ConsumersDone \/ ClustersDone
  BY <1>6, AllTasksType DEF Execute, ConsumersDone, ClustersDone, TypeOK, tables
<1>7. CASE FetchConfig
  BY <1>7 DEF FetchConfig, TypeOK, tables
<1>8. CASE Judge
  <2>1. task \in Task /\ task.row \in Row /\ task # NoTask
    BY <1>8 DEF Judge, Judging, TypeOK, Task
  <2>2. CASE RaiseAlarm(task)
    <3>1. task.row.times + 1 \in Nat
      BY <2>1 DEF Row
    <3>2. rule' \in [Rules -> Row \cup {NoRow}]
      BY <2>1, <2>2, <3>1, WriteStatusType DEF RaiseAlarm
    <3> QED
      BY <2>1, <2>2, <3>2 DEF RaiseAlarm, TypeOK, Statuses
  <2>3. CASE ClearAlarm(task)
    <3>1. rule' \in [Rules -> Row \cup {NoRow}]
      BY <2>1, <2>3, WriteStatusType DEF ClearAlarm
    <3> QED
      BY <2>1, <2>3, <3>1 DEF ClearAlarm, TypeOK, Statuses, Task
  <2>4. CASE LeaveAlone
    BY <2>4 DEF LeaveAlone, NextTask, TypeOK, tables
  <2> QED
    BY <1>8, <2>2, <2>3, <2>4 DEF Judge
<1>9. CASE JudgeMalformed \/ SendWithoutConfig \/ DatabaseFails
  BY <1>9 DEF JudgeMalformed, SendWithoutConfig, DatabaseFails, Abandon, NextTask,
              TypeOK, tables
<1>10. CASE SendError \/ SendNormal
  <2>1. task \in Task /\ task.id \in Rules /\ notice \in Statuses
    BY <1>10 DEF SendError, SendNormal, TypeOK, Task, Statuses
  <2>2. raised' \in [Rules -> Nat]
    BY <1>10, <2>1 DEF SendError, SendNormal, CountRaised, TypeOK
  <2>3. queue' \in SUBSET (Rules \X Statuses)
    BY <1>10, <2>1 DEF SendError, SendNormal, Enqueue, TypeOK
  <2>4. /\ task' = NoTask /\ found' = FALSE /\ notice' = "none"
        /\ UNCHANGED <<rule, dropped, granted, configs, phase, pending>>
    BY <1>10 DEF SendError, SendNormal, NextTask, tables
  <2> QED
    BY <2>2, <2>3, <2>4 DEF TypeOK
<1>11. CASE QuartzRefuses
  BY <1>11 DEF QuartzRefuses, Abandon, NextTask, TypeOK, tables
<1>12. ASSUME NEW n \in Rules \X Statuses, Deliver(n)
       PROVE  TypeOK'
  BY <1>12 DEF Deliver, TypeOK, tables, jobVars
<1>13. CASE Crash
  BY <1>13 DEF Crash, Abandon, NextTask, TypeOK, tables
<1>14. CASE UNCHANGED vars
  BY <1>14 DEF vars, tables, jobVars, TypeOK
<1> QED
  BY <1>1, <1>2, <1>3, <1>4, <1>5, <1>6, <1>7, <1>8, <1>9, <1>10, <1>11, <1>12,
     <1>13, <1>14 DEF Next, AdminStep, JobStep
-----------------------------------------------------------------------------
(* The inductive invariant: what the runs check, and the job's bookkeeping.  *)

IInv == /\ TypeOK /\ StatusConsistent /\ SnapshotFresh /\ QuotaRespected
        /\ RaisedWithinTimes /\ NoticeAgrees /\ Bookkeeping

\* The alarm centre keeps the types of its tables and of the job's state.
THEOREM TypeCorrect == Spec => []TypeOK
<1>1. TypeOK /\ [Next]_vars => TypeOK'
  BY NextTypeOK
<1> QED
  BY <1>1, InitTypeOK, PTL DEF Spec

LEMMA InitIInv == Init => IInv
<1> SUFFICES ASSUME Init PROVE IInv
  OBVIOUS
<1>1. TypeOK
  BY InitTypeOK
<1>2. PICK q \in Quotas, g \in Groups :
        /\ rule = [r \in Rules |-> IF Kind[r] = "Consumer"
                                   THEN Fresh(q, g, "parsable") ELSE NoRow]
        /\ granted = [r \in Rules |-> IF Kind[r] = "Consumer" THEN {q} ELSE {}]
  BY DEF Init
<1>3. \A r \in rows : rule[r] = Fresh(q, g, "parsable") /\ granted[r] = {q}
  BY <1>2 DEF rows
<1>4. Unjudged = {} /\ Held = {}
  BY DEF Init, Unjudged, Judging, Held
<1> QED
  BY <1>1, <1>3, <1>4 DEF IInv, Init, StatusConsistent, SnapshotFresh, QuotaRespected,
     RaisedWithinTimes, NoticeAgrees, Bookkeeping, Fresh, rows
\* A step that touches no table row and only drops copies, or finishes the
\* element at hand, keeps the invariant.
LEMMA Shrinks ==
  ASSUME IInv, TypeOK', UNCHANGED <<rule, dropped, granted, raised>>,
         pending' \subseteq pending,
         \/ task' = task /\ notice' = notice
         \/ task' = NoTask /\ notice' = "none",
         phase' = phase \/ (pending' = {} /\ task' = NoTask)
  PROVE  IInv'
<1>1. rows' = rows
  BY DEF rows
<1>2. Unjudged' \subseteq Unjudged
  BY DEF Unjudged, Judging
<1>3. /\ StatusConsistent' /\ QuotaRespected' /\ RaisedWithinTimes'
  BY <1>1 DEF IInv, StatusConsistent, QuotaRespected, RaisedWithinTimes
<1>4. SnapshotFresh'
  BY <1>1, <1>2 DEF IInv, SnapshotFresh
<1>5. NoticeAgrees'
  BY <1>1 DEF IInv, NoticeAgrees
<1>6. Bookkeeping'
  <2>1. (phase = "idle" => pending = {} /\ task = NoTask)'
    BY DEF IInv, Bookkeeping
  <2>2. (\A s, t \in pending : s.id = t.id => s = t)'
    BY DEF IInv, Bookkeeping
  <2>3. (task # NoTask => \A t \in pending : t.id # task.id)'
    BY DEF IInv, Bookkeeping
  <2>4. (\A t \in Held : t.id \in rows \cup dropped)'
    BY <1>1 DEF IInv, Bookkeeping, Held
  <2>5. (\A t \in Unjudged : t.id \in rows => t.row.quota \in granted[t.id])'
    BY <1>1, <1>2 DEF IInv, Bookkeeping
  <2>6. (notice = "PROBLEM" /\ task.id \in rows => raised[task.id] < rule[task.id].times)'
    BY <1>1 DEF IInv, Bookkeeping
  <2> QED
    BY <1>1, <2>1, <2>2, <2>3, <2>4, <2>5, <2>6 DEF IInv, Bookkeeping
<1> QED
  BY <1>3, <1>4, <1>5, <1>6 DEF IInv
\* A task query at the start of a loop: every copy is fresh.
LEMMA TakesTasks ==
  ASSUME IInv, TypeOK', UNCHANGED <<rule, dropped, granted, raised, task, notice>>,
         task = NoTask, NEW kinds, pending' = AllTasks(kinds), phase' # "idle"
  PROVE  IInv'
<1>1. rows' = rows /\ Unjudged' = pending' /\ notice' = "none"
  BY DEF rows, Unjudged, Judging, IInv, TypeOK
<1>2. \A t \in pending' : t.id \in rows /\ t.row = rule[t.id] /\ t \in Task
  BY AllTasksType DEF IInv
<1>3. /\ StatusConsistent' /\ QuotaRespected' /\ RaisedWithinTimes' /\ NoticeAgrees'
  BY <1>1 DEF IInv, StatusConsistent, QuotaRespected, RaisedWithinTimes, NoticeAgrees
<1>4. SnapshotFresh'
  BY <1>1, <1>2 DEF SnapshotFresh
<1>5. (\A s, t \in pending : s.id = t.id => s = t)'
  BY DEF AllTasks
<1>6. Bookkeeping'
  BY <1>1, <1>2, <1>5 DEF IInv, Bookkeeping, Held
<1> QED
  BY <1>3, <1>4, <1>6 DEF IInv

LEMMA FetchConfigIInv == IInv /\ TypeOK' /\ FetchConfig => IInv'
<1> SUFFICES ASSUME IInv, TypeOK', FetchConfig PROVE IInv'
  OBVIOUS
<1>1. PICK t \in pending : task' = t /\ pending' = pending \ {t}
  BY DEF FetchConfig
<1>2. /\ UNCHANGED <<rule, dropped, granted, raised, phase, notice>>
      /\ rows' = rows /\ task = NoTask /\ notice = "none"
  BY DEF FetchConfig, tables, rows, IInv, TypeOK
<1>3. t \in Task /\ t # NoTask
  BY ConstantsAssumption DEF IInv, TypeOK
<1>4. Unjudged' = Unjudged
  BY <1>1, <1>2, <1>3 DEF Unjudged, Judging
<1>5. /\ StatusConsistent' /\ QuotaRespected' /\ RaisedWithinTimes' /\ NoticeAgrees'
      /\ SnapshotFresh'
  BY <1>2, <1>4 DEF IInv, StatusConsistent, QuotaRespected, RaisedWithinTimes, NoticeAgrees,
     SnapshotFresh
<1>6. Bookkeeping'
  BY <1>1, <1>2, <1>4 DEF IInv, Bookkeeping, Held
<1> QED
  BY <1>5, <1>6 DEF IInv

\* What WriteStatus does to the table: two columns of one live row, or nothing.
LEMMA WriteStatusEffect ==
  ASSUME TypeOK, NEW t \in Task, NEW times \in Nat, NEW normal \in {"Y", "N"},
         WriteStatus(t, times, normal)
  PROVE  /\ rows' = rows
         /\ \A r \in rows : r # t.id => rule'[r] = rule[r]
         /\ t.id \in rows => /\ rule'[t.id].times = times
                             /\ rule'[t.id].normal = normal
         /\ \A r \in rows : rule'[r].quota = rule[r].quota /\ EditsOf(r)' = EditsOf(r)
<1>1. t.id \in Rules
  BY DEF Task
<1>2. CASE t.id \notin rows
  BY <1>2 DEF WriteStatus, rows, EditsOf
<1>3. CASE t.id \in rows
  <2>1. rule[t.id] \in Row
    BY <1>3, LiveRow
  <2>2. rule' = [rule EXCEPT ![t.id] = [rule[t.id] EXCEPT !.times = times, !.normal = normal]]
    BY <1>1, <1>3 DEF WriteStatus, TypeOK
  <2>3. rule'[t.id] = [rule[t.id] EXCEPT !.times = times, !.normal = normal]
    BY <1>1, <2>2 DEF TypeOK
  <2>4. rule'[t.id] \in Row
    BY <2>1, <2>3 DEF Row
  <2>5. \A r \in Rules : r # t.id => rule'[r] = rule[r]
    BY <2>2 DEF TypeOK
  <2>6. rows' = rows
    BY <1>1, <1>3, <2>4, <2>5, ConstantsAssumption DEF rows
  <2>7. /\ rule'[t.id].times = times /\ rule'[t.id].normal = normal
        /\ rule'[t.id].quota = rule[t.id].quota /\ rule'[t.id].group = rule[t.id].group
        /\ rule'[t.id].watch = rule[t.id].watch /\ rule'[t.id].enable = rule[t.id].enable
    BY <2>1, <2>3 DEF Row
  <2> QED
    BY <2>5, <2>6, <2>7 DEF EditsOf, rows
<1> QED
  BY <1>2, <1>3

LEMMA AlarmCreateFormIInv ==
  ASSUME IInv, TypeOK', NEW r \in Rules, NEW q \in Quotas, NEW g \in Groups,
         NEW w \in {"parsable", "malformed"}, AlarmCreateForm(r, q, g, w)
  PROVE  IInv'
<1>1. /\ r \notin rows /\ r \notin dropped
      /\ UNCHANGED <<dropped, phase, pending, task, notice, raised>>
  BY DEF AlarmCreateForm, jobVars
<1>2. /\ rule'[r].quota = q /\ rule'[r].times = 0 /\ rule'[r].normal = "Y"
      /\ granted'[r] = {q} /\ rule'[r] \in Row
  BY DEF AlarmCreateForm, Fresh, IInv, TypeOK, Row
<1>3. \A s \in Rules : s # r => rule'[s] = rule[s] /\ granted'[s] = granted[s]
  BY DEF AlarmCreateForm, IInv, TypeOK
<1>4. rows' = rows \cup {r}
  BY <1>2, <1>3, ConstantsAssumption DEF rows
<1>5. Held' = Held /\ Unjudged' = Unjudged /\ Unjudged \subseteq Held
  BY <1>1 DEF Held, Unjudged, Judging
<1>6. \A t \in Held : t.id # r
  BY <1>1 DEF IInv, Bookkeeping
<1>7. /\ StatusConsistent' /\ QuotaRespected'
  BY <1>2, <1>3, <1>4 DEF IInv, StatusConsistent, QuotaRespected, rows
<1>8. SnapshotFresh'
  BY <1>3, <1>4, <1>5, <1>6 DEF IInv, SnapshotFresh, rows
<1>9. RaisedWithinTimes'
  BY <1>1, <1>2, <1>3, <1>4 DEF IInv, RaisedWithinTimes, Bookkeeping, rows
<1>10. notice # "none" => task \in Held
  BY DEF IInv, TypeOK, Held
<1>11. NoticeAgrees'
  BY <1>1, <1>3, <1>4, <1>6, <1>10 DEF IInv, NoticeAgrees, rows
<1>12. Bookkeeping'
  BY <1>1, <1>2, <1>3, <1>4, <1>5, <1>6, <1>10 DEF IInv, Bookkeeping, rows
<1> QED
  BY <1>7, <1>8, <1>9, <1>11, <1>12 DEF IInv

\* An edit that leaves the status columns alone and only adds to the quotas.
LEMMA EditIInv ==
  ASSUME IInv, TypeOK', UNCHANGED <<dropped, phase, pending, task, notice, raised>>,
         rows' = rows,
         \A r \in rows : /\ rule'[r].times = rule[r].times
                         /\ rule'[r].normal = rule[r].normal
                         /\ rule'[r].quota \in granted'[r]
                         /\ granted[r] \subseteq granted'[r]
  PROVE  IInv'
<1>1. Held' = Held /\ Unjudged' = Unjudged
  BY DEF Held, Unjudged, Judging
<1>2. StatusConsistent' /\ QuotaRespected' /\ RaisedWithinTimes' /\ NoticeAgrees'
  BY DEF IInv, StatusConsistent, QuotaRespected, RaisedWithinTimes, NoticeAgrees
<1>3. SnapshotFresh' /\ Bookkeeping'
  BY <1>1 DEF IInv, SnapshotFresh, Bookkeeping
<1> QED
  BY <1>2, <1>3 DEF IInv

LEMMA ModifyInfoIInv ==
  ASSUME IInv, TypeOK', NEW r \in Rules, NEW q \in Quotas, NEW g \in Groups,
         NEW w \in {"parsable", "malformed"}, ModifyInfo(r, q, g, w)
  PROVE  IInv'
<1>1. rule[r] \in Row
  BY LiveRow DEF ModifyInfo, IInv
<1>2. rule'[r] = [rule[r] EXCEPT !.quota = q, !.group = g, !.watch = w]
  BY DEF ModifyInfo, IInv, TypeOK
<1>3. /\ rule'[r] \in Row /\ rule'[r].times = rule[r].times
      /\ rule'[r].normal = rule[r].normal /\ rule'[r].quota = q
  BY <1>1, <1>2 DEF Row
<1>4. \A s \in Rules : s # r => rule'[s] = rule[s] /\ granted'[s] = granted[s]
  BY DEF ModifyInfo, IInv, TypeOK
<1>5. granted'[r] = granted[r] \cup {q}
  BY DEF ModifyInfo, IInv, TypeOK
<1>6. rows' = rows
  BY <1>3, <1>4, ConstantsAssumption DEF ModifyInfo, rows
<1>7. UNCHANGED <<dropped, phase, pending, task, notice, raised>>
  BY DEF ModifyInfo, jobVars
<1>8. \A s \in rows : /\ rule'[s].times = rule[s].times
                      /\ rule'[s].normal = rule[s].normal
                      /\ rule'[s].quota \in granted'[s]
                      /\ granted[s] \subseteq granted'[s]
  BY <1>3, <1>4, <1>5 DEF IInv, Bookkeeping, rows
<1> QED
  BY <1>6, <1>7, <1>8, EditIInv

LEMMA SwitchByIdIInv ==
  ASSUME IInv, TypeOK', NEW r \in Rules, NEW e \in {"Y", "N"}, SwitchById(r, e)
  PROVE  IInv'
<1>1. rule[r] \in Row
  BY LiveRow DEF SwitchById, IInv
<1>2. rule'[r] = [rule[r] EXCEPT !.enable = e]
  BY DEF SwitchById, IInv, TypeOK
<1>3. /\ rule'[r] \in Row /\ rule'[r].times = rule[r].times
      /\ rule'[r].normal = rule[r].normal /\ rule'[r].quota = rule[r].quota
  BY <1>1, <1>2 DEF Row
<1>4. \A s \in Rules : s # r => rule'[s] = rule[s]
  BY DEF SwitchById, IInv, TypeOK
<1>5. rows' = rows
  BY <1>3, <1>4, ConstantsAssumption DEF SwitchById, rows
<1>6. UNCHANGED <<dropped, granted, phase, pending, task, notice, raised>>
  BY DEF SwitchById, jobVars
<1>7. \A s \in rows : /\ rule'[s].times = rule[s].times
                      /\ rule'[s].normal = rule[s].normal
                      /\ rule'[s].quota \in granted'[s]
                      /\ granted[s] \subseteq granted'[s]
  BY <1>3, <1>4, <1>6 DEF IInv, Bookkeeping, rows
<1> QED
  BY <1>5, <1>6, <1>7, EditIInv

LEMMA DeleteRuleIInv ==
  ASSUME IInv, TypeOK', NEW r \in Rules, DeleteRule(r)
  PROVE  IInv'
<1>1. /\ dropped' = dropped \cup {r} /\ rule'[r] = NoRow /\ raised'[r] = 0
      /\ UNCHANGED <<phase, pending, task, notice>>
  BY DEF DeleteRule, jobVars, IInv, TypeOK
<1>2. \A s \in Rules : s # r => /\ rule'[s] = rule[s] /\ granted'[s] = granted[s]
                               /\ raised'[s] = raised[s]
  BY DEF DeleteRule, IInv, TypeOK
<1>3. rows' = rows \ {r}
  BY <1>1, <1>2 DEF rows
<1>4. Held' = Held /\ Unjudged' = Unjudged
  BY <1>1 DEF Held, Unjudged, Judging
<1>5. /\ StatusConsistent' /\ QuotaRespected' /\ RaisedWithinTimes' /\ NoticeAgrees'
  BY <1>1, <1>2, <1>3 DEF IInv, StatusConsistent, QuotaRespected, RaisedWithinTimes,
     NoticeAgrees, rows
<1>6. SnapshotFresh'
  BY <1>2, <1>3, <1>4 DEF IInv, SnapshotFresh, rows
<1>7. Bookkeeping'
  BY <1>1, <1>2, <1>3, <1>4 DEF IInv, Bookkeeping, rows
<1> QED
  BY <1>5, <1>6, <1>7 DEF IInv

\* What holds of the element the job is about to judge.
LEMMA JudgedTask ==
  ASSUME IInv, Judging
  PROVE  /\ task \in Task /\ task.id \in Rules /\ task.row \in Row
         /\ task \in Unjudged /\ Unjudged = pending \cup {task}
         /\ \A t \in pending : t.id # task.id
         /\ task.id \in rows => /\ task.row.times = rule[task.id].times
                               /\ task.row.normal = rule[task.id].normal
                               /\ task.row.quota \in granted[task.id]
<1>1. /\ task \in Task /\ Unjudged = pending \cup {task}
  BY DEF Judging, Unjudged, IInv, TypeOK
<1>2. task.id \in Rules /\ task.row \in Row
  BY <1>1 DEF Task
<1> QED
  BY <1>1, <1>2 DEF IInv, SnapshotFresh, Bookkeeping, Judging

LEMMA RaiseAlarmIInv == IInv /\ TypeOK' /\ Judging /\ RaiseAlarm(task) => IInv'
<1> SUFFICES ASSUME IInv, TypeOK', Judging, RaiseAlarm(task) PROVE IInv'
  OBVIOUS
<1> DEFINE n == task.row.times + 1
<1>1. /\ task \in Task /\ task \in Unjudged /\ Unjudged = pending \cup {task}
      /\ \A t \in pending : t.id # task.id
      /\ task.id \in rows => /\ task.row.times = rule[task.id].times
                            /\ task.row.quota \in granted[task.id]
  BY JudgedTask
<1>2. task.row.times \in Nat /\ task.row.quota \in Int
  BY JudgedTask, ConstantsAssumption DEF Row
<1>3. n \in Nat /\ n > 0 /\ (task.row.quota = NoLimit \/ n <= task.row.quota)
  BY <1>2 DEF RaiseAlarm, BelowQuota
<1>4. /\ rows' = rows
      /\ \A r \in rows : r # task.id => rule'[r] = rule[r]
      /\ task.id \in rows => rule'[task.id].times = n /\ rule'[task.id].normal = "N"
      /\ \A r \in rows : rule'[r].quota = rule[r].quota
  <2>1. WriteStatus(task, n, "N")
    BY DEF RaiseAlarm
  <2> HIDE DEF n
  <2> QED
    BY <1>1, <1>3, <2>1, WriteStatusEffect DEF IInv
<1>5. /\ UNCHANGED <<dropped, granted, phase, pending, task, raised>>
      /\ notice' = "PROBLEM"
  BY DEF RaiseAlarm
<1>6. Unjudged' = pending /\ Held' = Held
  BY <1>5 DEF Unjudged, Judging, Held
<1>7. \A r \in rows : raised[r] \in Nat /\ rule[r].times \in Nat /\ raised[r] <= rule[r].times
  BY LiveRow DEF IInv, TypeOK, RaisedWithinTimes, Row
<1>8. task.id \in rows => raised[task.id] < n
  BY <1>1, <1>2, <1>7
<1> HIDE DEF n
<1>9. StatusConsistent'
  BY <1>3, <1>4 DEF IInv, StatusConsistent
<1>10. QuotaRespected'
  BY <1>1, <1>3, <1>4, <1>5 DEF IInv, QuotaRespected
<1>11. SnapshotFresh'
  BY <1>1, <1>4, <1>6 DEF IInv, SnapshotFresh
<1>12. RaisedWithinTimes'
  BY <1>3, <1>4, <1>5, <1>7, <1>8 DEF RaisedWithinTimes
<1>13. NoticeAgrees'
  BY <1>4, <1>5 DEF NoticeAgrees
<1>14. Bookkeeping'
  BY <1>1, <1>4, <1>5, <1>6, <1>8 DEF IInv, Bookkeeping
<1> QED
  BY <1>9, <1>10, <1>11, <1>12, <1>13, <1>14 DEF IInv

LEMMA ClearAlarmIInv == IInv /\ TypeOK' /\ Judging /\ ClearAlarm(task) => IInv'
<1> SUFFICES ASSUME IInv, TypeOK', Judging, ClearAlarm(task) PROVE IInv'
  OBVIOUS
<1>1. /\ task \in Task /\ task.id \in Rules /\ Unjudged = pending \cup {task}
      /\ \A t \in pending : t.id # task.id
  BY JudgedTask
<1>2. /\ rows' = rows
      /\ \A r \in rows : r # task.id => rule'[r] = rule[r]
      /\ task.id \in rows => rule'[task.id].times = 0 /\ rule'[task.id].normal = "Y"
      /\ \A r \in rows : rule'[r].quota = rule[r].quota
  <2>1. WriteStatus(task, 0, "Y")
    BY DEF ClearAlarm
  <2> QED
    BY <1>1, <2>1, WriteStatusEffect DEF IInv
<1>3. /\ UNCHANGED <<dropped, granted, phase, pending, task>>
      /\ notice' = "NORMAL"
      /\ raised'[task.id] = 0 /\ \A r \in Rules : r # task.id => raised'[r] = raised[r]
  BY <1>1 DEF ClearAlarm, IInv, TypeOK
<1>4. Unjudged' = pending /\ Held' = Held
  BY <1>3 DEF Unjudged, Judging, Held
<1>5. StatusConsistent' /\ QuotaRespected'
  BY <1>2, <1>3 DEF IInv, StatusConsistent, QuotaRespected
<1>6. SnapshotFresh'
  BY <1>1, <1>2, <1>4 DEF IInv, SnapshotFresh
<1>7. RaisedWithinTimes'
  BY <1>2, <1>3 DEF IInv, RaisedWithinTimes, rows
<1>8. NoticeAgrees'
  BY <1>2, <1>3 DEF NoticeAgrees
<1>9. Bookkeeping'
  BY <1>1, <1>2, <1>3, <1>4 DEF IInv, Bookkeeping, rows
<1> QED
  BY <1>5, <1>6, <1>7, <1>8, <1>9 DEF IInv

LEMMA SendErrorIInv == IInv /\ TypeOK' /\ SendError => IInv'
<1> SUFFICES ASSUME IInv, TypeOK', SendError PROVE IInv'
  OBVIOUS
<1>1. /\ UNCHANGED <<rule, dropped, granted, phase, pending>>
      /\ task' = NoTask /\ notice' = "none" /\ rows' = rows
  BY DEF SendError, NextTask, tables, rows
<1>2. task # NoTask /\ task \in Task /\ task.id \in Rules
  BY DEF SendError, IInv, TypeOK, Task
<1>3. /\ \A r \in Rules : r # task.id => raised'[r] = raised[r]
      /\ task.id \notin rows => raised' = raised
      /\ task.id \in rows => /\ raised'[task.id] = raised[task.id] + 1
                            /\ raised[task.id] < rule[task.id].times
  BY <1>2 DEF SendError, CountRaised, IInv, TypeOK, Bookkeeping
<1>4. \A r \in rows : raised[r] \in Nat /\ rule[r].times \in Nat
  BY LiveRow DEF IInv, TypeOK, Row
<1>5. Unjudged' = pending /\ pending \subseteq Unjudged /\ Held' = pending
      /\ pending \subseteq Held
  BY <1>1 DEF Unjudged, Judging, Held
<1>6. StatusConsistent' /\ QuotaRespected' /\ SnapshotFresh' /\ NoticeAgrees'
  BY <1>1, <1>5 DEF IInv, StatusConsistent, QuotaRespected, SnapshotFresh, NoticeAgrees
<1>7. RaisedWithinTimes'
  BY <1>1, <1>3, <1>4 DEF IInv, RaisedWithinTimes, rows
<1>8. Bookkeeping'
  BY <1>1, <1>2, <1>3, <1>5 DEF IInv, Bookkeeping, rows
<1> QED
  BY <1>6, <1>7, <1>8 DEF IInv

\* Every step keeps the invariant.
LEMMA NextIInv == IInv /\ [Next]_vars => IInv'
<1> SUFFICES ASSUME IInv, [Next]_vars PROVE IInv'
  OBVIOUS
<1>0. TypeOK'
  BY NextTypeOK DEF IInv
<1>1. CASE AdminStep
  <2>1. ASSUME NEW r \in Rules, NEW q \in Quotas, NEW g \in Groups,
               NEW w \in {"parsable", "malformed"},
               AlarmCreateForm(r, q, g, w) \/ ModifyInfo(r, q, g, w)
        PROVE  IInv'
    BY <1>0, <2>1, AlarmCreateFormIInv, ModifyInfoIInv
  <2>2. ASSUME NEW r \in Rules, NEW e \in {"Y", "N"}, SwitchById(r, e)
        PROVE  IInv'
    BY <1>0, <2>2, SwitchByIdIInv
  <2>3. ASSUME NEW r \in Rules, DeleteRule(r)
        PROVE  IInv'
    BY <1>0, <2>3, DeleteRuleIInv
  <2>4. ASSUME NEW g \in Groups, AddConfig(g) \/ DeleteConfig(g)
        PROVE  IInv'
    BY <1>0, <2>4, Shrinks DEF AddConfig, DeleteConfig, tables, jobVars
  <2> QED
    BY <1>1, <2>1, <2>2, <2>3, <2>4 DEF AdminStep
<1>2. CASE Execute
  BY <1>0, <1>2, TakesTasks DEF Execute, tables, IInv, Bookkeeping
<1>3. CASE ConsumersDone
  BY <1>0, <1>3, TakesTasks DEF ConsumersDone, tables
<1>4. CASE ClustersDone
  BY <1>0, <1>4, Shrinks DEF ClustersDone, tables
<1>5. CASE FetchConfig
  BY <1>0, <1>5, FetchConfigIInv
<1>6. CASE Judge
  <2>1. CASE RaiseAlarm(task)
    BY <1>0, <1>6, <2>1, RaiseAlarmIInv DEF Judge
  <2>2. CASE ClearAlarm(task)
    BY <1>0, <1>6, <2>2, ClearAlarmIInv DEF Judge
  <2>3. CASE LeaveAlone
    BY <1>0, <2>3, Shrinks DEF LeaveAlone, NextTask, tables
  <2> QED
    BY <1>6, <2>1, <2>2, <2>3 DEF Judge
<1>7. CASE JudgeMalformed \/ SendWithoutConfig \/ DatabaseFails \/ QuartzRefuses
  BY <1>0, <1>7, Shrinks DEF JudgeMalformed, SendWithoutConfig, DatabaseFails,
     QuartzRefuses, Abandon, NextTask, tables
<1>8. CASE SendError
  BY <1>0, <1>8, SendErrorIInv
<1>9. CASE SendNormal
  BY <1>0, <1>9, Shrinks DEF SendNormal, NextTask, tables
<1>10. ASSUME NEW n \in Rules \X Statuses, Deliver(n)
       PROVE  IInv'
  BY <1>0, <1>10, Shrinks DEF Deliver, tables, jobVars
<1>11. CASE Crash
  BY <1>0, <1>11, Shrinks DEF Crash, Abandon, NextTask, tables
<1>12. CASE UNCHANGED vars
  BY <1>0, <1>12, Shrinks DEF vars, tables, jobVars
<1> QED
  BY <1>1, <1>2, <1>3, <1>4, <1>5, <1>6, <1>7, <1>8, <1>9, <1>10, <1>11, <1>12
     DEF Next, JobStep

\* The invariant holds in every reachable state.
LEMMA Invariance == Spec => []IInv
<1>1. IInv /\ [Next]_vars => IInv'
  BY NextIInv
<1> QED
  BY <1>1, InitIInv, PTL DEF Spec
-----------------------------------------------------------------------------
(* The properties of the runs.                                               *)

\* The status columns of a row never contradict each other.
THEOREM StatusStaysConsistent == Spec => []StatusConsistent
<1>1. IInv => StatusConsistent
  BY DEF IInv
<1> QED
  BY <1>1, Invariance, PTL

\* A copy the job has yet to judge has the live row's status.
THEOREM SnapshotsStayFresh == Spec => []SnapshotFresh
<1>1. IInv => SnapshotFresh
  BY DEF IInv
<1> QED
  BY <1>1, Invariance, PTL

\* No row is alarmed more often than some quota it was granted.
THEOREM QuotasAreRespected == Spec => []QuotaRespected
<1>1. IInv => QuotaRespected
  BY DEF IInv
<1> QED
  BY <1>1, Invariance, PTL

\* No PROBLEM notice is queued twice for one counted alarm.
THEOREM NoticesStayWithinTimes == Spec => []RaisedWithinTimes
<1>1. IInv => RaisedWithinTimes
  BY DEF IInv
<1> QED
  BY <1>1, Invariance, PTL

\* The notice about to be queued agrees with the stored row.
THEOREM NoticesAgree == Spec => []NoticeAgrees
<1>1. IInv => NoticeAgrees
  BY DEF IInv
<1> QED
  BY <1>1, Invariance, PTL

\* The job never undoes an administrator's edit, nor revives a deleted row.
THEOREM JobNeverUndoesEdits == Spec => JobKeepsEdits
<1> DEFINE A == JobStep => rows' = rows /\ \A r \in rows : EditsOf(r)' = EditsOf(r)
<1>1. IInv /\ [Next]_vars => [A]_vars
  <2> SUFFICES ASSUME IInv, JobStep PROVE A
    OBVIOUS
  <2>1. CASE rule' = rule
    BY <2>1 DEF rows, EditsOf
  <2>2. CASE Judge /\ RaiseAlarm(task)
    <3>1. task \in Task /\ task.row.times + 1 \in Nat
      BY <2>2, JudgedTask DEF Judge, Row
    <3> QED
      BY <2>2, <3>1, WriteStatusEffect DEF RaiseAlarm, IInv
  <2>3. CASE Judge /\ ClearAlarm(task)
    <3>1. task \in Task
      BY <2>3, JudgedTask DEF Judge
    <3> QED
      BY <2>3, <3>1, WriteStatusEffect DEF ClearAlarm, IInv
  <2>4. rule' = rule \/ (Judge /\ RaiseAlarm(task)) \/ (Judge /\ ClearAlarm(task))
    BY DEF JobStep, Execute, ConsumersDone, ClustersDone, FetchConfig, Judge, LeaveAlone,
       JudgeMalformed, SendError, SendNormal, SendWithoutConfig, tables
  <2> QED
    BY <2>1, <2>2, <2>3, <2>4
<1> QED
  BY <1>1, Invariance, PTL DEF Spec, JobKeepsEdits
-----------------------------------------------------------------------------
(* The refinement of AlarmEpisodes.                                          *)

EpState == [r \in Rules |->
              IF r \in rows THEN IF rule[r].normal = "Y" THEN "normal" ELSE "alarm"
              ELSE IF r \in dropped THEN "deleted" ELSE "absent"]
EpCount == [r \in Rules |-> IF r \in rows THEN rule[r].times ELSE 0]

LEMMA InitEpisodes == Init => Episodes!Init
<1> SUFFICES ASSUME Init PROVE Episodes!Init
  OBVIOUS
<1>1. PICK q \in Quotas, g \in Groups :
        /\ rule = [r \in Rules |-> IF Kind[r] = "Consumer"
                                   THEN Fresh(q, g, "parsable") ELSE NoRow]
        /\ granted = [r \in Rules |-> IF Kind[r] = "Consumer" THEN {q} ELSE {}]
  BY DEF Init
<1>2. \A r \in rows : rule[r].normal = "Y" /\ rule[r].times = 0
  BY <1>1 DEF rows, Fresh
<1>3. dropped = {}
  BY DEF Init
<1> QED
  BY <1>1, <1>2, <1>3 DEF Episodes!Init

\* A step that keeps the rows and their status columns stutters, or grants.
LEMMA EpisodeStutter ==
  ASSUME UNCHANGED <<dropped, granted>>, rows' = rows,
         \A r \in rows : rule'[r].normal = rule[r].normal /\ rule'[r].times = rule[r].times
  PROVE  UNCHANGED Episodes!vars
BY DEF Episodes!vars

LEMMA CreateEpisode ==
  ASSUME IInv, NEW r \in Rules, NEW q \in Quotas, NEW g \in Groups,
         NEW w \in {"parsable", "malformed"}, AlarmCreateForm(r, q, g, w)
  PROVE  Episodes!Create(r, q)
<1>1. /\ r \notin rows /\ r \notin dropped /\ dropped' = dropped
      /\ granted' = [granted EXCEPT ![r] = {q}]
  BY DEF AlarmCreateForm
<1>2. rule'[r] = Fresh(q, g, w) /\ rule'[r] \in Row
  BY DEF AlarmCreateForm, Fresh, IInv, TypeOK, Row
<1>3. \A s \in Rules : s # r => rule'[s] = rule[s]
  BY DEF AlarmCreateForm, IInv, TypeOK
<1>4. rows' = rows \cup {r}
  BY <1>2, <1>3, ConstantsAssumption DEF rows
<1>5. rule'[r].normal = "Y" /\ rule'[r].times = 0
  BY <1>2 DEF Fresh
<1>6. EpState[r] = "absent" /\ EpState' = [EpState EXCEPT ![r] = "normal"]
  BY <1>1, <1>3, <1>4, <1>5 DEF EpState
<1>7. EpCount' = EpCount
  BY <1>1, <1>3, <1>4, <1>5 DEF EpCount
<1> QED
  BY <1>1, <1>6, <1>7 DEF Episodes!Create, EpState, EpCount

LEMMA GrantEpisode ==
  ASSUME IInv, NEW r \in Rules, NEW q \in Quotas, NEW g \in Groups,
         NEW w \in {"parsable", "malformed"}, ModifyInfo(r, q, g, w)
  PROVE  Episodes!Grant(r, q)
<1>1. r \in rows /\ rule[r] \in Row
  BY LiveRow DEF ModifyInfo, IInv
<1>2. rule'[r] = [rule[r] EXCEPT !.quota = q, !.group = g, !.watch = w]
  BY DEF ModifyInfo, IInv, TypeOK
<1>3. /\ rule'[r] \in Row /\ rule'[r].times = rule[r].times
      /\ rule'[r].normal = rule[r].normal
  BY <1>1, <1>2 DEF Row
<1>4. \A s \in Rules : s # r => rule'[s] = rule[s]
  BY DEF ModifyInfo, IInv, TypeOK
<1>5. rows' = rows /\ dropped' = dropped
  BY <1>1, <1>3, <1>4, ConstantsAssumption DEF ModifyInfo, rows
<1>6. EpState' = EpState /\ EpCount' = EpCount /\ EpState[r] \in {"normal", "alarm"}
  BY <1>1, <1>3, <1>4, <1>5 DEF EpState, EpCount
<1>7. granted' = [granted EXCEPT ![r] = @ \cup {q}]
  BY DEF ModifyInfo
<1> QED
  BY <1>6, <1>7 DEF Episodes!Grant, EpState, EpCount

LEMMA DropEpisode ==
  ASSUME IInv, NEW r \in Rules, DeleteRule(r)
  PROVE  Episodes!Drop(r)
<1>1. /\ r \in rows /\ dropped' = dropped \cup {r} /\ rule'[r] = NoRow
      /\ granted' = [granted EXCEPT ![r] = {}]
      /\ \A s \in Rules : s # r => rule'[s] = rule[s]
  BY DEF DeleteRule, IInv, TypeOK
<1>2. rows' = rows \ {r}
  BY <1>1 DEF rows
<1>3. EpState[r] \in {"normal", "alarm"} /\ EpState' = [EpState EXCEPT ![r] = "deleted"]
  BY <1>1, <1>2 DEF EpState
<1>4. EpCount' = [EpCount EXCEPT ![r] = 0]
  BY <1>1, <1>2 DEF EpCount
<1> QED
  BY <1>1, <1>3, <1>4 DEF Episodes!Drop, EpState, EpCount

LEMMA RaiseEpisode ==
  ASSUME IInv, Judging, RaiseAlarm(task), NEW r \in rows, r = task.id
  PROVE  Episodes!Raise(r)
<1>1. /\ task \in Task /\ r \in Rules /\ task.row \in Row
      /\ task.row.times = rule[r].times /\ task.row.quota \in granted[r]
  BY JudgedTask
<1>2. task.row.times + 1 \in Nat
  BY <1>1 DEF Row
<1>3. /\ rows' = rows
      /\ \A s \in rows : s # r => rule'[s] = rule[s]
      /\ rule'[r].times = task.row.times + 1 /\ rule'[r].normal = "N"
  BY <1>1, <1>2, WriteStatusEffect DEF RaiseAlarm, IInv
<1>4. UNCHANGED <<dropped, granted>>
  BY DEF RaiseAlarm
<1>5. EpState[r] \in {"normal", "alarm"}
      /\ EpState' = [EpState EXCEPT ![r] = "alarm"]
  BY <1>1, <1>3, <1>4 DEF EpState
<1>6. EpCount' = [EpCount EXCEPT ![r] = @ + 1]
  BY <1>1, <1>3 DEF EpCount
<1>7. \E q \in granted[r] : q = -1 \/ EpCount[r] < q
  BY <1>1 DEF RaiseAlarm, BelowQuota, NoLimit, EpCount
<1> QED
  BY <1>4, <1>5, <1>6, <1>7 DEF Episodes!Raise, Episodes!NoLimit, EpState, EpCount

LEMMA ClearEpisode ==
  ASSUME IInv, Judging, ClearAlarm(task), NEW r \in rows, r = task.id
  PROVE  Episodes!Clear(r)
<1>1. /\ task \in Task /\ r \in Rules
      /\ task.row.normal = rule[r].normal
  BY JudgedTask
<1>2. /\ rows' = rows
      /\ \A s \in rows : s # r => rule'[s] = rule[s]
      /\ rule'[r].times = 0 /\ rule'[r].normal = "Y"
  BY <1>1, WriteStatusEffect DEF ClearAlarm, IInv
<1>3. UNCHANGED <<dropped, granted>>
  BY DEF ClearAlarm
<1>4. EpState[r] = "alarm" /\ EpState' = [EpState EXCEPT ![r] = "normal"]
  BY <1>1, <1>2, <1>3 DEF EpState, ClearAlarm
<1>5. EpCount' = [EpCount EXCEPT ![r] = 0]
  BY <1>1, <1>2 DEF EpCount
<1> QED
  BY <1>3, <1>4, <1>5 DEF Episodes!Clear, EpState, EpCount

\* The status of a row that is gone: the update matches nothing.
LEMMA GoneRow ==
  ASSUME task.id \notin rows, RaiseAlarm(task) \/ ClearAlarm(task)
  PROVE  UNCHANGED <<rule, dropped, granted>>
BY DEF RaiseAlarm, ClearAlarm, WriteStatus

LEMMA StepEpisodes == IInv /\ [Next]_vars => [Episodes!Next]_(Episodes!vars)
<1> SUFFICES ASSUME IInv, [Next]_vars PROVE Episodes!Next \/ UNCHANGED Episodes!vars
  OBVIOUS
<1>1. ASSUME NEW r \in Rules, NEW q \in Quotas, NEW g \in Groups,
             NEW w \in {"parsable", "malformed"},
             AlarmCreateForm(r, q, g, w) \/ ModifyInfo(r, q, g, w)
      PROVE  Episodes!Next
  BY <1>1, CreateEpisode, GrantEpisode DEF Episodes!Next
<1>2. ASSUME NEW r \in Rules, NEW e \in {"Y", "N"}, SwitchById(r, e)
      PROVE  UNCHANGED Episodes!vars
  <2>1. rule[r] \in Row
    BY <1>2, LiveRow DEF SwitchById, IInv
  <2>2. rule'[r] = [rule[r] EXCEPT !.enable = e]
    BY <1>2 DEF SwitchById, IInv, TypeOK
  <2>3. /\ rule'[r] \in Row /\ rule'[r].times = rule[r].times
        /\ rule'[r].normal = rule[r].normal
    BY <2>1, <2>2 DEF Row
  <2>4. \A s \in Rules : s # r => rule'[s] = rule[s]
    BY <1>2 DEF SwitchById, IInv, TypeOK
  <2>5. rows' = rows
    BY <1>2, <2>3, <2>4, ConstantsAssumption DEF SwitchById, rows
  <2>6. UNCHANGED <<dropped, granted>>
    BY <1>2 DEF SwitchById
  <2>7. \A s \in rows : rule'[s].normal = rule[s].normal /\ rule'[s].times = rule[s].times
    BY <2>3, <2>4 DEF rows
  <2> QED
    BY <2>5, <2>6, <2>7, EpisodeStutter
<1>3. ASSUME NEW r \in Rules, DeleteRule(r)
      PROVE  Episodes!Next
  BY <1>3, DropEpisode DEF Episodes!Next
<1>4. CASE UNCHANGED <<rule, dropped, granted>>
  BY <1>4, EpisodeStutter DEF rows
<1>5. CASE Judging /\ (RaiseAlarm(task) \/ ClearAlarm(task))
  <2>1. CASE task.id \in rows
    <3>1. PICK r \in rows : r = task.id
      BY <2>1
    <3>2. r \in Rules
      BY DEF rows
    <3>3. Episodes!Raise(r) \/ Episodes!Clear(r)
      BY <1>5, <3>1, RaiseEpisode, ClearEpisode
    <3> QED
      BY <3>2, <3>3 DEF Episodes!Next
  <2>2. CASE task.id \notin rows
    BY <1>4, <1>5, <2>2, GoneRow
  <2> QED
    BY <2>1, <2>2
<1>6. ASSUME NEW g \in Groups, AddConfig(g) \/ DeleteConfig(g)
      PROVE  UNCHANGED <<rule, dropped, granted>>
  BY <1>6 DEF AddConfig, DeleteConfig, tables
<1>7. CASE Judge
  BY <1>4, <1>5, <1>7 DEF Judge, LeaveAlone, tables
<1>8. CASE JobStep /\ ~Judge
  BY <1>4, <1>8 DEF JobStep, Execute, ConsumersDone, ClustersDone, FetchConfig,
     JudgeMalformed, SendError, SendNormal, SendWithoutConfig, tables
<1>9. CASE DatabaseFails \/ QuartzRefuses \/ Crash
  BY <1>4, <1>9 DEF DatabaseFails, QuartzRefuses, Crash, tables
<1>10. ASSUME NEW n \in Rules \X Statuses, Deliver(n)
       PROVE  UNCHANGED <<rule, dropped, granted>>
  BY <1>10 DEF Deliver, tables
<1>11. CASE UNCHANGED vars
  BY <1>4, <1>11 DEF vars, tables
<1> QED
  BY <1>1, <1>2, <1>3, <1>4, <1>6, <1>7, <1>8, <1>9, <1>10, <1>11 DEF Next, AdminStep

\* Tables, handlers, job and queue implement the life of a rule.
THEOREM AlarmCenterImplementsEpisodes == Spec => ImplementsEpisodes
<1>1. IInv /\ [Next]_vars => [Episodes!Next]_(Episodes!vars)
  BY StepEpisodes
<1> QED
  BY <1>1, InitEpisodes, Invariance, PTL DEF Spec, ImplementsEpisodes, Episodes!Spec
=============================================================================
