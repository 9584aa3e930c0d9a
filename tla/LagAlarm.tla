------------------------------ MODULE LagAlarm ------------------------------
(***************************************************************************)
(* The consumer alarms on top of the samples they read: KafkaAlertJob, in  *)
(* the same thread as the sampling jobs, compares the lag of the newest    *)
(* row with the lag a rule tolerates.  AlarmCenter has the rest of a rule  *)
(* (its quota, its group, its notices); here a rule is raised or not.      *)
(***************************************************************************)
EXTENDS LagSampling

CONSTANT Threshold   \* the lag every rule tolerates, a number

VARIABLE raised      \* consumer series whose rule has is_normal = 'N'

alarmVars == <<vars, raised>>

AlarmInit == Init /\ raised = {}

\* select lag ... tm = today order by timespan desc limit 1, or 0
RowsOfToday(s) == {r \in RowsOf(s) : r.tm = day}
QueryLastestLag(s) ==
  IF RowsOfToday(s) = {} THEN 0 ELSE Lag(Newest(RowsOfToday(s)))

JudgeLag(s) ==
  /\ pc = "idle"
  /\ \/ QueryLastestLag(s) > Threshold /\ raised' = raised \union {s}
     \/ QueryLastestLag(s) <= Threshold /\ raised' = raised \ {s}
  /\ UNCHANGED vars

AlarmNext ==
  \/ Next /\ UNCHANGED raised
  \/ \E s \in Consumers : JudgeLag(s)

\* The scheduler's thread runs on, and judges every rule again and again.
AlarmSpec ==
  /\ AlarmInit /\ [][AlarmNext]_alarmVars
  /\ WF_alarmVars(JobStep /\ UNCHANGED raised)
  /\ \A s \in Consumers : WF_alarmVars(JudgeLag(s))

\* "notify the cancel of the alarm" (KafkaAlertJob.java:105) when the "real
\* consumer lag" (:92) is within the limit: an alarm is cancelled only if the
\* newest sample of its series is.
CancelMeansCaughtUp ==
  [][\A s \in raised \ raised' : \E r \in RowsOf(s) :
       IsNewest(r, RowsOf(s)) /\ Lag(r) <= Threshold]_alarmVars
=============================================================================
