CONSTANTS
  r1 = r1
  r2 = r2
  NoRow = NoRow
  NoTask = NoTask
  Rules = {r1, r2}
  Kind <- ConsumerAndServer
  Groups = {g1}
  Quotas <- OneOrTwo
  Faults = {"crash", "database", "quartz"}
  TimesBound = 1
  QueueBound = 1
SPECIFICATION Spec
INVARIANTS StatusConsistent QuotaRespected RaisedWithinTimes NoticeAgrees SnapshotFresh
PROPERTIES JobKeepsEdits
