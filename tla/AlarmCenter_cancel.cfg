CONSTANTS
  r1 = r1
  r2 = r2
  NoRow = NoRow
  NoTask = NoTask
  Rules = {r1}
  Kind <- OneServer
  Groups = {g1}
  Quotas <- Unlimited
  Faults = {}
  TimesBound = 1
  QueueBound = 1
SPECIFICATION FairSpec
PROPERTIES CancelNotified
