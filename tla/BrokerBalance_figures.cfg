SPECIFICATION FairSpec
CONSTANTS
  b1 = b1
  b2 = b2
  b3 = b3
  Brokers = {b1, b2, b3}
  Partitions = {1, 2, 3}
  ReplicaSets <- MCReplicaSets
  NoLeader = NoLeader
  NoState = NoState
  MaxChanges = 1
  MaxFailures = 1
INVARIANT FiguresExact
PROPERTY FiguresConverge
