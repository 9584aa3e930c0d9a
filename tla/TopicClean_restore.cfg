CONSTANTS
  Partitions = {p1}
  MaxRecords = 1
  MaxTroubles = 0
SPECIFICATION Spec
INVARIANTS RetentionRestored
