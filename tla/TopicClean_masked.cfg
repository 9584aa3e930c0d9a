CONSTANTS
  Partitions = {p1, p2}
  MaxRecords = 1
  MaxTroubles = 0
SPECIFICATION Spec
PROPERTIES MarkedMeansGone
