CONSTANTS
  Partitions = {p1, p2}
  MaxRecords = 1
  MaxTroubles = 1
SPECIFICATION FairSpec
INVARIANT BothKeysSet
PROPERTIES TruncatedMeansGone TruncationEnds
