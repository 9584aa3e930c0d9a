SPECIFICATION FairSpec
CONSTANTS
  Threads = {t1, t2}
  zk = zk
  jmx = jmx
  Pools <- PoolsOf
  Clients = {c1, c2, c3}
  Null = Null
  NoPool = NoPool
  MaxTotal <- MaxTotals
  MaxIdle <- MaxIdles
  Quiet = {jmx}
  Nests <- NestsOf
  MaxDepth = 2
INVARIANTS Exclusive SlotsAccounted
PROPERTY OperationEnds
