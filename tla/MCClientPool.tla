---------------------------- MODULE MCClientPool ----------------------------
\* Two pools that nest as the code's do: a ZooKeeper callback reads ZooKeeper
\* again (topicRecords calls topicList) and a broker's JMX (topicMetadataRecords
\* calls getRealLogSize).
EXTENDS ClientPool

CONSTANTS zk, jmx

PoolsOf == {zk, jmx}
MaxTotals == [p \in PoolsOf |-> IF p = zk THEN 2 ELSE 1]
MaxIdles == [p \in PoolsOf |-> 1]
NestsOf == {<<zk, zk>>, <<zk, jmx>>}
=============================================================================
