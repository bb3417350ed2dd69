\* ZooKeeper writes with two clients over one connection: the phase must
\* still report every operation.
CONSTANTS
    Database = "zookeeper"
    BenchType = "write"
    SameKey = FALSE
    Clients = 2
    Connections = 1
    TotalRequests = 3
    CompactionCycle = 0
SPECIFICATION FairSpec
PROPERTIES Termination
CHECK_DEADLOCK FALSE
