\* ZooKeeper writes with two clients over one connection: the second
\* worker's handler is nil, and the process may panic part-way.
CONSTANTS
    Database = "zookeeper"
    BenchType = "write"
    SameKey = FALSE
    Clients = 2
    Connections = 1
    TotalRequests = 3
    CompactionCycle = 0
SPECIFICATION FairSpec
INVARIANTS NoSendOnClosed
\* The phase ends with its report, or with the panic.
CHECK_DEADLOCK FALSE
