CONSTANTS
    Database = "etcdv3"
    BenchType = "write"
    SameKey = FALSE
    Clients = 2
    Connections = 2
    TotalRequests = 5
    CompactionCycle = 2
SPECIFICATION FairSpec
INVARIANTS TypeOK ReportComplete NoSendOnClosed CompactionJoined
PROPERTIES Termination ImplementsPipeline
\* The phase ends: its final states are "done" and "exited".
CHECK_DEADLOCK FALSE
