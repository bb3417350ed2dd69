CONSTANTS
    Database = "zookeeper"
    BenchType = "read"
    SameKey = FALSE
    Clients = 2
    Connections = 2
    TotalRequests = 3
    CompactionCycle = 0
SPECIFICATION FairSpec
INVARIANTS ReportComplete NoSendOnClosed
PROPERTIES Termination ImplementsPipeline
\* The phase ends: its final states are "done" and "exited".
CHECK_DEADLOCK FALSE
