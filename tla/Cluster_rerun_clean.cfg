\* Two invocations with all three steps on two nodes; every timeout, lost
\* request, failed start, process exit and agent signal.
CONSTANTS
    Nodes = {"n1", "n2"}
    Databases = {"etcdv3"}
    Operations = {"Start", "Stop"}
    MaxRequests = 4
    UploadRetries = 2
    Database = "etcdv3"
    Skip1 = FALSE
    Skip2 = FALSE
    Skip3 = FALSE
    MaxRuns = 2
SPECIFICATION FairSpec
INVARIANT CleanAfterSuccess
\* After its last invocation the controller is gone and the agents wait.
CHECK_DEADLOCK FALSE
