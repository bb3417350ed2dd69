\* Two Starts without a Stop: the first process keeps running unrecorded.
CONSTANTS
    Nodes = {"n1"}
    UploadRetries = 30
    Databases = {"etcdv3"}
    Operations = {"Start"}
    MaxRequests = 3
SPECIFICATION AgentFairSpec
INVARIANT NoOrphanProcess
CHECK_DEADLOCK FALSE
