\* Two Starts without a Stop: the first database.log handle stays open, unheld.
CONSTANTS
    Nodes = {"n1"}
    UploadRetries = 30
    Databases = {"etcdv3"}
    Operations = {"Start"}
    MaxRequests = 3
SPECIFICATION AgentFairSpec
INVARIANT OneOpenLog
CHECK_DEADLOCK FALSE
