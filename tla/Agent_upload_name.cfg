\* A Start overwrites t.req while a monitor of the previous run uploads.
CONSTANTS
    Nodes = {"n1"}
    UploadRetries = 30
    Databases = {"etcdv3"}
    Operations = {"Start", "Stop"}
    MaxRequests = 3
SPECIFICATION AgentFairSpec
INVARIANT UploadNamedForOwnRun
CHECK_DEADLOCK FALSE
