\* A second Stop finds t.cmd and t.pid still set and signals the process again.
CONSTANTS
    Nodes = {"n1"}
    UploadRetries = 30
    Databases = {"etcdv3"}
    Operations = {"Start", "Stop"}
    MaxRequests = 3
SPECIFICATION AgentFairSpec
PROPERTY NoRepeatedStop
CHECK_DEADLOCK FALSE
