\* A Stop whose send on databaseStopped finds no monitor in its select.
CONSTANTS
    Nodes = {"n1"}
    UploadRetries = 30
    Databases = {"etcdv3"}
    Operations = {"Start", "Stop"}
    MaxRequests = 3
SPECIFICATION AgentFairSpec
PROPERTY StopCompletes
CHECK_DEADLOCK FALSE
