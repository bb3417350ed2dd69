\* Any sequence of up to three Transfer calls, every failure outcome.
CONSTANTS
    Nodes = {"n1"}
    UploadRetries = 30
    Databases = {"etcdv3", "unknown"}
    Operations = {"Start", "Restart", "Stop"}
    MaxRequests = 3
SPECIFICATION AgentFairSpec
INVARIANTS TypeOK SignalsOnlySpawned
PROPERTIES SignalsLatest UploadTerminates
\* The agent serves calls until the client stops sending them: every run
\* ends in a state where the bounded client has sent all its calls.
CHECK_DEADLOCK FALSE
