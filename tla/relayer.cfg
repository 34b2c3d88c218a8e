SPECIFICATION BridgeSpec
CHECK_DEADLOCK FALSE
CONSTANTS
    Machines = {"relayer", "election"}
    MaxEvents = 5
    Rejected = {1}
    Unprovable = {0}
    PageSize = 4
    Overlap = 2
    MaxBatchSize = 2
    MaxDedupSize = 2
    MaxDeadLetters = 1
    MaxRetries = 2
    IdleThreshold = 2
    MaxRestarts = 1
    Node = {"a", "b", "c"}
    LeaseDuration = 2
    MaxStops = 2
INVARIANTS
    RelayedOnce
PROPERTIES
    
    VerdictsArrive
    ElectionLive
