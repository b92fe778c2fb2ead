SPECIFICATION Spec
CONSTANTS
    ProvQueueLen = 1
    Creds = {"a", "b"}
    Good = {"a"}
    DispQueueLen = 1
    MaxRequests = 3
    MaxFaults = 2
INVARIANTS
    LiveIsProven
    MirrorFollowsLive
    ErasedStaysErased
    SavedCredsReachDriver
PROPERTY StagedIsSettled
CHECK_DEADLOCK FALSE
