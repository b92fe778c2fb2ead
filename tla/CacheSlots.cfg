SPECIFICATION Spec
CONSTANTS
    Slots = {1, 2}
    Keys = {"k1", "k2"}
    Upserters = {"u1", "u2"}
    Clients = {"c"}
    Sweeper = "w"
    MaxCalls = 4
INVARIANT NoStaleUse
INVARIANT ResultWasTrue
INVARIANT EvictsWhatItJudged
INVARIANT NoDeadlock
CHECK_DEADLOCK FALSE
