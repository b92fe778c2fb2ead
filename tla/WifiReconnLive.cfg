SPECIFICATION FairSpec
CONSTANTS
    HandshakeFast = 0
    HandshakeTier2 = 1
    SlowTier1 = 0
    GenericFast = 1
    HandshakeMs2 = 10
    HandshakeMs3 = 30
    SlowMs1 = 31
    SlowMs2 = 120
    PauseMs = 5
    ConnectingMs = 29
    QueueLen = 2
    MaxEvents = 1
    ConnectMayFail = FALSE
PROPERTY SelfHeals
CHECK_DEADLOCK FALSE
