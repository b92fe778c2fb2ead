SPECIFICATION Spec
CONSTANTS
    HandshakeFast = 1
    HandshakeTier2 = 2
    SlowTier1 = 1
    GenericFast = 1
    HandshakeMs2 = 10
    HandshakeMs3 = 30
    SlowMs1 = 31
    SlowMs2 = 120
    PauseMs = 5
    ConnectingMs = 29
    QueueLen = 2
    MaxEvents = 2
    ConnectMayFail = TRUE
INVARIANTS
    TimedWhileRetrying
    StrandedOnlyByLoss
    ParkedOnlyByPeer
CHECK_DEADLOCK FALSE
