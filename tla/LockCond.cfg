SPECIFICATION FairSpec
CONSTANTS
    Waiters = {w1, w2, w3}
    Signallers = {s1}
    None = None
    MaxWork = 2
INVARIANTS
    NoUseAfterFree
    NoLostWakeup
PROPERTY PoppedReturns
CHECK_DEADLOCK FALSE
