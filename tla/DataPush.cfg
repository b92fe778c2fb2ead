SPECIFICATION PushSpec
CONSTANTS
    MaxLine = 2
    MaxValue = 1
    RingCap = 2
    OutCap = 2
    FailMax = 2
INVARIANTS
    NewestIsPushed
    SeenIsRendered
    SilentLossBounded
PROPERTIES
    RingNeverGoesBack
    OnceInOrderUnlessRaced
CHECK_DEADLOCK FALSE
