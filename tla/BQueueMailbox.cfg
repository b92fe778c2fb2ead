SPECIFICATION FairSpec
CONSTANTS
    Threads = {t1, t2, t3}
    Items = {1, 2}
    Capacity = 1
    DroppedMod = 2
PROPERTIES
    ImplementsFifo
    TimedCallReturns
CHECK_DEADLOCK FALSE
