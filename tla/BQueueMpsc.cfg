SPECIFICATION Spec
CONSTANTS
    Threads = {t1, t2, t3}
    Items = {x1, x2}
    Capacity = 3
    DroppedMod = 2
SYMMETRY Symmetry
INVARIANTS
    NoSleeperWithWork
PROPERTIES
    ImplementsFifo
CHECK_DEADLOCK FALSE
