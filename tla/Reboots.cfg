SPECIFICATION Spec
CONSTANTS
    Threshold = 1
    MinInterval = 1
    DailyCap = 2
    CapMax = 2
    Day = 3
    MaxTime = 4
    MaxOutages = 3
    MaxRequests = 2
    MaxFaults = 2
    MaxEvents = 3
INVARIANTS
    
    NoBootModeLoop
PROPERTIES
    ReportIsTrue
CHECK_DEADLOCK FALSE
