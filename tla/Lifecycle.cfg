SPECIFICATION FairSpec
CONSTANTS
    Tasks = {t1, t2}
    Names = {svcA}
    Reasons = {ota, user, heat}
    Trunc <- MCTruncExact
    MaxServices = 1
    MaxReasons = 2
    WordBits = 1
    MaxObservers = 1
    QueueDepth = 2
    MaxVersion = 3
INVARIANTS
    NoLostNotification
    ObserverConverges
    PauseExact
PROPERTIES
    AsyncEventuallyDelivered
CHECK_DEADLOCK FALSE
