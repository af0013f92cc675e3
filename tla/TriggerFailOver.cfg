SPECIFICATION FairSpec
CONSTANTS
    l1 = l1
    l2 = l2
    l3 = l3
    None = None
    Launcher = {l1, l2}
    Hold = 2
    Renew = 1
    MaxCrashes = 1
INVARIANTS
    TypeOK
    OneResponsible
    TriggersDontPileUp
    StoppedHoldsNoLock
PROPERTIES
    FailOver
    EverTriggered
    StopEnds
