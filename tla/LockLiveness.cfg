SPECIFICATION FairSpec
CONSTANTS
    c1 = c1
    c2 = c2
    c3 = c3
    k1 = k1
    k2 = k2
    None = None
    Client = {c1, c2}
    Key = {k1, k2}
    Waits = {0, 1}
    Holds = {1}
    DefaultHold = 1
    Horizon = 1
    MaxTime = 5
    MaxWrites = 2
PROPERTIES
    CallsEnd
    OrphanLocksFreed
