SPECIFICATION Spec
CONSTANTS
    c1 = c1
    c2 = c2
    c3 = c3
    k1 = k1
    k2 = k2
    None = None
    Client = {c1, c2, c3}
    Key = {k1}
    Waits = {0, 1}
    Holds = {2}
    DefaultHold = 2
    Horizon = 4
    MaxTime = 9
    MaxWrites = 4
SYMMETRY Symmetry
INVARIANTS
    TypeOK
    HolderIsCurrent
PROPERTIES
    LockProtects
    NoResurrection
    ImplementsLease
