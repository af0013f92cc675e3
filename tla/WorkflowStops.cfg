SPECIFICATION FairSpec
CONSTANTS
    c = c
    p = p
    u = u
    None = None
    Action = {c, p, u}
    Order <- OrderOf
    Spec0 = {"task", "ready", "published"}
    Shape <- Shapes
    First <- FirstOf
    Edits <- Changes
    Retirable = {p}
    Breakable = {p}
    Doc = {1}
    Launcher = {l1}
    MaxRequests = 2
    MaxIncidents = 1
INVARIANTS TypeOK ModeAgrees RunningHasNoCycle
PROPERTIES AllOutputsHandled StoppingEnds LeftBehindEnds
CHECK_DEADLOCK FALSE
