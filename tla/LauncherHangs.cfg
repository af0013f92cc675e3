SPECIFICATION FairSpec
CONSTANTS
    NumAgents = 2
    MaxPid = 7
    MaxChanges = 0
    MaxSignals = 1
    MaxErrors = 0
    MaxDeaths = 1
PROPERTY ShutdownEnds
CHECK_DEADLOCK FALSE
