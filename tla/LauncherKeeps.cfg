SPECIFICATION FairSpec
CONSTANTS
    NumAgents = 2
    MaxPid = 8
    MaxChanges = 1
    MaxSignals = 1
    MaxErrors = 1
    MaxDeaths = 2
INVARIANTS TypeOK OneGeneration
PROPERTIES AgentsKept ShutdownEndsUnlessRaised
CHECK_DEADLOCK FALSE
