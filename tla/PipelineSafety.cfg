SPECIFICATION Spec
CONSTANTS
    a1 = a1
    a2 = a2
    a3 = a3
    d1 = d1
    d2 = d2
    t1 = t1
    t2 = t2
    Agent = {a1, a2, a3}
    Api = Api
    None = None
    NumAgents = 2
    Did = {d1, d2, t1, t2}
    Created = {d1}
    PublishId <- SameIds
    Consumers <- OneConsumer
    Stamps = {1, 2}
    Seeds <- OneTask
    CollectOutcomes = {"ok", "raise", "notify", "abort"}
    SplitOutcomes = {"ok", "raise", "notify", "abort"}
    PublishOutcomes = {"ok", "raise", "notify", "abort"}
    ConsumeOutcomes = {"ok", "raise", "abort"}
    CrashAt = {"act", "save"}
    MaxIds = 3
    MaxCreates = 1
    MaxCrashes = 1
    MaxRestarts = 1
    MaxMarks = 1
INVARIANTS TypeOK WorkersHoldLocks OneCopy
PROPERTIES NoVersionLost PublishedStays
SYMMETRY Symmetry
