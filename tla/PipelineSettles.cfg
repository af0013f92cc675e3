SPECIFICATION FairSpec
CONSTANTS
    a1 = a1
    a2 = a2
    a3 = a3
    d1 = d1
    d2 = d2
    t1 = t1
    t2 = t2
    Agent = {a1, a2}
    Api = Api
    None = None
    NumAgents = 2
    Did = {d1, d2, t1, t2}
    Created = {d1}
    PublishId <- SameIds
    Consumers <- OneConsumer
    Stamps = {1, 2}
    Seeds <- AnyOfThese
    CollectOutcomes = {"ok", "raise", "abort"}
    SplitOutcomes = {"ok", "raise", "notify", "abort"}
    PublishOutcomes = {"ok", "raise", "abort"}
    ConsumeOutcomes = {"ok", "raise"}
    CrashAt = {"act", "save", "published"}
    MaxIds = 3
    MaxCreates = 1
    MaxCrashes = 2
    MaxRestarts = 0
    MaxMarks = 1
INVARIANT WorkersHoldLocks
PROPERTIES EventuallySettled NoVersionLost
