SPECIFICATION FairSpec
CONSTANTS
    a1 = a1
    a2 = a2
    a3 = a3
    d1 = d1
    d2 = d2
    t1 = t1
    t2 = t2
    Agent = {a1, a2}
    Api = Api
    None = None
    NumAgents = 2
    Did = {d1, d2, t1, t2}
    Created = {d1}
    PublishId <- SameIds
    Consumers <- OneConsumer
    Stamps = {1, 2}
    Seeds <- OneOlder
    CollectOutcomes = {"ok"}
    SplitOutcomes = {"ok"}
    PublishOutcomes = {"ok", "raise"}
    ConsumeOutcomes = {"ok"}
    CrashAt = {"move"}
    MaxIds = 2
    MaxCreates = 1
    MaxCrashes = 1
    MaxRestarts = 0
    MaxMarks = 0
PROPERTY MovesEnd
