SPECIFICATION Spec
CONSTANTS
    a1 = a1
    a2 = a2
    a3 = a3
    d1 = d1
    d2 = d2
    t1 = t1
    t2 = t2
    Agent = {a1, a2}
    Api = Api
    None = None
    NumAgents = 2
    Did = {d1, d2, t1, t2}
    Created = {d1}
    PublishId <- OneId
    Consumers <- OneConsumer
    Stamps = {1, 2}
    Seeds <- TwoOlder
    CollectOutcomes = {"ok"}
    SplitOutcomes = {"ok"}
    PublishOutcomes = {"ok"}
    ConsumeOutcomes = {"ok"}
    CrashAt = {}
    MaxIds = 3
    MaxCreates = 1
    MaxCrashes = 0
    MaxRestarts = 0
    MaxMarks = 0
PROPERTY NoRollback
