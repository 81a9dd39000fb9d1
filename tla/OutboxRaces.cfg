SPECIFICATION MCFairSpec
CONSTANTS
    Keys = {k1, k2, k3}
    Remembers = {k1}
    Expected <- FirstRevision
    Blank = {k3}
    Clients = {c1, c2}
    Drains = {d1, d2}
    Batch = 3
    MaxAttempts = 2
    MaxCalls = 2
    MaxOthers = 1
    MaxPurges = 1
    MaxFaults = 1
INVARIANTS
    NoLostUpdate
    AnsweredMeansAnnounced
    ProcessedMeansEmbedded
    RefusalsBounded
PROPERTIES
    SettledUnlessCrowded
CHECK_DEADLOCK FALSE
