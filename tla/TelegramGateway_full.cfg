SPECIFICATION FairSpec
CONSTANTS
    Users = {u1, u2}
    MaxMos = 2
    MtCapacity = 1
    MoCapacity = 1
    Concurrency = 1
    Unmapped <- UnmappedUpdates
    Callers = {c1}
    Faults = {"mt_panics"}
    None = None
PROPERTY FullChannelGivesBack
