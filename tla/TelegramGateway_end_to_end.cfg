SPECIFICATION FairSpec
CONSTANTS
    Users = {u1, u2}
    MaxMos = 2
    MtCapacity = 1
    MoCapacity = 2
    Concurrency = 2
    Unmapped <- UnmappedUpdates
    Callers = {c1, c2}
    Faults = {"mt_panics"}
    None = None
INVARIANTS
    GatewayInv
    TerminationIsComplete
    TooLateMeansOver
PROPERTIES
    IntakeNeverBlocks
    ShutdownReturns
