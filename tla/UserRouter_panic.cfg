SPECIFICATION FairSpec
CONSTANTS
    Users = {u1}
    MaxMos = 2
    MtCapacity = 1
    Faults = {"panic"}
    IdleTimeouts = TRUE
    None = None
PROPERTY DeadRoutesAreRemoved
