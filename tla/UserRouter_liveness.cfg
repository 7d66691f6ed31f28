SPECIFICATION FairSpec
CONSTANTS
    Users = {u1, u2}
    MaxMos = 2
    MtCapacity = 1
    Faults = {"panic", "stop"}
    IdleTimeouts = TRUE
    None = None
CONSTRAINT OneBusyUser
PROPERTIES
    EndedRoutesAreRemoved
    MosSettle
    ShutdownCompletes
    DialogsEnd
