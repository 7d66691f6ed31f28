SPECIFICATION Spec
CONSTANTS
    Users = {u1}
    MaxMos = 3
    MtCapacity = 1
    Faults = {}
    IdleTimeouts = TRUE
    None = None
INVARIANT OneDialogPerUser
