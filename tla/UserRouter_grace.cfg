SPECIFICATION Spec
CONSTANTS
    Users = {u1}
    MaxMos = 1
    MtCapacity = 1
    Faults = {}
    IdleTimeouts = FALSE
    None = None
INVARIANT NoMtLostBeforeGraceIsOver
