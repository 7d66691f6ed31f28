SPECIFICATION Spec
CONSTANTS
    Users = {u1, u2}
    MaxMos = 3
    MtCapacity = 1
    Faults = {"panic", "stop"}
    IdleTimeouts = TRUE
    None = None
SYMMETRY UserSymmetry
CONSTRAINT OneBusyUser
INVARIANTS
    RouterInv
    UndisturbedUsersAreServed
    UndisturbedUsersLoseNothing
    DrainedBeforeClosing
    AnsweredOnce
    DialogAnswersInOrder
PROPERTY ImplementsDialogService
