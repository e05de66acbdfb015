\* A user accepts an item that is not pending.
SPECIFICATION Spec
CONSTANTS
    a = a
    b = b
    t1 = t1
    t2 = t2
    FriendWait = FriendWait
    Idle = Idle
    User <- MCUser
    Transfer <- MCTransfer
    Routes <- MCRoutes
    Asking <- MCNobody
    Careless = TRUE
    PoolCanFail = FALSE
    MaxDeaths = 0
INVARIANTS BegunByConsent
\* Users may send nothing more.
CHECK_DEADLOCK FALSE
