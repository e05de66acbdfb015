\* Two files, both ways or the same way; a client may die once.
SPECIFICATION Spec
CONSTANTS
    a = a
    b = b
    t1 = t1
    t2 = t2
    FriendWait = FriendWait
    Idle = Idle
    User <- MCUser
    Transfer <- MCTransfer
    Routes <- MCRoutes
    Asking <- MCAsking
    Careless = FALSE
    PoolCanFail = TRUE
    MaxDeaths = 1
INVARIANTS WaitsPaired BegunByConsent NeverStoppedFromAfar 
\* Users may send nothing more.
CHECK_DEADLOCK FALSE
