\* Two files; two kinds of trouble in a behaviour.
SPECIFICATION Spec
CONSTANTS
    a = a
    b = b
    t1 = t1
    t2 = t2
    NoAddr = NoAddr
    User <- MCUser
    Transfer <- MCTransfer
    Routes <- MCRoutes
    MaxSends = 2
    MaxTrouble = 2
INVARIANTS ConnectedRight FreedOnce
PROPERTIES OfferConnects
\* Users may send nothing more.
CHECK_DEADLOCK FALSE
