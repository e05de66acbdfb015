\* Three accounts that come, go, take over sessions, delete friends and send messages, with crashes.
SPECIFICATION Spec
CONSTANTS
    a = a
    b = b
    c = c
    f1 = f1
    f2 = f2
    f3 = f3
    NoFd = NoFd
    User <- ThreeUsers
    Fd <- ThreeFds
    Preloaded <- ThreeUsers
    Commands <- SessionCommands
    CanCrash = TRUE
    CanTear = FALSE
    MaxBacklog = 2
SYMMETRY UserFdSymmetry
INVARIANTS PresenceAgrees FdSetExact NoOvertaking
PROPERTIES DrainsInOrder
