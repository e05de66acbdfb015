\* One account registers while another one names it; then every command between the two, and a crash at any point.
SPECIFICATION Spec
CONSTANTS
    a = a
    b = b
    c = c
    f1 = f1
    f2 = f2
    f3 = f3
    NoFd = NoFd
    User <- TwoUsers
    Fd <- ThreeFds
    Preloaded <- JustA
    Commands <- AllCommands
    CanCrash = TRUE
    CanTear = TRUE
    MaxBacklog = 1
SYMMETRY FdSymmetry
INVARIANTS FriendContactDual Consent UndefinedHasCause
PROPERTIES RestartRestores
