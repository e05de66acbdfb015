\* Two transfers, every interleaving of the five threads; either may fail or be
\* withdrawn late, and their ends may hang up.
SPECIFICATION Spec
CONSTANTS
    t1 = t1
    t2 = t2
    None = None
    Cred <- MCCred
    Absent = {}
    Faults <- MCFaults
    MaxPosts = 1
INVARIANTS  SocketsAccounted
\* A server whose transfers are over waits for the next ones.
CHECK_DEADLOCK FALSE
SYMMETRY MCSymmetry
