\* Two transfers whose ends connect or never do: every handler and connection ends.
SPECIFICATION Spec
CONSTANTS
    t1 = t1
    t2 = t2
    None = None
    Cred <- MCCred
    Absent <- MCAbsent
    Faults = {}
    MaxPosts = 1
PROPERTIES HandlersEnd 
\* A server whose transfers are over waits for the next ones.
CHECK_DEADLOCK FALSE
