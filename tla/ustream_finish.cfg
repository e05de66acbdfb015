\* A file is announced as received while the end of it is still in the ring.
SPECIFICATION Spec
CONSTANTS
    PacketLen = 2
    ReadMax = 4
    WriteTries = 2
    ReadTries = 2
    Settings <- MCSettings
INVARIANTS FinishedWhole
\* The writer hangs in usock_close at last.
CHECK_DEADLOCK FALSE
