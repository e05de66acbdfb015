\* Files longer than the ring, also on a network that loses datagrams.
SPECIFICATION Spec
CONSTANTS
    PacketLen = 2
    ReadMax = 4
    WriteTries = 2
    ReadTries = 2
    Settings <- MCSettings
INVARIANTS DeliveredInOrder 
PROPERTIES WriterEnds
\* The writer hangs in usock_close at last.
CHECK_DEADLOCK FALSE
