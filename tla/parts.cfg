\* The parts of elib, one at a time: every call on a ring of three bytes; two blocks
\* of three slices; a heap of eight words with three tables; two threads at the locks
\* of both; the timers of two users, with rounds of up to three milliseconds and a
\* half; a tree of nine keys; a list widget of three items in a view that shows one or
\* two of them; the types of egui and one more, of up to three parents, or six types
\* and three more.
SPECIFICATION MCSpec
CONSTANTS
    b1 = b1
    b2 = b2
    s1 = s1
    s2 = s2
    t1 = t1
    t2 = t2
    n1 = n1
    n2 = n2
    n3 = n3
    Byte <- MCByte
    Args <- MCArgs
    Size = 3
    Block <- MCBlock
    Num = 3
    HeapSize = 8
    Tables = 3
    Thread <- MCThread
    NoThread = NoThread
    MainHeap = MainHeap
    NodeAddr <- MCNodeAddr
    NoTimer = NoTimer
    Interval <- MCInterval
    Msec = 2
    Sec = 6
    MaxRound = 7
    MaxKey = 9
    i1 = i1
    i2 = i2
    i3 = i3
    Item <- MCItem
    NoItem = NoItem
    Heights <- MCHeights
    ItemHeights <- MCItemHeights
    ItemHeight = 2
    BarSlots <- MCSlots
    DragMin = 5
    Scale = 8
    Programs <- MCPrograms
INVARIANTS SeekAgrees CellsExact HeapExact LocksSound TimeKept HandlesSound TreeExact  PartsExact
PROPERTIES IsFifo
\* Two threads may wait for each other for ever, and a caller given no memory is not
\* followed further.
CHECK_DEADLOCK FALSE
