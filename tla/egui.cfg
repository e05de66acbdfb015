\* Three threads post, one of them the handlers of the loop; the queues hold two
\* events each, the list two; five events in all. The focus: a window of three containers and three
\* widgets, one of which is moved about. A region in a plane of three
\* by three. A page and a bar in it, with two choices of layouts, spacing and borders; one
\* widget is hidden and shown, one moves, one grows; the window is six wide and high at
\* most and one request waits.
SPECIFICATION MCSpec
CONSTANTS
    QueueMax = 2
    LoopMax = 2
    ListMax = 2
    MaxPosts = 5
    window = window
    box = box
    row = row
    page = page
    bar = bar
    w1 = w1
    w2 = w2
    w3 = w3
    Widget <- MCWidget
    Bin <- MCBin
    Kids <- MCKids
    Movable <- MCMovable
    Window = window
    Content = box
    NoWidget = NoWidget
    Across = 3
    Down = 3
    Second <- MCSecond
    LaidWidget <- MCLaid
    LaidWindow = window
    Outermost = page
    Main <- MCMain
    Expand <- MCExpand
    MinSize <- MCMinSize
    Build <- MCBuild
    Styles <- MCStyles
    Fickle = {w2}
    Mobile = {w1}
    Asks <- MCAsks
    NewWidths <- MCNewWidths
    Windows <- MCWindows
    MaxChildren = 3
    MaxSide = 6
    MaxPending = 1
    NoBox = NoBox
INVARIANTS DispatchedInOrder  RegionExact LaidOut
PROPERTIES QuitEnds
\* The loop exits.
CHECK_DEADLOCK FALSE
