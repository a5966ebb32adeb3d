\* Pictures are drawn, cut into parts, paused and broken off; a string is scrolled; three pids,
\* one of them sometimes used in the foreground; a clock that may be set further ahead than an
\* int counts milliseconds; two runs of chars for thirty drivers of text displays.
CONSTANTS
    pipe = pipe
    widget = widget
    pid = pid
    timer = timer
    textDriver = textDriver
    MaxPictures = 3
    Units = 3
    SocketRoom = 4
    MaxQueue = 2
    Aligns = {"right", "automatic", "marquee", "pingpong center"}
    Widths = {1, 3}
    Affixes <- MCAffixes
    Strings <- MCStrings
    Styles = {1}
    MaxUpdates = 3
    Pids = {p1, p2, p3}
    NoPid = NoPid
    Foreground = {p3}
    MaxStarts = 4
    IntMax = 31
    Mantissa = 16
    Scales = {1, 2, 4, 8, 16, 32, 64, 128}
    Second = 5
    Interval = 3
    MaxWallClock = 50
    MaxLag = 60
    Panels <- MCPanels
    Edges = {0, 8}
    FaultsAt = {1, 2, 3}
    MaxRuns = 2
CHECK_DEADLOCK FALSE
SPECIFICATION SmallSpec
INVARIANTS
    LockHeld
    CellsShown
    LossRepaired
PROPERTIES
    FeedSpec
    LastPictureShown
    EveryPartShown
    MissedSkipped
