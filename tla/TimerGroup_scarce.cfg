\* Timers or group slots run out of memory while widgets change groups.
CONSTANTS
    icon = icon
    gpo = gpo
    bar = bar
    text = text
    Rearming = {icon, gpo}
    Periodic = {}
    Static = {text}
    Intervals = {0, 1, 2}
    MaxGroups = 2
    MaxWidgets = 4
    MaxTimers = 2
    MaxClock = 3
    Plentiful = FALSE
    Handlers <- Cells
    Timeouts = {}
    SkewDetect = 1
    IntMax = 15
    ClockSteps <- NoSteps
    MaxSetback = 0
SPECIFICATION GroupSpec
PROPERTIES
    QueueSpec
