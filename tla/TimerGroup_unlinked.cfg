\* The last widget of a group leaves it.
CONSTANTS
    icon = icon
    gpo = gpo
    bar = bar
    text = text
    Rearming = {icon}
    Periodic = {bar}
    Static = {}
    Intervals = {1, 2}
    MaxGroups = 2
    MaxWidgets = 3
    MaxTimers = 3
    MaxClock = 3
    Plentiful = TRUE
    Handlers <- Cells
    Timeouts = {}
    SkewDetect = 1
    IntMax = 15
    ClockSteps <- NoSteps
    MaxSetback = 0
SPECIFICATION GroupSpec
INVARIANT
    TimersOwned
