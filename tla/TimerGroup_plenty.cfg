\* Icons and GPOs change their speed, bars keep theirs; groups come and go.
CONSTANTS
    icon = icon
    gpo = gpo
    bar = bar
    text = text
    Rearming = {icon, gpo}
    Periodic = {bar}
    Static = {}
    Intervals = {1, 2}
    MaxGroups = 2
    MaxWidgets = 5
    MaxTimers = 3
    MaxClock = 2
    Plentiful = TRUE
    Handlers <- Cells
    Timeouts = {}
    SkewDetect = 1
    IntMax = 15
    ClockSteps <- NoSteps
    MaxSetback = 0
SPECIFICATION GroupFairSpec
INVARIANTS
    WidgetsGrouped
    GroupsLinked
PROPERTIES
    WidgetServed
