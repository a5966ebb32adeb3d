\* The clock is set back, also beyond what an int counts, libdbus removes and adds timeouts, timers with interval 0.
CONSTANTS
    client = client
    timeout = timeout
    Handlers = {client, timeout}
    Timeouts = {timeout}
    Intervals = {0, 2}
    SkewDetect = 1
    IntMax = 4
    MaxTimers = 2
    MaxClock = 4
    ClockSteps <- SetbackStep
    MaxSetback = 3
SPECIFICATION Spec
PROPERTIES
    SleepBounded
