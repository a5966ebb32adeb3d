\* A libdbus timeout removes itself in its callback and another is added.
CONSTANTS
    client = client
    timeout = timeout
    Handlers = {client, timeout}
    Timeouts = {timeout}
    Intervals = {1, 2}
    SkewDetect = 1
    IntMax = 15
    MaxTimers = 2
    MaxClock = 3
    ClockSteps <- NoSteps
    MaxSetback = 0
SPECIFICATION Spec
PROPERTY
    RetiresOnlyCalled
