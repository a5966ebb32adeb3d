\* Callbacks add timers, passes come late, the clock jumps ahead; every trigger is
\* dealt with.
CONSTANTS
    client = client
    timeout = timeout
    Handlers = {client}
    Timeouts = {}
    Intervals = {1, 2}
    SkewDetect = 1
    IntMax = 15
    MaxTimers = 3
    MaxClock = 4
    ClockSteps <- ForwardStep
    MaxSetback = 0
SPECIFICATION FairSpec
INVARIANTS
    HorizonBound
    NoneOverdue
PROPERTIES
    SleepHonest
    DueIsServed
