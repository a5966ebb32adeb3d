\* Clients that come and go, in the main loop and in callbacks, and toggle their watches;
\* or one command, an array of one (so two threads) and some faults; or a display that
\* restarts while a widget writes.
CONSTANTS
    event = event
    exec = exec
    lcm = lcm
    dbusRead = dbusRead
    dbusWrite = dbusWrite
    display = display
    bus = bus
    tty = tty
    Watches <- MCWatches
    Fd <- MCFd
    Kind <- MCKind
    MaxChanges = 5
    Keys = {k1}
    NumThreads = 1
    Processes = {1, 2}
    MaxFaults = 2
    Lines = {"A"}
    MaxChunk = 32
    MaxWrites = 1
    MaxRestarts = 1
    MaxRequests = 2
    MaxKeys = 1
CHECK_DEADLOCK FALSE
SPECIFICATION DaemonSpec
INVARIANTS
    WatchesKept
    WholeTexts
    ThreadsOwned
    ShadowShown
PROPERTIES
    OnlyReported
    ReadyIsHandled
    MainReturns
    ShownAgain
