\* One host application; the activity is left once or the process killed once.
CONSTANTS
    Hosts = {h1}
    NoHost = NoHost
    UpdateAtCreation = TRUE
    MaxIntents = 5
    MaxWaiting = 2
    MaxInstances = 2
    MaxMishaps = 1
CHECK_DEADLOCK FALSE
SPECIFICATION WatchFairSpec
INVARIANTS
    ControlFollowsHost
PROPERTIES
    StopsSelfAtRest
    RegistrationServed
