\* The app's own settings; the activity is left while an intent is under way.
CONSTANTS
    Hosts = {h1}
    NoHost = NoHost
    UpdateAtCreation = FALSE
    MaxIntents = 4
    MaxWaiting = 2
    MaxInstances = 2
    MaxMishaps = 1
CHECK_DEADLOCK FALSE
SPECIFICATION WatchSpec
INVARIANT
    DestroyedHoldsNothing
