\* The phone's activity around a small frame pipe: two activities, one registration.
CONSTANTS
    MaxPictures = 2
    Units = 2
    SocketRoom = 2
    MaxQueue = 1
    MaxActivities = 2
    MaxRegisters = 1
SPECIFICATION PhoneFairSpec
INVARIANTS
    ButtonTellsPause
PROPERTIES
    PhoneUsesPipe
    NoOrphan
    ButtonComesBack
