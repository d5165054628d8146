CONSTANTS
    PollInterval = 2
    SleepInterval = 3
    ConnectBound = 2
    PollTimeout = 2
    PublishBound = 1
    DisconnectBound = 1
    CycleFailureLimit = 2
    MaxCount = 2
    Prompt = FALSE

SPECIFICATION Spec

PROPERTIES
    NoReuseWithoutDisconnect
    Paced
    
    WatchdogContract
    ShutdownEnds
    NeverStuck
    StarvationTrips
