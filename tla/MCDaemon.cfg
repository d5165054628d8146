CONSTANTS
    battery = battery
    rawTopic = rawTopic
    Order <- MCOrder
    Replayable <- MCReplayable
    Values = {v}
    NoValue = NoValue
    Threshold = 1
    BreakerDur = 1
    MinReplayAge = 6
    RequestTimeout = 1
    Bridge = TRUE
    PollInterval = 1
    SleepInterval = 2
    ConnectBound = 1
    PollTimeout = 4
    PublishBound = 2
    DisconnectBound = 1
    CycleFailureLimit = 0
    MaxCount = 0
    Prompt = TRUE

SPECIFICATION Daemon

INVARIANTS
    PublishInTime
    ShutdownIsPrompt

PROPERTIES
    NextCycleBridges
    NothingFromBeforeSleep

