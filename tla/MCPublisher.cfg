CONSTANTS
    battery = battery
    rawTopic = rawTopic
    v1 = v1
    v2 = v2
    Order <- MCOrder
    Replayable <- MCReplayable
    Values <- MCValues
    NoValue = NoValue
    Threshold = 2
    BreakerDur = 2
    MinReplayAge = 1
    PollInterval = 1
    RequestTimeout = 1
    Bridge = TRUE
    Prompt = FALSE

SPECIFICATION Spec

PROPERTIES
    NoPostWhileMuted
    WithheldOnlyWhileMuted
    ReplaysLastGood
    DropoutsAreBridged
    EndpointsRecover
