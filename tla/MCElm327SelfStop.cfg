CONSTANTS
    Rejected = {}
    Losable = {}
    ReplyLines = 1
    Aborts = TRUE
    StrayPrompts = FALSE
    SelfStops = TRUE
    Queue = 2
    Probes = {TRUE}
    InitList <- MCInit
    Sources <- MCBroadcast
    MaxLines = 2
    Late = {"scan"}

SPECIFICATION Spec

INVARIANT
    NoStopAfterPrompt
