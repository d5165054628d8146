CONSTANTS
    Rejected = {}
    Losable = {}
    ReplyLines = 2
    Aborts = TRUE
    StrayPrompts = FALSE
    SelfStops = FALSE
    Queue = 2
    Probes = {TRUE}
    InitList <- MCInit
    Sources <- MCSlow
    MaxLines = 2
    Late = {"line", "prompt"}

SPECIFICATION Spec

INVARIANT
    RepliesMatch
