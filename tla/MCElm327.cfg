CONSTANTS
    Rejected = {"ATSH"}
    Losable = {"ATE0"}
    ReplyLines = 2
    Aborts = TRUE
    StrayPrompts = TRUE
    SelfStops = TRUE
    Queue = 2
    Probes = {TRUE, FALSE}
    InitList <- MCInit
    Sources <- MCAll
    MaxLines = 2
    Late = {"reply", "resync", "probe", "line", "deadline"}

SPECIFICATION Spec

INVARIANTS
    IInv
    RepliesMatch
    DecodedWithoutHeaders
    EchoIsOff
    OnlyMonitoringIsStopped

PROPERTY
    OperationsEnd
