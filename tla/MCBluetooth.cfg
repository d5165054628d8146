SPECIFICATION Spec
CONSTANTS
    Retries = 4
    Timeout = 60
    Passkey = TRUE
    AgentSecs = 21
    InitSecs = 47
    MaxCalls = 2
INVARIANTS ConnectFitsBound
CHECK_DEADLOCK FALSE
