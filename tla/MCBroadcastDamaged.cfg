SPECIFICATION BroadcastScanSpec
CONSTANTS
    Frames = {f1}
    Others = {}
    Needed = {f1}
    MaxLines = 2
    NoValue = none
INVARIANTS WantedDataInHand
CHECK_DEADLOCK FALSE
