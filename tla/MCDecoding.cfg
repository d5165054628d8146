SPECIFICATION DecodingSpec
CONSTANTS
    Width = 4
    Bytes = {7, 8, 13}
    Indices <- MCIndices
    Lengths = {0, 1, 2, 3, 4, 5}
    BitOffsets = {0, 3}
    BitLengths = {0, 5, 8, 9}
    MaxLength = 6
    MaxSize = 43
    MAX_REPLY_LINES = 9
    Frames = {f1, f2}
    Others = {other}
    Needed = {f1, f2}
    MaxLines = 4
    NoValue = none
    Values <- MCValues
    capacity_wh <- MCCapacity
    Largest = 100
INVARIANTS
    ValidFieldDecodes
    BitsOfTheNumber
    WholeOrNothing
    SameFromTheStart
    ReportsLatest
    
CHECK_DEADLOCK FALSE
