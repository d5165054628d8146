SPECIFICATION Spec
CONSTANTS
    Retries = 3
    MaxFaults = 6
INVARIANTS ReadingAnswersRequest
PROPERTIES GoodBondKept LinkReleased Recovers
