SPECIFICATION Spec
CONSTANTS
    Pids = {a, b}
    Passkeys = {right, wrong}
    Pin = right
    MaxRuns = 2
    MaxEdits = 1
    NoKey = none
INVARIANTS ConfigIsWhole StoredKeyBonded ErrorChangesNothing RefusedOnce
PROPERTIES ConfirmedEditsKept
CHECK_DEADLOCK FALSE
