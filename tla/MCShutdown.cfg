CONSTANTS
    w1 = w1
    w2 = w2
    w3 = w3
    Waiters <- MCWaiters

SPECIFICATION Spec

INVARIANTS
    NoLostWakeup

PROPERTIES
    KeepsPromise
