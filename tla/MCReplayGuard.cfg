SPECIFICATION Spec
CONSTANTS
    Message <- MCMessage
    NoMessage = NoMessage
    Times <- MCTimes
    MaxAge = 1
    MaxSkew = 1
    MaxTracked = 2
    ClockBack = 1
    DiskFaults = TRUE
INVARIANTS
    TypeOK
    AtMostOnce
    DurableBeforeDelivery
