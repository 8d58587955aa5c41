SPECIFICATION Spec
CONSTANTS
    Message <- MCMessage
    NoMessage = NoMessage
    Times <- MCTimes
    MaxAge = 1
    MaxSkew = 1
    MaxTracked = 4
    ClockBack = 1
    DiskFaults = FALSE
PROPERTY AcceptSpec
