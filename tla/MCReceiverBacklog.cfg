SPECIFICATION Spec
CONSTANTS
    Message <- MCMessage
    NoMessage = NoMessage
    Times <- MCTimes
    MaxAge = 1
    MaxSkew = 0
    MaxTracked = 3
    Mail <- AssortedMail
    Known = {"alice"}
    Importable = {"carol"}
    LearnSenders = TRUE
    IncludeRead = TRUE
    Limit = 2
    MaxPending = 1
    MaxBox = 2
    MaxFaults = 1
    Ahead = 0
    Disturbances = {"crash", "write", "network", "operator"}
INVARIANTS
    DeliveredIsVouchedFor
