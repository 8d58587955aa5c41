SPECIFICATION FairSpec
CONSTANTS
    Message <- MCMessage
    NoMessage = NoMessage
    Times <- MCTimes
    MaxAge = 1
    MaxSkew = 0
    MaxTracked = 3
    Mail <- WaitingMail
    Known = {"alice"}
    Importable = {}
    LearnSenders = FALSE
    IncludeRead = FALSE
    Limit = 2
    MaxPending = 1
    MaxBox = 3
    MaxFaults = 2
    Ahead = 0
    Disturbances = {"crash", "network"}
PROPERTIES
    WantedMailIsTaken
    HandledMailIsFlagged
