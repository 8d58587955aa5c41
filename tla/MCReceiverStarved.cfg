SPECIFICATION FairSpec
CONSTANTS
    Message <- MCMessage
    NoMessage = NoMessage
    Times <- MCTimes
    MaxAge = 1
    MaxSkew = 0
    MaxTracked = 3
    Mail <- QueueingMail
    Known = {"alice"}
    Importable = {}
    LearnSenders = FALSE
    IncludeRead = FALSE
    Limit = 1
    MaxPending = 1
    MaxBox = 2
    MaxFaults = 0
    Ahead = 0
    Disturbances = {}
PROPERTIES
    EveryWantedMailIsTaken
