SPECIFICATION Spec
CONSTANTS
    Message <- MCMessage
    NoMessage = NoMessage
    Times <- MCTimes
    MaxAge = 1
    MaxSkew = 0
    MaxTracked = 3
    Mail <- ClashingMail
    Known = {"alice"}
    Importable = {}
    LearnSenders = TRUE
    IncludeRead = FALSE
    Limit = 1
    MaxPending = 1
    MaxBox = 2
    MaxFaults = 1
    Ahead = 0
    Disturbances = {"crash", "write", "network", "stop", "client"}
INVARIANTS
    TypeOK
    RejectionConsumesNoId
    NothingWantedIsDropped
    InboxShowsWholeMessages
    NeverImportedOnItsOwn
PROPERTIES
    ImplementsReplayGuard
