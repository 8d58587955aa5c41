SPECIFICATION Spec
CONSTANTS
    Bundle <- MCBundle
    Initial <- MCInitial
    Waiting <- MCWaiting
    Thread <- MCThread
    Process <- MCProcess
    LongLived <- MCLongLived
    Command <- MCCommand
    MaxPending = 2
    MaxCommands = 4
    MaxFaults = 1
INVARIANTS
    TypeOK
    OnlyTheChosenAreTrusted
    NoRequestVanishes
    PendingIsBounded
PROPERTIES
    SavesChangeTheirOwn
CHECK_DEADLOCK FALSE
