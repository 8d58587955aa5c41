SPECIFICATION FairSpec
CONSTANTS
    Client = {"desk"}
    Forwarded = {"elsewhere"}
    NoHeader = NoHeader
    Thread = {t1, t2}
    MaxAttempts = 2
    Lockout = 2
    Lifetime = 1
    Second = 2
    MaxTokens = 1
    StepBack = 1
    MaxFaults = 1
INVARIANTS
    TypeOK
    GuessesAreBounded
    EndedSessionsRunDry
PROPERTIES
    SessionsEndOnce
    LockoutEnds
