SPECIFICATION FairSpec
CONSTANTS
    Handler = {"h1", "h2"}
    Cli = {"cli"}
    Text = {"x", "y"}
    Contact <- MCContact
    Stranger <- MCStranger
    Reference = {"bob@x"}
    MaxSubmitted = 2
    MaxFaults = 2
CHECK_DEADLOCK FALSE
INVARIANTS
    TypeOK
    SentLogIsTrue
    TwiceOnlyInDoubt
    LeavesInOrder
PROPERTIES
    AnswersCome
