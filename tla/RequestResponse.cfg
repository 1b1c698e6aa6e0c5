CONSTANTS
    c1 = c1
    c2 = c2
    Callers <- TwoCallers
    MaxRequests = 2
    MaxClock = 1
SPECIFICATION FairSpec
INVARIANTS
    TypeOK
    AcceptedIsGenuine
    UniqueIds
    OwnAnswer
PROPERTIES
    AnswerKept
    CallReturns
CHECK_DEADLOCK FALSE
