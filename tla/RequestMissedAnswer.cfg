CONSTANTS
    c1 = c1
    c2 = c2
    Callers <- OneCaller
    MaxRequests = 1
    MaxClock = 0
SPECIFICATION FairSpec
PROPERTY AnswerNotMissed
CHECK_DEADLOCK FALSE
