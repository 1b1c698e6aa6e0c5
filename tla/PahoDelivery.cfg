SPECIFICATION FairSpec
CONSTANTS
    Jobs = {1, 2}
    Calls = {3, 4}
    Inbound = {1}
    MaxMsgId = 3
    MaxEvents = 3
CHECK_DEADLOCK FALSE
INVARIANTS StreamIntact MsgIdsDistinct TokenKept TokenOnce SuccessIsDelivered SessionStartsClean DeliveredOnce StoreMatches
PROPERTIES AnsweredAtLast
