\* Handlers on the receive thread and progress threads reply together.
CONSTANTS
    c1 = c1
    c2 = c2
    t1 = t1
    t2 = t2
    t3 = t3
    p1 = p1
    p2 = p2
    NoReply = NoReply
    CallbackReplies <- TwoCallbackReplies
    ThreadReplies <- TwoThreadReplies
    ProgressThreads <- TwoProgressThreads
SPECIFICATION FairSpec
INVARIANTS
    TypeOK
    Conservation
    NoPublishAfterDelete
    NoDeleteUnderCallback
PROPERTIES
    ImplementsChannel
    DestructorFinishes
\* The reply thread and the receive thread can block each other for good.
CHECK_DEADLOCK FALSE
