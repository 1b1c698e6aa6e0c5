\* mLock and mqttasync_mutex taken in opposite orders.
CONSTANTS
    c1 = c1
    c2 = c2
    t1 = t1
    t2 = t2
    t3 = t3
    p1 = p1
    p2 = p2
    NoReply = NoReply
    CallbackReplies <- OneCallbackReply
    ThreadReplies <- OneThreadReply
    ProgressThreads <- OneProgressThread
SPECIFICATION FairSpec
PROPERTY ReplyReachesQueue
CHECK_DEADLOCK FALSE
