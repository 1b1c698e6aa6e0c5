---------------------------- MODULE MCReplyQueue ----------------------------
(* Model values for ReplyQueue. *)
EXTENDS ReplyQueue

CONSTANTS c1, c2, t1, t2, t3, p1, p2

NoReplies == {}
OneCallbackReply == {c1}
TwoCallbackReplies == {c1, c2}
OneThreadReply == {t1}
TwoThreadReplies == {t1, t2}
ThreeThreadReplies == {t1, t2, t3}
OneProgressThread == {p1}
TwoProgressThreads == {p1, p2}
=============================================================================
