-------------------------- MODULE ReplyQueueProofs --------------------------
(***************************************************************************)
(* Proofs about ReplyQueue for any number of replies and threads.          *)
(*                                                                         *)
(* Conservation is inductive only together with the facts that say which   *)
(* thread owns what: _send_reply holds mLock exactly while it has a reply  *)
(* or a token, the receive thread holds mqttasync_mutex exactly while it   *)
(* is in a callback, and no two callers hold the same reply.               *)
(***************************************************************************)
EXTENDS ReplyQueue, TLAPS

(* The reply thread owns mLock from TakeReply to Delivered. *)
LockOwned == mLock = "replyThread" <=> replyThread \in Holding

(* It has a reply in hand from TakeReply to Publish, a token afterwards. *)
HandOwned ==
    /\ reply # NoReply <=> replyThread \in {"publish", "assignMsgId"}
    /\ pubtok # "none" <=> replyThread = "completion"

(* The receive thread owns mqttasync_mutex while it runs a callback. *)
MutexOwned == mqttasync_mutex = "free" <=> caller[ReceiveThread] = "idle"

(* A caller that is about to enqueue has a reply of its own. *)
ArgumentOwned ==
    /\ \A t \in Callers : caller[t] = "send_reply" <=> argument[t] # NoReply
    /\ \A t \in Callers : caller[t] = "callback" => t = ReceiveThread
    /\ \A t, u \in Callers :
          t # u /\ argument[t] # NoReply => argument[t] # argument[u]
    /\ \A t \in Callers : \A i \in 1..Len(accepted) : accepted[i] # argument[t]

(* The destructor goes past join only when the reply thread is done. *)
ExitOrdered ==
    /\ destructor \in {"delete", "deleted"} => replyThread = "done"
    /\ destructor = "deleted" => caller[ReceiveThread] = "idle"

(* The inductive invariant. *)
IndInv ==
    /\ TypeOK
    /\ LockOwned
    /\ HandOwned
    /\ MutexOwned
    /\ ArgumentOwned
    /\ ExitOrdered
    /\ NotifiedMeansQueued
    /\ Conservation

-----------------------------------------------------------------------------

LEMMA InitInv == Init => IndInv
<1> SUFFICES ASSUME Init PROVE IndInv
  OBVIOUS
<1> USE DEF Init
<1>1. TypeOK
  <2>1. mReplyMsgs \in Seq(Replies) /\ accepted \in Seq(Replies)
        /\ published \in Seq(Replies)
    OBVIOUS
  <2>2. /\ caller \in [Callers -> {"idle", "send_reply", "callback"}]
        /\ argument \in [Callers -> Replies \cup {NoReply}]
    OBVIOUS
  <2>3. mExit \in BOOLEAN /\ connected \in BOOLEAN /\ alive \in BOOLEAN
    OBVIOUS
  <2>4. reply \in Replies \cup {NoReply}
    OBVIOUS
  <2>5. replyThread \in {"loop", "lock", "wait", "notified", "spurious",
                        "expired", "done"} \cup Holding
    OBVIOUS
  <2> QED
    BY <2>1, <2>2, <2>3, <2>4, <2>5 DEF TypeOK
<1>2. LockOwned /\ HandOwned /\ MutexOwned
  BY DEF LockOwned, HandOwned, MutexOwned, Holding, Callers, ReceiveThread
<1>3. ArgumentOwned
  BY DEF ArgumentOwned
<1>4. ExitOrdered /\ NotifiedMeansQueued
  BY DEF ExitOrdered, NotifiedMeansQueued
<1>5. Conservation
  BY DEF Conservation, InHand
<1> QED
  BY <1>1, <1>2, <1>3, <1>4, <1>5 DEF IndInv
(* Every step preserves the inductive invariant. *)
LEMMA NextInv == IndInv /\ [Next]_vars => IndInv'
<1> SUFFICES ASSUME IndInv, [Next]_vars PROVE IndInv'
  OBVIOUS
<1> USE ReplyAssumption, ThreadAssumption DEF Replies, Holding, IndInv,
        lockVars, callerVars, threadVars, netVars, exitVars
<1>1. ASSUME NEW m \in CallbackReplies, MessageArrived(m) PROVE IndInv'
  <2> USE <1>1 DEF MessageArrived, Fresh
  <2>1. TypeOK'
    BY DEF TypeOK
  <2>2. LockOwned' /\ HandOwned' /\ MutexOwned'
    <3>1. caller'[ReceiveThread] = "send_reply"
      BY DEF TypeOK, Callers
    <3>2. ReceiveThread # "free"
      BY DEF ReceiveThread
    <3> QED
      BY <3>1, <3>2 DEF LockOwned, HandOwned, MutexOwned
  <2>3. ArgumentOwned'
    BY DEF TypeOK, ArgumentOwned
  <2>4. ExitOrdered' /\ NotifiedMeansQueued'
    BY DEF TypeOK, ExitOrdered, NotifiedMeansQueued, MutexOwned, ArgumentOwned, Callers
  <2>5. Conservation'
    BY DEF TypeOK, HandOwned, Conservation, InHand
  <2> QED
    BY <2>1, <2>2, <2>3, <2>4, <2>5
<1>2. ASSUME NEW m \in CallbackReplies, NextHandler(m) PROVE IndInv'
  <2> USE <1>2 DEF NextHandler, Fresh
  <2>1. TypeOK'
    <3>1. caller' \in [Callers -> {"idle", "send_reply", "callback"}]
      BY DEF TypeOK
    <3>2. argument' \in [Callers -> Replies \cup {NoReply}]
      BY DEF TypeOK
    <3> QED
      BY <3>1, <3>2 DEF TypeOK
  <2>2. LockOwned' /\ HandOwned' /\ MutexOwned'
    BY DEF TypeOK, LockOwned, HandOwned, MutexOwned, Callers
  <2>3. ArgumentOwned'
    BY DEF TypeOK, ArgumentOwned
  <2>4. ExitOrdered' /\ NotifiedMeansQueued'
    BY DEF TypeOK, ExitOrdered, NotifiedMeansQueued, MutexOwned, ArgumentOwned, Callers
  <2>5. Conservation'
    BY DEF TypeOK, HandOwned, Conservation, InHand
  <2> QED
    BY <2>1, <2>2, <2>3, <2>4, <2>5
<1>3. ASSUME NEW t \in ProgressThreads, NEW m \in ThreadReplies, ProgressReport(t, m)
      PROVE IndInv'
  <2> USE <1>3 DEF ProgressReport, Fresh
  <2>1. TypeOK'
    <3>1. caller' \in [Callers -> {"idle", "send_reply", "callback"}]
      BY DEF TypeOK
    <3>2. argument' \in [Callers -> Replies \cup {NoReply}]
      BY DEF TypeOK
    <3> QED
      BY <3>1, <3>2 DEF TypeOK
  <2>2. LockOwned' /\ HandOwned' /\ MutexOwned'
    BY DEF TypeOK, LockOwned, HandOwned, MutexOwned, Callers
  <2>3. ArgumentOwned'
    BY DEF TypeOK, ArgumentOwned
  <2>4. ExitOrdered' /\ NotifiedMeansQueued'
    BY DEF TypeOK, ExitOrdered, NotifiedMeansQueued, MutexOwned, ArgumentOwned, Callers
  <2>5. Conservation'
    BY DEF TypeOK, HandOwned, Conservation, InHand
  <2> QED
    BY <2>1, <2>2, <2>3, <2>4, <2>5
<1>4. CASE CallbackReturns
  <2> USE <1>4 DEF CallbackReturns
  <2>1. TypeOK'
    <3>1. caller' \in [Callers -> {"idle", "send_reply", "callback"}]
      BY DEF TypeOK
    <3>2. argument' \in [Callers -> Replies \cup {NoReply}]
      BY DEF TypeOK
    <3> QED
      BY <3>1, <3>2 DEF TypeOK
  <2>2. LockOwned' /\ HandOwned' /\ MutexOwned'
    BY DEF TypeOK, LockOwned, HandOwned, MutexOwned, Callers
  <2>3. ArgumentOwned'
    BY DEF TypeOK, ArgumentOwned
  <2>4. ExitOrdered' /\ NotifiedMeansQueued'
    BY DEF TypeOK, ExitOrdered, NotifiedMeansQueued, MutexOwned, ArgumentOwned, Callers
  <2>5. Conservation'
    BY DEF TypeOK, HandOwned, Conservation, InHand
  <2> QED
    BY <2>1, <2>2, <2>3, <2>4, <2>5
<1>5. ASSUME NEW t \in Callers, IOTF_send_reply(t) PROVE IndInv'
  <2> USE <1>5 DEF IOTF_send_reply, NotifyOne, AfterSend
  <2>1. TypeOK'
    <3>1. caller' \in [Callers -> {"idle", "send_reply", "callback"}]
      BY DEF TypeOK
    <3>2. argument' \in [Callers -> Replies \cup {NoReply}]
      BY DEF TypeOK
    <3>3. argument[t] \in Replies
      BY DEF TypeOK, ArgumentOwned
    <3>4. mReplyMsgs' \in Seq(Replies) /\ accepted' \in Seq(Replies)
      BY <3>3 DEF TypeOK
    <3> QED
      BY <3>1, <3>2, <3>4 DEF TypeOK
  <2>2. LockOwned' /\ HandOwned' /\ MutexOwned'
    BY DEF TypeOK, LockOwned, HandOwned, MutexOwned, Callers
  <2>3. ArgumentOwned'
    BY DEF TypeOK, ArgumentOwned
  <2>4. ExitOrdered' /\ NotifiedMeansQueued'
    BY DEF TypeOK, ExitOrdered, NotifiedMeansQueued, MutexOwned, ArgumentOwned, Callers
  <2>5. Conservation'
    <3>1. argument[t] \in Replies
      BY DEF TypeOK, ArgumentOwned
    <3>2. /\ Len(mReplyMsgs') = Len(mReplyMsgs) + 1
          /\ Len(accepted') = Len(accepted) + 1
          /\ \A i \in 1..Len(accepted) : accepted'[i] = accepted[i]
          /\ accepted'[Len(accepted) + 1] = argument[t]
          /\ \A i \in 1..Len(mReplyMsgs) : mReplyMsgs'[i] = mReplyMsgs[i]
          /\ mReplyMsgs'[Len(mReplyMsgs) + 1] = argument[t]
      BY <3>1 DEF TypeOK
    <3>3. Len(published) \in Nat /\ Len(mReplyMsgs) \in Nat /\ InHand \in {0, 1}
      BY DEF TypeOK, InHand
    <3>4. InHand' = InHand /\ published' = published /\ reply' = reply
      BY DEF InHand
    <3>5. reply # NoReply => InHand = 1
      BY DEF InHand
    <3>6. Len(accepted') = Len(published') + InHand' + Len(mReplyMsgs')
      BY <3>2, <3>3, <3>4 DEF Conservation
    <3>7. \A i \in 1..Len(published') : published'[i] = accepted'[i]
      BY <3>2, <3>3, <3>4 DEF Conservation
    <3>8. reply' # NoReply => reply' = accepted'[Len(published') + 1]
      BY <3>2, <3>3, <3>4, <3>5 DEF Conservation
    <3>9. \A i \in 1..Len(mReplyMsgs') :
             mReplyMsgs'[i] = accepted'[Len(published') + InHand' + i]
      <4> SUFFICES ASSUME NEW i \in 1..Len(mReplyMsgs')
                   PROVE mReplyMsgs'[i] = accepted'[Len(published) + InHand + i]
        BY <3>4
      <4>1. CASE i = Len(mReplyMsgs) + 1
        <5>1. Len(published) + InHand + i = Len(accepted) + 1
          BY <3>3, <4>1 DEF Conservation
        <5> QED
          BY <3>2, <4>1, <5>1, Zenon
      <4>2. CASE i \in 1..Len(mReplyMsgs)
        <5>1. Len(published) + InHand + i \in 1..Len(accepted)
          BY <3>3, <4>2 DEF Conservation
        <5> QED
          BY <3>2, <4>2, <5>1 DEF Conservation
      <4>3. i = Len(mReplyMsgs) + 1 \/ i \in 1..Len(mReplyMsgs)
        BY <3>2, <3>3
      <4> QED
        BY <4>1, <4>2, <4>3, Zenon
    <3> QED
      BY <3>6, <3>7, <3>8, <3>9 DEF Conservation
  <2> QED
    BY <2>1, <2>2, <2>3, <2>4, <2>5
<1>6. ASSUME NEW t \in Callers, SendReplyAfterDelete(t) PROVE IndInv'
  <2> USE <1>6 DEF SendReplyAfterDelete, AfterSend
  <2>1. TypeOK'
    BY DEF TypeOK
  <2>2. LockOwned' /\ HandOwned' /\ MutexOwned'
    BY DEF TypeOK, LockOwned, HandOwned, MutexOwned, Callers
  <2>3. ArgumentOwned'
    BY DEF TypeOK, ArgumentOwned
  <2>4. ExitOrdered' /\ NotifiedMeansQueued'
    BY DEF TypeOK, ExitOrdered, NotifiedMeansQueued, MutexOwned, ArgumentOwned, Callers
  <2>5. Conservation'
    BY DEF TypeOK, HandOwned, Conservation, InHand
  <2> QED
    BY <2>1, <2>2, <2>3, <2>4, <2>5
<1>7. CASE TestExit
  <2> USE <1>7 DEF TestExit
  <2>1. TypeOK'
    BY DEF TypeOK
  <2>2. LockOwned' /\ HandOwned' /\ MutexOwned'
    BY DEF TypeOK, LockOwned, HandOwned, MutexOwned, Callers
  <2>3. ArgumentOwned'
    BY DEF TypeOK, ArgumentOwned
  <2>4. ExitOrdered' /\ NotifiedMeansQueued'
    BY DEF TypeOK, ExitOrdered, NotifiedMeansQueued, MutexOwned, ArgumentOwned, Callers
  <2>5. Conservation'
    BY DEF TypeOK, HandOwned, Conservation, InHand
  <2> QED
    BY <2>1, <2>2, <2>3, <2>4, <2>5
<1>8. CASE EnterWait
  <2> USE <1>8 DEF EnterWait
  <2>1. TypeOK'
    BY DEF TypeOK
  <2>2. LockOwned' /\ HandOwned' /\ MutexOwned'
    BY DEF TypeOK, LockOwned, HandOwned, MutexOwned, Callers
  <2>3. ArgumentOwned'
    BY DEF TypeOK, ArgumentOwned
  <2>4. ExitOrdered' /\ NotifiedMeansQueued'
    BY DEF TypeOK, ExitOrdered, NotifiedMeansQueued, MutexOwned, ArgumentOwned, Callers
  <2>5. Conservation'
    BY DEF TypeOK, HandOwned, Conservation, InHand
  <2> QED
    BY <2>1, <2>2, <2>3, <2>4, <2>5
<1>9. ASSUME NEW how \in {"expired", "spurious"}, LeaveWait(how) PROVE IndInv'
  <2> USE <1>9 DEF LeaveWait
  <2>1. TypeOK'
    BY DEF TypeOK
  <2>2. LockOwned' /\ HandOwned' /\ MutexOwned'
    BY DEF TypeOK, LockOwned, HandOwned, MutexOwned, Callers
  <2>3. ArgumentOwned'
    BY DEF TypeOK, ArgumentOwned
  <2>4. ExitOrdered' /\ NotifiedMeansQueued'
    BY DEF TypeOK, ExitOrdered, NotifiedMeansQueued, MutexOwned, ArgumentOwned, Callers
  <2>5. Conservation'
    BY DEF TypeOK, HandOwned, Conservation, InHand
  <2> QED
    BY <2>1, <2>2, <2>3, <2>4, <2>5
<1>10. CASE WaitTimesOut \/ NotifiedButEmpty
  <2> USE <1>10 DEF WaitTimesOut, NotifiedButEmpty
  <2>1. TypeOK'
    BY DEF TypeOK
  <2>2. LockOwned' /\ HandOwned' /\ MutexOwned'
    BY DEF TypeOK, LockOwned, HandOwned, MutexOwned, Callers
  <2>3. ArgumentOwned'
    BY DEF TypeOK, ArgumentOwned
  <2>4. ExitOrdered' /\ NotifiedMeansQueued'
    BY DEF TypeOK, ExitOrdered, NotifiedMeansQueued, MutexOwned, ArgumentOwned, Callers
  <2>5. Conservation'
    BY DEF TypeOK, HandOwned, Conservation, InHand
  <2> QED
    BY <2>1, <2>2, <2>3, <2>4, <2>5
<1>11. CASE TakeReply
  <2> USE <1>11 DEF TakeReply
  <2>1. TypeOK'
    BY DEF TypeOK
  <2>2. LockOwned' /\ HandOwned' /\ MutexOwned'
    BY DEF TypeOK, LockOwned, HandOwned, MutexOwned, Callers
  <2>3. ArgumentOwned'
    BY DEF TypeOK, ArgumentOwned
  <2>4. ExitOrdered' /\ NotifiedMeansQueued'
    BY DEF TypeOK, ExitOrdered, NotifiedMeansQueued, MutexOwned, ArgumentOwned, Callers
  <2>5. Conservation'
    <3>1. Len(mReplyMsgs) \in Nat /\ Len(mReplyMsgs) > 0 /\ Len(published) \in Nat
      BY DEF TypeOK
    <3>2. /\ Len(mReplyMsgs') = Len(mReplyMsgs) - 1
          /\ \A i \in 1..Len(mReplyMsgs') : mReplyMsgs'[i] = mReplyMsgs[i + 1]
      BY DEF TypeOK
    <3>3. reply' = mReplyMsgs[1] /\ reply' \in Replies
      BY <3>1 DEF TypeOK
    <3>4. InHand = 0 /\ InHand' = 1 /\ reply' # NoReply
      BY <3>3 DEF InHand, HandOwned
    <3>5. /\ Len(accepted) = Len(published) + Len(mReplyMsgs)
          /\ \A i \in 1..Len(mReplyMsgs) :
                mReplyMsgs[i] = accepted[Len(published) + i]
      BY <3>1, <3>4 DEF Conservation
    <3>6. reply' = accepted'[Len(published') + 1]
      BY <3>1, <3>3, <3>5
    <3>7. \A i \in 1..Len(mReplyMsgs') :
             mReplyMsgs'[i] = accepted'[Len(published') + InHand' + i]
      <4> SUFFICES ASSUME NEW i \in 1..Len(mReplyMsgs')
                   PROVE mReplyMsgs'[i] = accepted[Len(published) + 1 + i]
        BY <3>4
      <4>1. i \in Nat /\ i + 1 \in 1..Len(mReplyMsgs)
        BY <3>1, <3>2
      <4>2. mReplyMsgs'[i] = accepted[Len(published) + (i + 1)]
        BY <3>2, <3>5, <4>1
      <4> QED
        BY <3>1, <4>1, <4>2
    <3>8. Len(accepted') = Len(published') + InHand' + Len(mReplyMsgs')
      BY <3>1, <3>2, <3>4, <3>5
    <3>9. \A i \in 1..Len(published') : published'[i] = accepted'[i]
      BY DEF Conservation
    <3> QED
      BY <3>6, <3>7, <3>8, <3>9 DEF Conservation
  <2> QED
    BY <2>1, <2>2, <2>3, <2>4, <2>5
<1>12. CASE CheckConnected
  <2> USE <1>12 DEF CheckConnected
  <2>1. TypeOK'
    BY DEF TypeOK
  <2>2. LockOwned' /\ HandOwned' /\ MutexOwned'
    BY DEF TypeOK, LockOwned, HandOwned, MutexOwned, Callers
  <2>3. ArgumentOwned'
    BY DEF TypeOK, ArgumentOwned
  <2>4. ExitOrdered' /\ NotifiedMeansQueued'
    BY DEF TypeOK, ExitOrdered, NotifiedMeansQueued, MutexOwned, ArgumentOwned, Callers
  <2>5. Conservation'
    BY DEF TypeOK, HandOwned, Conservation, InHand
  <2> QED
    BY <2>1, <2>2, <2>3, <2>4, <2>5
<1>13. CASE Publish
  <2> USE <1>13 DEF Publish
  <2>1. TypeOK'
    <3>1. published' \in Seq(Replies)
      BY DEF TypeOK, HandOwned
    <3> QED
      BY <3>1 DEF TypeOK
  <2>2. LockOwned' /\ HandOwned' /\ MutexOwned'
    BY DEF TypeOK, LockOwned, HandOwned, MutexOwned, Callers
  <2>3. ArgumentOwned'
    BY DEF TypeOK, ArgumentOwned
  <2>4. ExitOrdered' /\ NotifiedMeansQueued'
    BY DEF TypeOK, ExitOrdered, NotifiedMeansQueued, MutexOwned, ArgumentOwned, Callers
  <2>5. Conservation'
    BY DEF TypeOK, HandOwned, Conservation, InHand
  <2> QED
    BY <2>1, <2>2, <2>3, <2>4, <2>5
<1>14. CASE Delivered
  <2> USE <1>14 DEF Delivered
  <2>1. TypeOK'
    BY DEF TypeOK
  <2>2. LockOwned' /\ HandOwned' /\ MutexOwned'
    BY DEF TypeOK, LockOwned, HandOwned, MutexOwned, Callers
  <2>3. ArgumentOwned'
    BY DEF TypeOK, ArgumentOwned
  <2>4. ExitOrdered' /\ NotifiedMeansQueued'
    BY DEF TypeOK, ExitOrdered, NotifiedMeansQueued, MutexOwned, ArgumentOwned, Callers
  <2>5. Conservation'
    BY DEF TypeOK, HandOwned, Conservation, InHand
  <2> QED
    BY <2>1, <2>2, <2>3, <2>4, <2>5
<1>15. CASE CompletionThrows
  <2> USE <1>15 DEF CompletionThrows
  <2>1. TypeOK'
    BY DEF TypeOK
  <2>2. LockOwned' /\ HandOwned' /\ MutexOwned'
    BY DEF TypeOK, LockOwned, HandOwned, MutexOwned, Callers
  <2>3. ArgumentOwned'
    BY DEF TypeOK, ArgumentOwned
  <2>4. ExitOrdered' /\ NotifiedMeansQueued'
    BY DEF TypeOK, ExitOrdered, NotifiedMeansQueued, MutexOwned, ArgumentOwned, Callers
  <2>5. Conservation'
    BY DEF TypeOK, HandOwned, Conservation, InHand
  <2> QED
    BY <2>1, <2>2, <2>3, <2>4, <2>5
<1>16. CASE ProcessCommand
  <2> USE <1>16 DEF ProcessCommand
  <2>1. TypeOK'
    BY DEF TypeOK
  <2>2. LockOwned' /\ HandOwned' /\ MutexOwned'
    BY DEF TypeOK, LockOwned, HandOwned, MutexOwned, Callers
  <2>3. ArgumentOwned'
    BY DEF TypeOK, ArgumentOwned
  <2>4. ExitOrdered' /\ NotifiedMeansQueued'
    BY DEF TypeOK, ExitOrdered, NotifiedMeansQueued, MutexOwned, ArgumentOwned, Callers
  <2>5. Conservation'
    BY DEF TypeOK, HandOwned, Conservation, InHand
  <2> QED
    BY <2>1, <2>2, <2>3, <2>4, <2>5
<1>17. CASE PubackArrives
  <2> USE <1>17 DEF PubackArrives
  <2>1. TypeOK'
    BY DEF TypeOK
  <2>2. LockOwned' /\ HandOwned' /\ MutexOwned'
    BY DEF TypeOK, LockOwned, HandOwned, MutexOwned, Callers
  <2>3. ArgumentOwned'
    BY DEF TypeOK, ArgumentOwned
  <2>4. ExitOrdered' /\ NotifiedMeansQueued'
    BY DEF TypeOK, ExitOrdered, NotifiedMeansQueued, MutexOwned, ArgumentOwned, Callers
  <2>5. Conservation'
    BY DEF TypeOK, HandOwned, Conservation, InHand
  <2> QED
    BY <2>1, <2>2, <2>3, <2>4, <2>5
<1>18. CASE ConnectionLost
  <2> USE <1>18 DEF ConnectionLost
  <2>1. TypeOK'
    BY DEF TypeOK
  <2>2. LockOwned' /\ HandOwned' /\ MutexOwned'
    BY DEF TypeOK, LockOwned, HandOwned, MutexOwned, Callers
  <2>3. ArgumentOwned'
    BY DEF TypeOK, ArgumentOwned
  <2>4. ExitOrdered' /\ NotifiedMeansQueued'
    BY DEF TypeOK, ExitOrdered, NotifiedMeansQueued, MutexOwned, ArgumentOwned, Callers
  <2>5. Conservation'
    BY DEF TypeOK, HandOwned, Conservation, InHand
  <2> QED
    BY <2>1, <2>2, <2>3, <2>4, <2>5
<1>19. CASE RequestExit
  <2> USE <1>19 DEF RequestExit
  <2>1. TypeOK'
    BY DEF TypeOK
  <2>2. LockOwned' /\ HandOwned' /\ MutexOwned'
    BY DEF TypeOK, LockOwned, HandOwned, MutexOwned, Callers
  <2>3. ArgumentOwned'
    BY DEF TypeOK, ArgumentOwned
  <2>4. ExitOrdered' /\ NotifiedMeansQueued'
    BY DEF TypeOK, ExitOrdered, NotifiedMeansQueued, MutexOwned, ArgumentOwned, Callers
  <2>5. Conservation'
    BY DEF TypeOK, HandOwned, Conservation, InHand
  <2> QED
    BY <2>1, <2>2, <2>3, <2>4, <2>5
<1>20. CASE Join
  <2> USE <1>20 DEF Join
  <2>1. TypeOK'
    BY DEF TypeOK
  <2>2. LockOwned' /\ HandOwned' /\ MutexOwned'
    BY DEF TypeOK, LockOwned, HandOwned, MutexOwned, Callers
  <2>3. ArgumentOwned'
    BY DEF TypeOK, ArgumentOwned
  <2>4. ExitOrdered' /\ NotifiedMeansQueued'
    BY DEF TypeOK, ExitOrdered, NotifiedMeansQueued, MutexOwned, ArgumentOwned, Callers
  <2>5. Conservation'
    BY DEF TypeOK, HandOwned, Conservation, InHand
  <2> QED
    BY <2>1, <2>2, <2>3, <2>4, <2>5
<1>21. CASE DeleteClient
  <2> USE <1>21 DEF DeleteClient
  <2>1. TypeOK'
    BY DEF TypeOK
  <2>2. LockOwned' /\ HandOwned' /\ MutexOwned'
    BY DEF TypeOK, LockOwned, HandOwned, MutexOwned, Callers
  <2>3. ArgumentOwned'
    BY DEF TypeOK, ArgumentOwned
  <2>4. ExitOrdered' /\ NotifiedMeansQueued'
    BY DEF TypeOK, ExitOrdered, NotifiedMeansQueued, MutexOwned, ArgumentOwned, Callers
  <2>5. Conservation'
    BY DEF TypeOK, HandOwned, Conservation, InHand
  <2> QED
    BY <2>1, <2>2, <2>3, <2>4, <2>5
<1>22. CASE UNCHANGED vars
  BY <1>22 DEF vars, TypeOK, LockOwned, HandOwned, MutexOwned, ArgumentOwned,
     ExitOrdered, NotifiedMeansQueued, Conservation, InHand
<1> QED
  BY <1>1, <1>2, <1>3, <1>4, <1>5, <1>6, <1>7, <1>8, <1>9, <1>10, <1>11, <1>12, <1>13, <1>14, <1>15, <1>16, <1>17,
       <1>18, <1>19, <1>20, <1>21, <1>22, Zenon
     DEF Next, ReplyThreadStep, CallerStep, DestructorStep, Environment, Finished,
     Expire, SpuriousWakeup

(* The inductive invariant holds in every reachable state. *)
LEMMA Invariance == Spec => []IndInv
BY InitInv, NextInv, PTL DEF Spec

-----------------------------------------------------------------------------

(* The variables of the reply queue keep their types. *)
THEOREM TypeCorrect == Spec => []TypeOK
<1>1. IndInv => TypeOK
  BY DEF IndInv
<1> QED
  BY <1>1, Invariance, PTL

(* No reply is lost, duplicated or reordered on its way from               *)
(* IOTF_send_reply to the MQTT client.                                     *)
THEOREM QueueConserves == Spec => []Conservation
<1>1. IndInv => Conservation
  BY DEF IndInv
<1> QED
  BY <1>1, Invariance, PTL

(* A notified reply thread finds a reply in the queue.                     *)
THEOREM WakeupFindsReply == Spec => []NotifiedMeansQueued
<1>1. IndInv => NotifiedMeansQueued
  BY DEF IndInv
<1> QED
  BY <1>1, Invariance, PTL

(* ~IOTP_Client does not delete the MQTT client under the reply thread.    *)
THEOREM ExitSafe == Spec => []NoPublishAfterDelete
<1>1. IndInv => NoPublishAfterDelete
  BY DEF IndInv, TypeOK, ExitOrdered, HandOwned, NoPublishAfterDelete
<1> QED
  BY <1>1, Invariance, PTL

(* Nor under a handler that still runs on the receive thread.              *)
THEOREM CallbackSafe == Spec => []NoDeleteUnderCallback
<1>1. IndInv => NoDeleteUnderCallback
  BY DEF IndInv, TypeOK, ExitOrdered, HandOwned, NoDeleteUnderCallback
<1> QED
  BY <1>1, Invariance, PTL

-----------------------------------------------------------------------------

(* A step of the reply queue is a step of the channel or leaves it alone. *)
LEMMA StepSimulation ==
    IndInv /\ [Next]_vars => [Channel!Next]_(Channel!vars)
<1> SUFFICES ASSUME IndInv, [Next]_vars PROVE [Channel!Next]_(Channel!vars)
  OBVIOUS
<1> USE DEF Channel!vars, lockVars, callerVars, threadVars, netVars, exitVars
<1>1. ASSUME NEW t \in Callers, IOTF_send_reply(t)
      PROVE Channel!Next
  <2>1. argument[t] \in Replies
    BY <1>1 DEF IndInv, TypeOK, ArgumentOwned, IOTF_send_reply
  <2>2. Channel!Accept(argument[t])
    BY <1>1 DEF IndInv, ArgumentOwned, IOTF_send_reply, Channel!Accept
  <2> QED
    BY <2>1, <2>2 DEF Channel!Next
<1>2. ASSUME Publish
      PROVE Channel!Send
  <2>1. reply # NoReply
    BY <1>2 DEF IndInv, HandOwned, Publish
  <2>2. /\ Len(published) < Len(accepted)
        /\ reply = accepted[Len(published) + 1]
    BY <2>1 DEF IndInv, TypeOK, Conservation, InHand
  <2> QED
    BY <1>2, <2>2 DEF Publish, Channel!Send
<1>3. ASSUME NEW m, MessageArrived(m) \/ NextHandler(m)
      PROVE UNCHANGED Channel!vars
  BY <1>3 DEF MessageArrived, NextHandler
<1>4. ASSUME NEW t, NEW m, ProgressReport(t, m)
      PROVE UNCHANGED Channel!vars
  BY <1>4 DEF ProgressReport
<1>5. ASSUME NEW t, SendReplyAfterDelete(t)
      PROVE UNCHANGED Channel!vars
  BY <1>5 DEF SendReplyAfterDelete
<1>6. ASSUME NEW how, LeaveWait(how)
      PROVE UNCHANGED Channel!vars
  BY <1>6 DEF LeaveWait
<1>7. ASSUME \/ TestExit \/ EnterWait \/ WaitTimesOut \/ NotifiedButEmpty
             \/ TakeReply \/ CheckConnected \/ Delivered \/ CompletionThrows
      PROVE UNCHANGED Channel!vars
  BY <1>7 DEF TestExit, EnterWait, WaitTimesOut, NotifiedButEmpty, TakeReply,
              CheckConnected, Delivered, CompletionThrows
<1>8. ASSUME \/ CallbackReturns \/ ProcessCommand \/ PubackArrives
             \/ ConnectionLost \/ RequestExit \/ Join \/ DeleteClient
             \/ UNCHANGED vars
      PROVE UNCHANGED Channel!vars
  BY <1>8 DEF CallbackReturns, ProcessCommand, PubackArrives, ConnectionLost,
              RequestExit, Join, DeleteClient, vars
<1> QED
  BY <1>1, <1>2, <1>3, <1>4, <1>5, <1>6, <1>7, <1>8, Zenon
     DEF Next, ReplyThreadStep, CallerStep, DestructorStep, Environment, Finished,
     Expire, SpuriousWakeup, Channel!Next

(* The threaded queue implements the FIFO channel.                         *)
THEOREM Refinement == Spec => ImplementsChannel
<1>1. Init => Channel!Init
  BY DEF Init, Channel!Init
<1> QED
  BY <1>1, StepSimulation, Invariance, PTL DEF Spec, ImplementsChannel, Channel!Spec
=============================================================================
