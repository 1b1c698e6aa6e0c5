------------------------ MODULE FirmwareHandlerProofs ------------------------
(***************************************************************************)
(* Safety of the firmware handler for any set of requests and any bound on *)
(* the reports of a progress thread.                                       *)
(***************************************************************************)
EXTENDS FirmwareHandler, TLAPS

(* The platform is told, or is about to be told, that r is accepted. *)
Accepted(r, k) ==
    \E h \in replies \cup {handling} : h.request = r /\ h.topic = k /\ h.rc = 202

(* A thread that runs works for an accepted request. *)
JobAccepted ==
    \A k \in Kinds : progress[k] = "running" => job[k] \in Requests /\ Accepted(job[k], k)

(* What has been reported was accepted. *)
ReportAccepted ==
    \A k \in Kinds : \A i \in 1..Len(reports[k]) : Accepted(reports[k][i].request, k)

(* A thread that runs has a report left, and has seen no final state; a    *)
(* thread not yet started has reported nothing.                            *)
ReportsLeft ==
    \A k \in Kinds :
        /\ progress[k] = "running" =>
              /\ Len(reports[k]) < MaxReports
              /\ \A i \in 1..Len(reports[k]) : ~Final(k, reports[k][i].state)
        /\ progress[k] = "none" /\ destructor = "live" => reports[k] = <<>>

(* The destructor has joined the threads it has passed. *)
Joined ==
    /\ destructor \in {"update", "gone"} => progress["download"] = "none"
    /\ destructor = "gone" => progress["update"] = "none"

IInv ==
    /\ TypeOK /\ JobAccepted /\ ReportAccepted
    /\ ReportsLeft /\ ReportsEnd /\ Joined

-----------------------------------------------------------------------------

(* Append keeps a sequence over S one, and adds its argument at the end.   *)
LEMMA Appended ==
  ASSUME NEW S, NEW s \in Seq(S), NEW e \in S
  PROVE  /\ Append(s, e) \in Seq(S)
         /\ Len(Append(s, e)) = Len(s) + 1
         /\ \A i \in 1..Len(s) : Append(s, e)[i] = s[i]
         /\ Append(s, e)[Len(s) + 1] = e
  OBVIOUS

(* The initial state has its type. *)
LEMMA InitType == Init => TypeOK
  BY RequestAssumption DEF Init, TypeOK, Idle, Handled, Kinds

(* Every step of the handler keeps the types.                              *)
LEMMA NextType == TypeOK /\ JobAccepted /\ [Next]_vars => TypeOK'
  <1> SUFFICES ASSUME TypeOK, JobAccepted, [Next]_vars PROVE TypeOK'
    OBVIOUS
  <1> USE DEF TypeOK, requestVars, threadVars
  <1>1. ASSUME NEW h \in Handled, MessageArrived(h) PROVE TypeOK'
    <2>1. handling' \in Handled /\ UNCHANGED <<replies, reports, destructor, alive>>
      BY <1>1 DEF MessageArrived, Receive
    <2>2. progress' \in [Kinds -> {"none", "running", "finished"}]
            /\ job' \in [Kinds -> Requests \cup {NoRequest}]
      <3>1. h.request \in Requests
        BY DEF Handled
      <3> QED BY <1>1, <3>1 DEF MessageArrived
    <2> QED BY <2>1, <2>2
  <1>2. ASSUME NEW h \in Handled, AssignJoinable(h) PROVE TypeOK'
    BY <1>2 DEF AssignJoinable, Receive
  <1>3. ASSUME Reply PROVE TypeOK'
    BY <1>3 DEF Reply
  <1>4. ASSUME NEW k \in Kinds, NEW state \in States, Report(k, state) PROVE TypeOK'
    <2>1. [request |-> job[k], state |-> state] \in [request : Requests, state : States]
      BY <1>4 DEF Report, JobAccepted
    <2>2. Append(reports[k], [request |-> job[k], state |-> state])
            \in Seq([request : Requests, state : States])
      BY <2>1, Appended
    <2>3. reports' \in [Kinds -> Seq([request : Requests, state : States])]
      BY <1>4, <2>2 DEF Report
    <2>4. progress' \in [Kinds -> {"none", "running", "finished"}]
      BY <1>4 DEF Report
    <2> QED BY <1>4, <2>3, <2>4 DEF Report
  <1>5. ASSUME NEW k \in Kinds, PureVirtualCall(k) PROVE TypeOK'
    BY <1>5 DEF PureVirtualCall
  <1>6. ASSUME Destroy PROVE TypeOK'
    BY <1>6 DEF Destroy, Kinds
  <1>7. ASSUME Join PROVE TypeOK'
    BY <1>7 DEF Join, NextJoin, Kinds
  <1>8. ASSUME UNCHANGED vars PROVE TypeOK'
    BY <1>8 DEF vars
  <1> QED
    BY <1>1, <1>2, <1>3, <1>4, <1>5, <1>6, <1>7, <1>8 DEF Next, ThreadStep, Finished

(* An accepted request stays accepted: Reply moves it to the replies, and  *)
(* the receive thread takes the next request only after that.              *)
LEMMA AcceptedKept ==
  ASSUME TypeOK, [Next]_vars, NEW r, NEW k, Accepted(r, k)
  PROVE  Accepted(r, k)'
  <1> USE DEF Accepted, requestVars, threadVars
  <1> PICK g \in replies \cup {handling} : g.request = r /\ g.topic = k /\ g.rc = 202
    OBVIOUS
  <1>0. SUFFICES g \in replies' \cup {handling'}
    OBVIOUS
  <1>1. g # Idle
    BY DEF Idle
  <1>2. ASSUME NEW h \in Handled, Receive(h) PROVE g \in replies'
    BY <1>1, <1>2 DEF Receive
  <1>3. CASE Reply
    BY <1>3 DEF Reply
  <1>4. CASE UNCHANGED requestVars
    BY <1>4
  <1>5. (\E h \in Handled : Receive(h)) \/ Reply \/ UNCHANGED requestVars
    BY DEF Next, MessageArrived, AssignJoinable, ThreadStep, Report, PureVirtualCall,
           Destroy, Join, Finished, vars
  <1> QED BY <1>2, <1>3, <1>4, <1>5

(* What a report does to the sequence of its thread. *)
LEMMA ReportAppends ==
  ASSUME TypeOK, JobAccepted, NEW k \in Kinds, NEW state \in States, Report(k, state)
  PROVE  /\ Len(reports[k]) \in Nat
         /\ Len(reports'[k]) = Len(reports[k]) + 1
         /\ \A i \in 1..Len(reports[k]) : reports'[k][i] = reports[k][i]
         /\ reports'[k][Len(reports[k]) + 1] = [request |-> job[k], state |-> state]
         /\ \A j \in Kinds \ {k} : reports'[j] = reports[j] /\ progress'[j] = progress[j]
         /\ progress'[k] = IF Last(k, state) THEN "finished" ELSE "running"
  <1> DEFINE S == [request : Requests, state : States]
             e == [request |-> job[k], state |-> state]
  <1>1. e \in S
    BY DEF Report, JobAccepted
  <1>2. reports \in [Kinds -> Seq(S)] /\ progress \in [Kinds -> {"none", "running", "finished"}]
    BY DEF TypeOK
  <1>3. reports[k] \in Seq(S)
    BY <1>2
  <1>4. reports' = [reports EXCEPT ![k] = Append(reports[k], e)]
    BY DEF Report
  <1>5. reports'[k] = Append(reports[k], e)
          /\ \A j \in Kinds \ {k} : reports'[j] = reports[j]
    BY <1>2, <1>4
  <1>6. /\ progress'[k] = IF Last(k, state) THEN "finished" ELSE "running"
        /\ \A j \in Kinds \ {k} : progress'[j] = progress[j]
    BY <1>2 DEF Report
  <1>7. Len(reports[k]) \in Nat
    BY <1>3
  <1> HIDE DEF e, S
  <1>8. /\ Len(reports'[k]) = Len(reports[k]) + 1
        /\ \A i \in 1..Len(reports[k]) : reports'[k][i] = reports[k][i]
        /\ reports'[k][Len(reports[k]) + 1] = e
    BY <1>1, <1>3, <1>5, Appended
  <1> QED BY <1>5, <1>6, <1>7, <1>8 DEF e

(* Steps other than a report leave the reports alone. *)
LEMMA ReportsKept ==
  ASSUME [Next]_vars, \A k \in Kinds, state \in States : ~Report(k, state)
  PROVE  reports' = reports
  BY DEF Next, MessageArrived, AssignJoinable, Reply, ThreadStep, PureVirtualCall,
         Destroy, Join, Finished, vars, threadVars

(* A thread works for an accepted request: message_arrived starts it for   *)
(* the request it handles, and the reply to it follows.                    *)
LEMMA NextJob == TypeOK /\ JobAccepted /\ [Next]_vars => JobAccepted'
  <1> SUFFICES ASSUME TypeOK, JobAccepted, [Next]_vars,
                      NEW k \in Kinds, progress'[k] = "running"
               PROVE  job'[k] \in Requests /\ Accepted(job[k], k)'
    BY DEF JobAccepted, Accepted
  <1>1. CASE progress[k] = "running" /\ job'[k] = job[k]
    <2>1. Accepted(job[k], k) /\ job[k] \in Requests
      BY <1>1 DEF JobAccepted
    <2>2. \E h \in replies' \cup {handling'} : h.request = job[k] /\ h.topic = k /\ h.rc = 202
      BY <2>1, AcceptedKept DEF Accepted
    <2> QED BY <1>1, <2>1, <2>2 DEF Accepted
  <1>2. ASSUME NEW h \in Handled, MessageArrived(h), Starts(h), h.topic = k
        PROVE  job'[k] \in Requests /\ Accepted(job[k], k)'
    <2>1. job'[k] = h.request /\ handling' = h
      BY <1>2 DEF MessageArrived, Receive, TypeOK
    <2>2. h.request \in Requests /\ h.rc = 202
      BY <1>2 DEF Handled, Starts
    <2> QED BY <1>2, <2>1, <2>2 DEF Accepted
  <1>3. \/ progress[k] = "running" /\ job'[k] = job[k]
        \/ \E h \in Handled : MessageArrived(h) /\ Starts(h) /\ h.topic = k
    <2> USE DEF threadVars, requestVars, TypeOK
    <2>1. ASSUME NEW h \in Handled, MessageArrived(h)
          PROVE (progress[k] = "running" /\ job'[k] = job[k]) \/ (Starts(h) /\ h.topic = k)
      BY <2>1 DEF MessageArrived
    <2>2. ASSUME NEW j \in Kinds, NEW state \in States, Report(j, state)
          PROVE progress[k] = "running" /\ job'[k] = job[k]
      BY <2>2 DEF Report
    <2>3. ASSUME Join PROVE progress[k] = "running" /\ job'[k] = job[k]
      BY <2>3 DEF Join
    <2> QED
      BY <2>1, <2>2, <2>3 DEF Next, AssignJoinable, Reply, ThreadStep, PureVirtualCall,
                              Destroy, Finished, vars
  <1> QED BY <1>1, <1>2, <1>3

(* Reports are made for accepted requests.                                 *)
LEMMA NextReported ==
  TypeOK /\ JobAccepted /\ ReportAccepted /\ [Next]_vars => ReportAccepted'
  <1> SUFFICES ASSUME TypeOK, JobAccepted, ReportAccepted, [Next]_vars,
                      NEW k \in Kinds, NEW i \in 1..Len(reports'[k])
               PROVE  Accepted(reports[k][i].request, k)'
    BY DEF ReportAccepted, Accepted
  <1> SUFFICES ASSUME NEW r, r = reports'[k][i].request
               PROVE  Accepted(r, k)
    BY AcceptedKept DEF Accepted
  <1>1. ASSUME NEW state \in States, Report(k, state) PROVE Accepted(r, k)
    <2>1. CASE i \in 1..Len(reports[k])
      BY <1>1, <2>1, ReportAppends DEF ReportAccepted
    <2>2. CASE i = Len(reports[k]) + 1
      BY <1>1, <2>2, ReportAppends DEF Report, JobAccepted
    <2>3. Len(reports[k]) \in Nat /\ Len(reports'[k]) = Len(reports[k]) + 1
      BY <1>1, ReportAppends
    <2> QED BY <2>1, <2>2, <2>3
  <1>2. ASSUME NEW j \in Kinds \ {k}, NEW state \in States, Report(j, state)
        PROVE  Accepted(r, k)
    <2>1. reports'[k] = reports[k]
      BY <1>2, ReportAppends
    <2> QED BY <2>1 DEF ReportAccepted
  <1>3. CASE reports' = reports
    BY <1>3 DEF ReportAccepted
  <1> QED BY <1>1, <1>2, <1>3, ReportsKept

(* A thread begins with no report, and goes on only below the bound and    *)
(* before a final state.                                                   *)
LEMMA NextLeft ==
  TypeOK /\ JobAccepted /\ ReportsLeft /\ ReportsEnd /\ [Next]_vars
    => ReportsLeft' /\ ReportsEnd'
  <1> SUFFICES ASSUME TypeOK, JobAccepted, ReportsLeft, ReportsEnd, [Next]_vars
               PROVE  ReportsLeft' /\ ReportsEnd'
    OBVIOUS
  <1> DEFINE Left(k) ==
               /\ progress[k] = "running" =>
                     /\ Len(reports[k]) < MaxReports
                     /\ \A i \in 1..Len(reports[k]) : ~Final(k, reports[k][i].state)
               /\ progress[k] = "none" /\ destructor = "live" => reports[k] = <<>>
             End(k) ==
               /\ Len(reports[k]) <= MaxReports
               /\ \A i \in 1..Len(reports[k]) :
                     Final(k, reports[k][i].state) => i = Len(reports[k])
  <1>1. SUFFICES ASSUME NEW k \in Kinds PROVE Left(k)' /\ End(k)'
    BY DEF ReportsLeft, ReportsEnd, Final
  <1>2. Left(k) /\ End(k)
    BY DEF ReportsLeft, ReportsEnd
  <1>3. MaxReports \in Nat /\ MaxReports > 0
    BY ReportsAssumption
  <1>4. ASSUME NEW state \in States, Report(k, state) PROVE Left(k)' /\ End(k)'
    <2> DEFINE n == Len(reports[k])
    <2>1. progress[k] = "running" /\ destructor' = destructor
      BY <1>4 DEF Report
    <2>2. n \in Nat /\ n < MaxReports
      BY <1>2, <1>4, <2>1, ReportAppends
    <2>3. Len(reports'[k]) = n + 1
      BY <1>4, ReportAppends
    <2>4. \A i \in 1..n : ~Final(k, reports'[k][i].state)
      BY <1>2, <1>4, <2>1, ReportAppends
    <2>5. reports'[k][n + 1].state = state
      <3>1. reports'[k][n + 1] = [request |-> job[k], state |-> state]
        BY <1>4, ReportAppends
      <3> QED BY <3>1
    <2>6. progress'[k] = IF Last(k, state) THEN "finished" ELSE "running"
      BY <1>4, ReportAppends
    <2>7. Last(k, state) <=> Final(k, state) \/ n + 1 = MaxReports
      BY DEF Last
    <2> HIDE DEF n
    <2>8. \A i \in 1..(n + 1) : i \in 1..n \/ i = n + 1
      BY <2>2
    <2>9. progress'[k] = "running" =>
             /\ n + 1 < MaxReports
             /\ \A i \in 1..(n + 1) : ~Final(k, reports'[k][i].state)
      BY <1>3, <2>2, <2>4, <2>5, <2>6, <2>7, <2>8
    <2>10. /\ n + 1 <= MaxReports
           /\ \A i \in 1..(n + 1) : Final(k, reports'[k][i].state) => i = n + 1
      BY <1>3, <2>2, <2>4, <2>8
    <2>11. progress'[k] # "none"
      BY <2>6
    <2> QED BY <2>3, <2>9, <2>10, <2>11 DEF Final
  <1>5. ASSUME NEW j \in Kinds \ {k}, NEW state \in States, Report(j, state)
        PROVE  Left(k)' /\ End(k)'
    <2>1. reports'[k] = reports[k] /\ progress'[k] = progress[k]
      BY <1>5, ReportAppends
    <2>2. destructor' = destructor
      BY <1>5 DEF Report
    <2> QED BY <1>2, <2>1, <2>2 DEF Final
  <1>6. ASSUME \A j \in Kinds, state \in States : ~Report(j, state)
        PROVE  Left(k)' /\ End(k)'
    <2>1. reports' = reports
      BY <1>6, ReportsKept
    <2>2. \/ progress'[k] = progress[k] /\ (destructor' = "live" => destructor = "live")
          \/ progress'[k] = "running" /\ progress[k] = "none" /\ destructor = "live"
          \/ progress'[k] = "none" /\ destructor' # "live"
      <3> USE DEF threadVars, requestVars, TypeOK
      <3>1. ASSUME NEW h \in Handled, MessageArrived(h)
            PROVE  \/ progress'[k] = progress[k] /\ destructor' = destructor
                   \/ progress'[k] = "running" /\ progress[k] = "none" /\ destructor = "live"
        BY <3>1 DEF MessageArrived, Receive
      <3>2. ASSUME Join
            PROVE  destructor' # "live" /\ (progress'[k] = progress[k] \/ progress'[k] = "none")
        BY <3>2 DEF Join, NextJoin
      <3>3. ASSUME Destroy PROVE progress'[k] = progress[k] /\ destructor' # "live"
        BY <3>3 DEF Destroy
      <3> QED
        BY <1>6, <3>1, <3>2, <3>3 DEF Next, AssignJoinable, Reply, ThreadStep,
                                      PureVirtualCall, Finished, vars
    <2>3. CASE progress'[k] = progress[k] /\ (destructor' = "live" => destructor = "live")
      BY <1>2, <2>1, <2>3 DEF Final
    <2>4. CASE progress'[k] = "running" /\ progress[k] = "none" /\ destructor = "live"
      <3>1. reports[k] = <<>>
        BY <1>2, <2>4
      <3>2. Len(reports'[k]) = 0
        BY <2>1, <3>1
      <3> QED BY <1>3, <2>4, <3>2
    <2>5. CASE progress'[k] = "none" /\ destructor' # "live"
      BY <1>2, <2>1, <2>5 DEF Final
    <2> QED BY <2>2, <2>3, <2>4, <2>5
  <1> QED BY <1>4, <1>5, <1>6

(* The destructor joins one thread and then the other, and no request      *)
(* starts a thread after it has begun.                                     *)
LEMMA NextJoined == TypeOK /\ Joined /\ [Next]_vars => Joined'
  <1> SUFFICES ASSUME TypeOK, Joined, [Next]_vars PROVE Joined'
    OBVIOUS
  <1> USE DEF Joined, TypeOK, threadVars, requestVars
  <1>1. ASSUME NEW h \in Handled, MessageArrived(h) PROVE Joined'
    BY <1>1 DEF MessageArrived, Receive
  <1>2. ASSUME NEW k \in Kinds, NEW state \in States, Report(k, state) PROVE Joined'
    BY <1>2 DEF Report
  <1>3. ASSUME Destroy PROVE Joined'
    BY <1>3 DEF Destroy
  <1>4. ASSUME Join PROVE Joined'
    BY <1>4 DEF Join, NextJoin, Kinds
  <1> QED
    BY <1>1, <1>2, <1>3, <1>4 DEF Next, AssignJoinable, Reply, ThreadStep,
                                  PureVirtualCall, Finished, vars

(* The inductive invariant holds in every state of the firmware handler.   *)
THEOREM Invariance == Spec => []IInv
  <1>1. Init => IInv
    BY InitType, ReportsAssumption
       DEF Init, IInv, JobAccepted, ReportAccepted, ReportsLeft, ReportsEnd, Joined
  <1>2. IInv /\ [Next]_vars => IInv'
    BY NextType, NextJob, NextReported, NextLeft, NextJoined DEF IInv
  <1> QED BY <1>1, <1>2, PTL DEF Spec

(* Every state has its type, for any set of requests.                      *)
THEOREM TypeCorrect == Spec => []TypeOK
  <1>1. IInv => TypeOK
    BY DEF IInv
  <1> QED BY <1>1, Invariance, PTL

(* check_download_progress and check_update_progress report at most        *)
(* MaxReports times and nothing after a final state, and only on behalf of *)
(* requests that message_arrived has answered with 202.                    *)
THEOREM ReportsSafe == Spec => [](ReportsEnd /\ ReportedWasAccepted)
  <1>1. IInv => ReportsEnd /\ ReportedWasAccepted
    BY DEF IInv, ReportAccepted, Accepted, ReportedWasAccepted
  <1> QED BY <1>1, Invariance, PTL

(* No progress thread is left when ~IOTP_DeviceFirmwareHandler is done.    *)
THEOREM NoThreadLeft == Spec => []NoThreadAfterDestructor
  <1>1. IInv => NoThreadAfterDestructor
    BY DEF IInv, Joined, NoThreadAfterDestructor, Kinds
  <1> QED BY <1>1, Invariance, PTL
=============================================================================
