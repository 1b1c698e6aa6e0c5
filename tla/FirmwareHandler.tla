-------------------------- MODULE FirmwareHandler --------------------------
(***************************************************************************)
(* IOTP_DeviceFirmwareHandler: firmware requests of the platform, which    *)
(* the Paho receive thread hands over one at a time, and the two threads   *)
(* that report the progress of a download and of an update.  The derived   *)
(* class that the application supplies decides on return codes and states. *)
(* The handler is subscribed, so mClient is set; the way of a message from *)
(* IOTF_send_reply on is the subject of module ReplyQueue.                 *)
(***************************************************************************)
EXTENDS Naturals, Sequences

CONSTANTS
    Requests,       \* requests of the platform
    NoRequest,      \* the receive thread handles none
    MaxReports      \* reports of one progress thread, 10 in the code

ASSUME RequestAssumption == NoRequest \notin Requests
ASSUME ReportsAssumption == MaxReports \in Nat \ {0}

Kinds == {"download", "update"}                     \* they have a thread
Topics == Kinds \cup {"verify", "observe", "cancel"}
Codes == {200, 202, 500}

(* mgmt.firmware.state of a download, updateStatus of an update: idle or   *)
(* success, in progress, done or failed.                                   *)
States == {0, 1, 2}

VARIABLES
    handling,       \* the request in message_arrived, its topic and rc
    replies,        \* history: requests answered, with their topic and rc
    progress,       \* "none", "running" or "finished": joinable unless none
    job,            \* history: the request that started each thread
    reports,        \* history: what each thread has reported
    destructor,     \* where ~IOTP_DeviceFirmwareHandler is
    alive           \* std::terminate has not been called

requestVars == <<handling, replies>>
threadVars == <<progress, job, reports>>
vars == <<requestVars, threadVars, destructor, alive>>

Idle == [request |-> NoRequest, topic |-> "cancel", rc |-> 200]
Handled == [request : Requests, topic : Topics, rc : Codes]

Init ==
    /\ handling = Idle
    /\ replies = {}
    /\ progress = [k \in Kinds |-> "none"]
    /\ job = [k \in Kinds |-> NoRequest]
    /\ reports = [k \in Kinds |-> <<>>]
    /\ destructor = "live"
    /\ alive = TRUE

-----------------------------------------------------------------------------
(* message_arrived, on the receive thread *)

Starts(h) == h.rc = 202 /\ h.topic \in Kinds

(* The derived class answers; cancel is always accepted. *)
Receive(h) ==
    /\ alive
    /\ destructor = "live"
    /\ handling = Idle
    /\ \A done \in replies : done.request # h.request
    /\ h.topic = "cancel" => h.rc = 200
    /\ handling' = h
    /\ UNCHANGED replies

(* No thread is needed, or the one of this kind is started. *)
MessageArrived(h) ==
    /\ Receive(h)
    /\ IF Starts(h)
       THEN /\ progress[h.topic] = "none"
            /\ progress' = [progress EXCEPT ![h.topic] = "running"]
            /\ job' = [job EXCEPT ![h.topic] = h.request]
       ELSE UNCHANGED <<progress, job>>
    /\ UNCHANGED <<reports, destructor, alive>>

(* The thread object is joinable, its thread finished or not: assigning    *)
(* to it ends the process.                                                 *)
AssignJoinable(h) ==
    /\ Receive(h)
    /\ Starts(h)
    /\ progress[h.topic] # "none"
    /\ alive' = FALSE
    /\ UNCHANGED <<threadVars, destructor>>

(* Mutant: a reply is queued without a request. *)
Reply_Unasked ==
    /\ alive
    /\ replies' = replies \cup {handling}
    /\ handling' = Idle
    /\ UNCHANGED <<threadVars, destructor, alive>>

(* The reply goes to the queue. *)
Reply ==
    /\ alive
    /\ handling # Idle
    /\ replies' = replies \cup {handling}
    /\ handling' = Idle
    /\ UNCHANGED <<threadVars, destructor, alive>>

-----------------------------------------------------------------------------
(* check_download_progress and check_update_progress *)

Final(k, state) == IF k = "download" THEN state = 2 ELSE state # 1

(* Mutant: no break on a final state. *)
Last_NoBreak(k, state) == Len(reports[k]) + 1 = MaxReports

Last(k, state) == Final(k, state) \/ Len(reports[k]) + 1 = MaxReports

(* The thread sleeps, asks the derived class for the state, and reports. *)
Report(k, state) ==
    /\ alive
    /\ progress[k] = "running"
    /\ destructor = "live"
    /\ reports' = [reports EXCEPT ![k] =
                      Append(@, [request |-> job[k], state |-> state])]
    /\ progress' = [progress EXCEPT ![k] =
                      IF Last(k, state) THEN "finished" ELSE "running"]
    /\ UNCHANGED <<requestVars, job, destructor, alive>>

(* Mutant: the thread skips its report, and does not count it. *)
PureVirtualCall_Skipped(k) ==
    /\ alive
    /\ progress[k] = "running"
    /\ destructor # "live"
    /\ UNCHANGED vars

(* The derived class is gone when the base class waits in its destructor:  *)
(* the call of the pure virtual function ends the process.                 *)
PureVirtualCall(k) ==
    /\ alive
    /\ progress[k] = "running"
    /\ destructor # "live"
    /\ alive' = FALSE
    /\ UNCHANGED <<requestVars, threadVars, destructor>>

-----------------------------------------------------------------------------
(* ~IOTP_DeviceFirmwareHandler *)

Destroy ==
    /\ alive
    /\ destructor = "live"
    /\ handling = Idle
    /\ destructor' = "download"
    /\ UNCHANGED <<requestVars, threadVars, alive>>

NextJoin == IF destructor = "download" THEN "update" ELSE "gone"

(* Mutant: detach. *)
Join_Detach ==
    /\ alive
    /\ destructor \in Kinds
    /\ destructor' = NextJoin
    /\ UNCHANGED <<requestVars, threadVars, alive>>

(* if joinable, join: first mDownloadProgress, then mUpdateProgress. *)
Join ==
    /\ alive
    /\ destructor \in Kinds
    /\ progress[destructor] # "running"
    /\ progress' = [progress EXCEPT ![destructor] = "none"]
    /\ destructor' = NextJoin
    /\ UNCHANGED <<requestVars, job, reports, alive>>

-----------------------------------------------------------------------------

ThreadStep(k) == PureVirtualCall(k) \/ \E state \in States : Report(k, state)

Finished == (~alive \/ destructor = "gone") /\ UNCHANGED vars

Next ==
    \/ \E h \in Handled : MessageArrived(h) \/ AssignJoinable(h)
    \/ Reply
    \/ \E k \in Kinds : ThreadStep(k)
    \/ Destroy
    \/ Join
    \/ Finished

Spec == Init /\ [][Next]_vars

(* Every thread keeps running and its sleeps end.  Requests and the end of *)
(* the handler are not promised.                                           *)
FairSpec ==
    /\ Spec
    /\ WF_vars(Reply)
    /\ WF_vars(Join)
    /\ \A k \in Kinds : WF_vars(ThreadStep(k))

-----------------------------------------------------------------------------
(* Properties *)

(* Every variable of the handler stays within the values the code can give *)
(* it.                                                                     *)
TypeOK ==
    /\ handling \in Handled \cup {Idle}
    /\ replies \subseteq Handled
    /\ progress \in [Kinds -> {"none", "running", "finished"}]
    /\ job \in [Kinds -> Requests \cup {NoRequest}]
    /\ reports \in [Kinds -> Seq([request : Requests, state : States])]
    /\ destructor \in {"live", "gone"} \cup Kinds
    /\ alive \in BOOLEAN

(* A thread reports at most MaxReports times, and nothing after a state    *)
(* that ends the download or the update.                                   *)
ReportsEnd ==
    \A k \in Kinds :
        /\ Len(reports[k]) <= MaxReports
        /\ \A i \in 1..Len(reports[k]) :
              Final(k, reports[k][i].state) => i = Len(reports[k])

(* Progress is reported only for a request that the platform was told, or  *)
(* is about to be told, has been accepted with 202.                        *)
ReportedWasAccepted ==
    \A k \in Kinds : \A i \in 1..Len(reports[k]) :
        \E h \in replies \cup {handling} :
            h.request = reports[k][i].request /\ h.topic = k /\ h.rc = 202

(* No progress thread uses the handler after its destructor.               *)
NoThreadAfterDestructor ==
    destructor = "gone" => \A k \in Kinds : progress[k] = "none"

(* A progress thread ends, by its final state, by the bound of its loop or *)
(* with the process.                                                       *)
ProgressEnds ==
    \A k \in Kinds : progress[k] = "running" ~> (progress[k] # "running" \/ ~alive)

(* A download or an update that the derived class accepts with 202 is      *)
(* reported to the platform while the handler exists.                      *)
AcceptedIsReported ==
    \A r \in Requests, k \in Kinds :
        (handling = [request |-> r, topic |-> k, rc |-> 202]) ~>
            (destructor # "live"
             \/ \E i \in 1..Len(reports[k]) : reports[k][i].request = r)
=============================================================================
