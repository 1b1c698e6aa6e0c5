---------------------------- MODULE Subscriptions ----------------------------
(***************************************************************************)
(* The connection of an IOTP_Client and its subscriptions: the tables of   *)
(* IOTF_Callback (mSubscriptions, mHandlers) beside the subscriptions that *)
(* the broker really holds for the session.                                *)
(*                                                                         *)
(* An API call of DeviceClient or GatewayClient is a sequence of the base  *)
(* class operations below; `todo' is what is left of the current call.  An *)
(* exception abandons the rest.  Paho's threads answer while the           *)
(* application thread waits on a token.                                    *)
(***************************************************************************)
EXTENDS Naturals, Sequences, Configuration

CONSTANTS
    Topics,         \* topic filters the client subscribes to
    Handlers,       \* message handlers
    nullHandler,    \* a shared_ptr to a handler that holds none
    NoHandler       \* a subscription without a handler

ASSUME HandlerAssumption == NoHandler \notin Handlers
ASSUME TopicsAssumption == Topics # {} /\ NoHandler \notin Topics

(* The base class operations. *)
Operations ==
    [op : {"connect", "disconnect", "deviceInfo", "await", "notify", "setCommandHandler"}]
    \cup [op : {"subscribe", "unsubscribe"}, topic : Topics]
    \cup [op : {"subscribe"}, topic : Topics, handler : Handlers]

Connect == [op |-> "connect"]
Disconnect == [op |-> "disconnect"]
DeviceInfo == [op |-> "deviceInfo"]
SetCommandHandler == [op |-> "setCommandHandler"]
Await == [op |-> "await"]       \* send_message, then wait_for_response
Notify == [op |-> "notify"]     \* send_message alone
SubscribeTopic(t) == [op |-> "subscribe", topic |-> t]
SubscribeHandler(t, h) == [op |-> "subscribe", topic |-> t, handler |-> h]
Unsubscribe(t) == [op |-> "unsubscribe", topic |-> t]

(* What message_arrived has done so far with a message: whether it is a    *)
(* JSON object (or null), other JSON or none, the handlers called, and how *)
(* many replies they have queued.                                          *)
Messages ==
    [topic : Topics, json : {"object", "other", "none"}, called : SUBSET Handlers, replies : 0 .. 2]

VARIABLES
    todo,               \* operations left in the current API call
    wire,               \* what the application thread waits for; "never" is
                        \* a callback that nobody makes
    connected,          \* the session is up
    broker,             \* topics the broker holds for the session
    pasync_client,      \* InitializeMqttClient has set this pointer
    listener,           \* IOTF_ActionCallback::mSuccess of the connect
    orphan,             \* token of a connect that is over, with its listener
                        \* to be called: "none", "open", "old" (complete, or
                        \* of an earlier client); "late" when the session came
                        \* up and nobody waited for it
    callback_ptr,       \* "null", "current", or "stale": of an earlier client
    mSubscriptions,     \* how often each topic is in mSubscriptions
    mHandlers,          \* the pairs in mHandlers
    user_callback,      \* a command callback is set in IOTF_Callback
    mClient,            \* handlers whose mClient is set
    arriving,           \* the message in IOTF_Callback::message_arrived, if any
    dropped,            \* history: topics unsubscribed from in this session
    returned,           \* the last operation, and what it returned
    alive,              \* the process has not crashed
    mProperties,        \* what the code asks of IOTP_Client::mProperties
    constructor         \* the constructor of the client: a file, properties,
                        \* device data too, handlers as well, or a file
                        \* that was refused

tableVars == <<callback_ptr, mSubscriptions, mHandlers, user_callback, mClient>>
sessionVars == <<connected, broker, dropped>>
connectVars == <<pasync_client, listener, orphan>>
configVars == <<mProperties, constructor>>
vars == <<todo, wire, sessionVars, connectVars, tableVars, returned, alive, configVars, arriving>>

Constructors == {"file", "refused", "properties", "data", "handlers"}

(* Properties come from the application or from a file.  A file that is    *)
(* refused leaves a client all the same, with the properties that were     *)
(* read and without a response handler.  `usable' is what its              *)
(* InitializeMqttClient accepts.                                           *)
Constructed(usable) ==
    \/ /\ constructor \in {"properties", "data", "handlers"}
       /\ \E properties \in Properties : mProperties = Judged(properties, usable)
    \/ \E file \in Files :
          /\ ~PortThrows(file)
          /\ mProperties = Judged(PropertiesOf(file), usable)
          /\ constructor = IF InitializePropertiesFromFile(file) THEN "file" ELSE "refused"

NoOperation == [operation |-> [op |-> "none"], rc |-> FALSE]

Init(usable) ==
    /\ todo = <<>>
    /\ wire = "idle"
    /\ connected = FALSE
    /\ broker = {}
    /\ dropped = {}
    /\ pasync_client = FALSE
    /\ listener = FALSE
    /\ callback_ptr = "null"
    /\ mSubscriptions = [t \in Topics |-> 0]
    /\ mHandlers = {}
    /\ user_callback = FALSE
    /\ mClient = {}
    /\ arriving = <<>>
    /\ orphan = "none"
    /\ returned = NoOperation
    /\ alive = TRUE
    /\ Constructed(usable)

-----------------------------------------------------------------------------
(* Control of the application thread *)

Running(op) == alive /\ todo # <<>> /\ Head(todo).op = op
Topic == Head(todo).topic
Handler == IF "handler" \in DOMAIN Head(todo) THEN Head(todo).handler ELSE NoHandler

(* Mutants: it looks in both tables; it does not compare the handler. *)
check_subscription_EitherTable ==
    IF Handler = NoHandler
    THEN mSubscriptions[Topic] > 0 \/ \E h \in Handlers : <<Topic, h>> \in mHandlers
    ELSE <<Topic, Handler>> \in mHandlers

check_subscription_TopicOnly == mSubscriptions[Topic] > 0

(* check_subscription, with or without a handler. *)
check_subscription ==
    IF Handler = NoHandler
    THEN mSubscriptions[Topic] > 0
    ELSE <<Topic, Handler>> \in mHandlers

Done(result) ==
    /\ todo' = Tail(todo)
    /\ returned' = [operation |-> Head(todo), rc |-> result]
    /\ UNCHANGED alive

(* The call returns false without its other operations. *)
GiveUp ==
    /\ todo' = <<>>
    /\ returned' = [operation |-> Head(todo), rc |-> FALSE]
    /\ UNCHANGED alive

Throw ==
    /\ todo' = <<>>
    /\ returned' = NoOperation
    /\ UNCHANGED alive

(* A pointer that is null or not initialised is followed. *)
Crash ==
    /\ alive' = FALSE
    /\ UNCHANGED <<todo, returned>>

Begin(program) ==
    /\ alive
    /\ todo = <<>>
    /\ todo' = program
    /\ returned' = NoOperation
    /\ UNCHANGED <<wire, sessionVars, connectVars, tableVars, alive, configVars, arriving>>

-----------------------------------------------------------------------------
(* connect *)

(* The receive thread runs the callbacks of the client with mqttasync_mutex *)
(* held: no other step of Paho, and no call of it, gets through meanwhile.  *)
PahoFree == arriving = <<>>

(* InitializeMqttClient makes a new async_client, so a callback that is    *)
(* there belongs to another one, and so does the session of a connect that *)
(* was given up; then the CONNECT is sent.                                 *)
ConnectBegins ==
    /\ Running("connect")
    /\ wire = "idle"
    /\ PahoFree
    /\ wire' = "connecting"
    /\ pasync_client' = TRUE
    /\ listener' = FALSE
    /\ orphan' = IF orphan \in {"none", "late"} THEN "none" ELSE "old"
    /\ connected' = FALSE
    /\ broker' = {}
    /\ callback_ptr' = IF callback_ptr = "null" THEN "null" ELSE "stale"
    /\ UNCHANGED <<todo, dropped, mSubscriptions, mHandlers, user_callback, mClient, returned,
                   alive, configVars, arriving>>

(* token::on_success sets complete_ and releases the lock of the token.    *)
(* The session is clean.                                                   *)
ConnackCompletes ==
    /\ alive
    /\ wire = "connecting"
    /\ PahoFree
    /\ wire' = "complete"
    /\ connected' = TRUE
    /\ broker' = {}
    /\ dropped' = {}
    /\ UNCHANGED <<todo, connectVars, tableVars, returned, alive, configVars, arriving>>

(* Then it calls the listener, before it signals the token. *)
ListenerRuns ==
    /\ alive
    /\ wire = "complete"
    /\ ~listener
    /\ listener' = TRUE
    /\ UNCHANGED <<todo, wire, pasync_client, orphan, sessionVars, tableVars, returned, alive,
                   configVars, arriving>>

Installed ==
    /\ callback_ptr' = "current"
    /\ mSubscriptions' = [t \in Topics |-> 0]
    /\ mHandlers' = {}
    /\ user_callback' = FALSE

(* Mutant: the callback of the session before is used again. *)
ConnectReturns_SameCallback ==
    /\ Running("connect")
    /\ wire = "complete"
    /\ wire' = "idle"
    /\ callback_ptr' = IF listener THEN "current" ELSE callback_ptr
    /\ orphan' = IF listener THEN orphan ELSE "old"
    /\ IF mProperties.auth THEN Done(TRUE) ELSE GiveUp
    /\ UNCHANGED <<sessionVars, pasync_client, listener, mSubscriptions, mHandlers,
                   user_callback, mClient, configVars, arriving>>

(* wait_for_completion sees complete_.  The callback is installed if the   *)
(* listener has run; a new IOTF_Callback has empty tables and no command   *)
(* callback.  A listener that has not run yet will be called when it is    *)
(* gone.  With an unsupported authentication method connect returns false  *)
(* even so.                                                                *)
ConnectReturns ==
    /\ Running("connect")
    /\ wire = "complete"
    /\ wire' = "idle"
    /\ IF listener THEN Installed
       ELSE UNCHANGED <<callback_ptr, mSubscriptions, mHandlers, user_callback>>
    /\ orphan' = IF listener THEN orphan ELSE "old"
    /\ IF mProperties.auth THEN Done(TRUE) ELSE GiveUp
    /\ UNCHANGED <<sessionVars, pasync_client, listener, mClient, configVars, arriving>>

(* The broker refuses, or the token is not complete after ten seconds and  *)
(* stays with the async_client.                                            *)
ConnectThrows ==
    /\ Running("connect")
    /\ wire = "connecting"
    /\ wire' = "idle"
    /\ orphan' \in {orphan, "open"}
    /\ Throw
    /\ UNCHANGED <<pasync_client, listener, sessionVars, tableVars, configVars, arriving>>

(* The CONNACK of a connect that was given up, or its refusal. *)
LateAnswer ==
    \/ /\ orphan = "open"
       /\ orphan' = "late"
       /\ connected' = TRUE
       /\ broker' = {}
       /\ dropped' = {}
    \/ /\ orphan \in {"open", "old"}
       /\ orphan' = "none"
       /\ UNCHANGED sessionVars

(* The listener of a connect that is over was a local variable of it: the  *)
(* call does nothing that is seen, sets the flag of a connect that runs in *)
(* the same place on the stack, or ends the process.                       *)
OrphanedListenerRuns ==
    /\ alive
    /\ PahoFree
    /\ LateAnswer
    /\ alive' \in BOOLEAN
    /\ listener' \in IF Running("connect") /\ wire # "idle" THEN {listener, TRUE} ELSE {listener}
    /\ UNCHANGED <<todo, wire, pasync_client, tableVars, returned, configVars, arriving>>

-----------------------------------------------------------------------------
(* subscribeTopic and subscribeCommandHandler; unsubscribeCommands *)

(* Both look at the tables first. *)
NullCallback ==
    /\ Running("subscribe") \/ Running("unsubscribe")
    /\ callback_ptr = "null"
    /\ Crash
    /\ UNCHANGED <<wire, sessionVars, connectVars, tableVars, configVars, arriving>>

NothingToDo ==
    /\ \/ Running("subscribe") /\ check_subscription /\ Done(TRUE)
       \/ Running("unsubscribe") /\ ~check_subscription /\ Done(FALSE)
    /\ wire = "idle"
    /\ callback_ptr # "null"
    /\ UNCHANGED <<wire, sessionVars, connectVars, tableVars, configVars, arriving>>

Needed ==
    /\ \/ Running("subscribe") /\ ~check_subscription
       \/ Running("unsubscribe") /\ check_subscription
    /\ wire = "idle"
    /\ callback_ptr # "null"

(* async_client::subscribe and unsubscribe throw without a connection. *)
RequestRefused ==
    /\ Needed
    /\ ~connected
    /\ Throw
    /\ UNCHANGED <<wire, sessionVars, connectVars, tableVars, configVars, arriving>>

RequestSent ==
    /\ Needed
    /\ PahoFree
    /\ connected
    /\ wire' = "requested"
    /\ dropped' = IF Head(todo).op = "unsubscribe" THEN dropped \cup {Topic} ELSE dropped
    /\ UNCHANGED <<todo, connected, broker, connectVars, tableVars, returned, alive, configVars, arriving>>

Applied == IF Head(todo).op = "subscribe" THEN broker \cup {Topic} ELSE broker \ {Topic}

(* The broker has done it, and its acknowledgement completes the token. *)
RequestAcknowledged ==
    /\ alive
    /\ wire = "requested"
    /\ connected
    /\ PahoFree
    /\ wire' = "acknowledged"
    /\ broker' = Applied
    /\ UNCHANGED <<todo, connected, dropped, connectVars, tableVars, returned, alive, configVars, arriving>>

(* Mutant: wait_for_completion without a deadline. *)
RequestThrows_NoDeadline ==
    /\ wire = "requested"
    /\ ~connected
    /\ wire' = "idle"
    /\ Throw
    /\ UNCHANGED <<sessionVars, connectVars, tableVars, configVars, arriving>>

(* The request or its acknowledgement is lost, or the broker refuses. *)
RequestThrows ==
    /\ wire = "requested"
    /\ wire' = "idle"
    /\ broker' \in {broker} \cup IF connected THEN {Applied} ELSE {}
    /\ Throw
    /\ UNCHANGED <<connected, dropped, connectVars, tableVars, configVars, arriving>>

(* IOTF_Callback::add_subscription, with or without a handler. *)
add_subscription ==
    /\ mSubscriptions' = [mSubscriptions EXCEPT ![Topic] = @ + 1]
    /\ mHandlers' = IF Handler = NoHandler
                    THEN mHandlers
                    ELSE mHandlers \cup {<<Topic, Handler>>}

SubscribeReturns ==
    /\ Running("subscribe")
    /\ wire = "acknowledged"
    /\ Handler = NoHandler
    /\ wire' = "idle"
    /\ add_subscription
    /\ Done(TRUE)
    /\ UNCHANGED <<sessionVars, connectVars, callback_ptr, user_callback, mClient, configVars,
                   arriving>>

(* subscribeCommandHandler inserts the handler while the receive thread    *)
(* may walk the same multimap: a data race, which may end the process.     *)
HandlerInserted ==
    /\ Running("subscribe")
    /\ wire = "acknowledged"
    /\ Handler # NoHandler
    /\ wire' = "inserted"
    /\ add_subscription
    /\ alive' \in {TRUE, PahoFree}
    /\ UNCHANGED <<todo, returned, sessionVars, connectVars, callback_ptr, user_callback, mClient,
                   configVars, arriving>>

(* Then it tells the handler its client, through the pointer. *)
HandlerReturns ==
    /\ Running("subscribe")
    /\ wire = "inserted"
    /\ wire' = "idle"
    /\ IF Handler = nullHandler
       THEN Crash /\ UNCHANGED mClient
       ELSE Done(TRUE) /\ mClient' = mClient \cup {Handler}
    /\ UNCHANGED <<sessionVars, connectVars, callback_ptr, mSubscriptions, mHandlers,
                   user_callback, configVars, arriving>>

(* Mutant: the topic stays in the table. *)
UnsubscribeReturns_Kept ==
    /\ Running("unsubscribe")
    /\ wire = "acknowledged"
    /\ wire' = "idle"
    /\ Done(TRUE)
    /\ UNCHANGED <<sessionVars, connectVars, tableVars, configVars, arriving>>

(* remove_subscription(topic): mHandlers keeps its pairs. *)
UnsubscribeReturns ==
    /\ Running("unsubscribe")
    /\ wire = "acknowledged"
    /\ wire' = "idle"
    /\ mSubscriptions' = [mSubscriptions EXCEPT ![Topic] = @ - 1]
    /\ Done(TRUE)
    /\ UNCHANGED <<sessionVars, connectVars, callback_ptr, mHandlers, user_callback, mClient,
                   configVars, arriving>>

-----------------------------------------------------------------------------
(* send_message with and without the wait; disconnect *)

(* Without a connect pasync_client is not initialised, and is followed; so *)
(* is mDeviceData, which only some of the constructors set.                *)
WildPointer ==
    /\ \/ Running("notify") /\ ~pasync_client
       \/ Running("disconnect") /\ ~pasync_client
       \/ Running("deviceInfo")
       \/ Running("setCommandHandler") /\ callback_ptr = "null"
    /\ Crash
    /\ UNCHANGED <<wire, sessionVars, connectVars, tableVars, configVars, arriving>>

SendThrows ==
    /\ Running("await") \/ Running("notify")
    /\ pasync_client
    /\ Throw
    /\ UNCHANGED <<wire, sessionVars, connectVars, tableVars, configVars, arriving>>

NotifySent ==
    /\ Running("notify")
    /\ connected
    /\ Done(TRUE)
    /\ UNCHANGED <<wire, sessionVars, connectVars, tableVars, configVars, arriving>>

(* The answer can arrive only on a subscribed topic with the callback of   *)
(* this client; manage goes on after rc 200.                               *)
AnswerAccepted(response) ==
    /\ Running("await")
    /\ connected
    /\ response \in broker
    /\ callback_ptr = "current"
    /\ Done(TRUE)
    /\ UNCHANGED <<wire, sessionVars, connectVars, tableVars, configVars, arriving>>

(* Refused, late or never: manage returns false. *)
AnswerRefused ==
    /\ Running("await")
    /\ connected
    /\ GiveUp
    /\ UNCHANGED <<wire, sessionVars, connectVars, tableVars, configVars, arriving>>

(* setCommandHandler: the pointer goes into the IOTF_Callback that is      *)
(* there.                                                                  *)
CommandHandlerSet ==
    /\ Running("setCommandHandler")
    /\ callback_ptr # "null"
    /\ user_callback' = TRUE
    /\ Done(TRUE)
    /\ UNCHANGED <<wire, sessionVars, connectVars, callback_ptr, mSubscriptions, mHandlers, mClient,
                   arriving, configVars>>

DisconnectSent ==
    /\ Running("disconnect")
    /\ wire = "idle"
    /\ connected
    /\ wire' = "disconnecting"
    /\ UNCHANGED <<todo, sessionVars, connectVars, tableVars, returned, alive, configVars, arriving>>

(* Paho's send thread ends the session and calls the token.                *)
DisconnectReturns ==
    /\ Running("disconnect")
    /\ wire = "disconnecting"
    /\ connected
    /\ PahoFree
    /\ wire' = "idle"
    /\ connected' = FALSE
    /\ broker' = {}
    /\ Done(TRUE)
    /\ UNCHANGED <<dropped, connectVars, tableVars, configVars, arriving>>

(* Without a session it is refused; and when the session goes before the   *)
(* DISCONNECT is processed the token may be told of the failure.           *)
DisconnectThrows ==
    /\ Running("disconnect")
    /\ wire \in {"idle", "disconnecting"}
    /\ pasync_client
    /\ ~connected
    /\ wire' = "idle"
    /\ Throw
    /\ UNCHANGED <<sessionVars, connectVars, tableVars, configVars, arriving>>

(* Or the DISCONNECT is processed in a session that is closed already, and *)
(* nobody calls its token: disconnect waits for that without a deadline.   *)
DisconnectDropped ==
    /\ alive
    /\ wire = "disconnecting"
    /\ ~connected
    /\ wire' = "never"
    /\ UNCHANGED <<todo, sessionVars, connectVars, tableVars, returned, alive, configVars, arriving>>

(* IOTF_Callback::connection_lost only logs. *)
ConnectionLost ==
    /\ alive
    /\ connected
    /\ PahoFree
    /\ connected' = FALSE
    /\ broker' = {}
    /\ UNCHANGED <<todo, wire, dropped, connectVars, tableVars, returned, alive, configVars, arriving>>

-----------------------------------------------------------------------------

PahoStep ==
    \/ ConnackCompletes \/ ListenerRuns \/ OrphanedListenerRuns
    \/ RequestAcknowledged \/ DisconnectDropped

ApplicationStep(response) ==
    \/ ConnectBegins \/ ConnectReturns \/ ConnectThrows
    \/ NullCallback \/ NothingToDo \/ RequestRefused \/ RequestSent
    \/ RequestThrows \/ SubscribeReturns \/ HandlerInserted \/ HandlerReturns \/ UnsubscribeReturns
    \/ WildPointer \/ SendThrows \/ NotifySent \/ AnswerAccepted(response) \/ AnswerRefused
    \/ CommandHandlerSet \/ DisconnectSent \/ DisconnectReturns \/ DisconnectThrows

-----------------------------------------------------------------------------
(* Properties that both kinds of client share *)

(* Every variable of the connection and its tables stays within the values *)
(* the code can give it.                                                   *)
TypeOK ==
    /\ todo \in Seq(Operations)
    /\ wire \in {"idle", "connecting", "complete", "requested", "acknowledged", "inserted",
                "disconnecting", "never"}
    /\ connected \in BOOLEAN
    /\ broker \subseteq Topics
    /\ dropped \subseteq Topics
    /\ pasync_client \in BOOLEAN
    /\ listener \in BOOLEAN
    /\ callback_ptr \in {"null", "current", "stale"}
    /\ mSubscriptions \in [Topics -> Nat]
    /\ mHandlers \subseteq Topics \X Handlers
    /\ user_callback \in BOOLEAN
    /\ mClient \subseteq Handlers
    /\ arriving \in Seq(Messages)
    /\ orphan \in {"none", "open", "old", "late"}
    /\ returned \in [operation : Operations \cup {[op |-> "none"]}, rc : BOOLEAN]
    /\ alive \in BOOLEAN
    /\ mProperties \in [{"initializes", "quickstart", "auth"} -> BOOLEAN]
    /\ constructor \in Constructors

(* A topic that the tables list is held by the broker, unless the client   *)
(* has asked the broker to drop it: check_subscription may be trusted      *)
(* until the first unsubscribe of the session.                             *)
ListedIsSubscribed ==
    callback_ptr = "current" /\ connected =>
        \A t \in Topics :
            mSubscriptions[t] > 0 => t \in broker \/ t \in dropped

(* Every API call ends, by returning, by throwing or with the process,     *)
(* however long the broker is silent: each wait has a deadline, but the    *)
(* one of disconnect.  A disconnect whose DISCONNECT is dropped because    *)
(* the session was closed before it was processed never ends.              *)
CallEnds == todo # <<>> ~> (todo = <<>> \/ ~alive \/ wire = "never")
=============================================================================
