---------------------------- MODULE GatewayClient ----------------------------
(***************************************************************************)
(* IOTP_GatewayClient: connect, subscribeDeviceCommands and disconnect as  *)
(* programs of base class operations.                                      *)
(***************************************************************************)
EXTENDS Dispatch

(* The topic filters are those of commands, for the gateway itself and for *)
(* the devices behind it.  subscribeDeviceCommands takes any type and id,  *)
(* those of the gateway too.                                               *)
gatewayTopic == CHOOSE t \in Topics : TRUE
NoTopic == NoHandler        \* the empty string

VARIABLES
    gatewayCMDTopic,    \* IOTP_GatewayClient::gatewayCMDTopic
    deviceCMDTopic      \* IOTP_GatewayClient::deviceCMDTopic

gatewayVars == <<vars, gatewayCMDTopic, deviceCMDTopic>>

GatewayInit ==
    /\ Init(GatewayInitializes)
    /\ constructor \in {"file", "refused", "properties"}
    /\ gatewayCMDTopic = NoTopic
    /\ deviceCMDTopic = NoTopic

(* subscribeGatewayCommands sets the topic; only disconnect reads it. *)
connect ==
    /\ ~connected \/ orphan = "late"
    /\ Begin(IF mProperties.initializes
             THEN <<Connect, SubscribeTopic(gatewayTopic)>>
             ELSE <<>>)
    /\ UNCHANGED <<gatewayCMDTopic, deviceCMDTopic>>

(* The topic is remembered in place of the one of the device before. *)
subscribeDeviceCommands(t) ==
    /\ Begin(<<SubscribeTopic(t)>>)
    /\ deviceCMDTopic' = t
    /\ UNCHANGED gatewayCMDTopic

(* The command callback goes into the IOTF_Callback of the moment. *)
setCommandHandler ==
    /\ Begin(<<SetCommandHandler>>)
    /\ UNCHANGED <<gatewayCMDTopic, deviceCMDTopic>>

UnsubscribeIfSet(t) == IF t = NoTopic THEN <<>> ELSE <<Unsubscribe(t)>>

disconnect ==
    /\ Begin(UnsubscribeIfSet(gatewayCMDTopic) \o UnsubscribeIfSet(deviceCMDTopic)
                \o <<Disconnect>>)
    /\ UNCHANGED <<gatewayCMDTopic, deviceCMDTopic>>

(* connect reaches subscribeGatewayCommands when the base class connect    *)
(* returns true.                                                           *)
Step ==
    /\ ApplicationStep(NoTopic) \/ PahoStep \/ DispatchStep \/ ConnectionLost
    /\ gatewayCMDTopic' = IF todo # <<>> /\ Head(todo) = Connect /\ todo' = Tail(todo)
                          THEN gatewayTopic
                          ELSE gatewayCMDTopic
    /\ UNCHANGED deviceCMDTopic

Next ==
    \/ connect
    \/ \E t \in Topics : subscribeDeviceCommands(t)
    \/ setCommandHandler
    \/ disconnect
    \/ Step

Spec == GatewayInit /\ [][Next]_gatewayVars

-----------------------------------------------------------------------------

(* When disconnect has returned no subscription to commands is left: it    *)
(* "removes any command related subsriptions", says IOTP_GatewayClient.h.  *)
(* It does not: the topic of a device takes the place of the topic that    *)
(* was subscribed to before it.                                            *)
DisconnectRemovesCommands ==
    returned.operation = Disconnect => \A t \in Topics : mSubscriptions[t] = 0

(* What is true of it: the two subscriptions that disconnect remembers,    *)
(* the gateway's and that of the last device, are gone by then.            *)
RememberedRemoved ==
    [][todo # <<>> /\ Head(todo) = Disconnect /\ connected /\ ~connected'
          => \A t \in {gatewayCMDTopic, deviceCMDTopic} \ {NoTopic} :
                mSubscriptions[t] = 0]_gatewayVars
=============================================================================
