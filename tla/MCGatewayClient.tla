--------------------------- MODULE MCGatewayClient ---------------------------
(* A gateway and two devices behind it, each with its command topic. *)
EXTENDS GatewayClient

MCTopics == {"gateway", "device1", "device2"}
MCHandlers == {}
=============================================================================
