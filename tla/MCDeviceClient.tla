--------------------------- MODULE MCDeviceClient ---------------------------
(* The topics and handlers of a managed device: one topic for each handler *)
(* that replies, and one that two handlers share.                          *)
EXTENDS DeviceClient

MCTopics == {"command", "response", "update", "reboot"}
MCHandlers == {"responseHandler", "firmwareHandler", "actionHandler",
               "attributeHandler", "nullHandler"}
MCFirmwareTopics == <<"update">>
MCActionTopics == <<"reboot">>
MCAttributeTopics == <<"update">>
=============================================================================
