---------------------------- MODULE Configuration ----------------------------
(***************************************************************************)
(* Properties, the file it can be read from, and the checks that a client  *)
(* makes before it connects.  A text is abstracted to the cases the code   *)
(* tells apart: empty, given, or one of the words it compares with.        *)
(***************************************************************************)

Text == {"", "given"}
Organizations == {"", "quickstart", "QuickStart", "given"}
AuthMethods == {"", "token", "given"}

(* The members of Properties that the library itself reads. *)
Properties ==
    [orgId : Organizations, domain : Text, deviceType : Text, deviceId : Text,
     authMethod : AuthMethods, trustStore : Text]

(* What a JSON file holds for each key; a key that is missing has its      *)
(* default, "8883" for the port and "false" for the certificates.          *)
Files ==
    [orgId : Organizations, domain : Text, deviceType : Text, deviceId : Text,
     port : {"", "8883", "text"}, authMethod : AuthMethods, authToken : Text,
     trustStore : Text, useCerts : {"", "true", "false"},
     certPath : Text, keyPath : Text]

Quickstart(config) == config.orgId = "quickstart"

(* Mutant: the trust store is required only with client certificates. *)
InitializePropertiesFromFile_Trusting(file) ==
    /\ "" \notin {file.orgId, file.deviceType, file.deviceId, file.port}
    /\ ~Quickstart(file) =>
          /\ "" \notin {file.authMethod, file.authToken, file.useCerts}
          /\ file.useCerts = "true" =>
                "" \notin {file.trustStore, file.certPath, file.keyPath}

(* The value InitializePropertiesFromFile returns. *)
InitializePropertiesFromFile(file) ==
    /\ "" \notin {file.orgId, file.deviceType, file.deviceId, file.port}
    /\ ~Quickstart(file) =>
          /\ "" \notin {file.authMethod, file.authToken, file.trustStore,
                        file.useCerts}
          /\ file.useCerts = "true" => "" \notin {file.certPath, file.keyPath}

(* std::stoi on the port throws out of the constructor. *)
PortThrows(file) == ~Quickstart(file) /\ file.port = "text"

(* The members it has set; the domain has a default, and quickstart stops  *)
(* before the authentication.                                              *)
PropertiesOf(file) ==
    [orgId |-> file.orgId, domain |-> "given", deviceType |-> file.deviceType,
     deviceId |-> file.deviceId,
     authMethod |-> IF Quickstart(file) THEN "" ELSE file.authMethod,
     trustStore |-> IF Quickstart(file) THEN "" ELSE file.trustStore]

Identified(properties) ==
    "" \notin {properties.orgId, properties.domain, properties.deviceType,
               properties.deviceId}

(* What IOTP_DeviceClient::InitializeMqttClient accepts. *)
DeviceInitializes ==
    {properties \in Properties :
        /\ Identified(properties)
        /\ Quickstart(properties) \/ properties.trustStore # ""}

(* IOTP_GatewayClient::InitializeMqttClient refuses quickstart, in capital *)
(* letters too.                                                            *)
GatewayInitializes ==
    {properties \in Properties :
        /\ Identified(properties)
        /\ properties.orgId \notin {"quickstart", "QuickStart"}
        /\ properties.trustStore # ""}

(* IOTP_Client::connect: the platform's authentication method is token. *)
AuthSupported(properties) ==
    Quickstart(properties) \/ properties.authMethod = "token"

(* Nothing else is asked of the properties once the client is made.        *)
Judged(properties, usable) ==
    [initializes |-> properties \in usable,
     quickstart |-> Quickstart(properties),
     auth |-> AuthSupported(properties)]
=============================================================================
