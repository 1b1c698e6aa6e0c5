---------------------------- MODULE CommandTopic ----------------------------
(***************************************************************************)
(* The Command that IOTF_Callback::message_arrived makes from a topic.  A  *)
(* topic is a sequence of segments, the text between two slashes.  The     *)
(* code looks for "type/", "id/", "cmd/" and "fmt/" anywhere in the text,  *)
(* so all that matters of a segment is which of these words it ends in.    *)
(***************************************************************************)
EXTENDS Naturals, Sequences, FiniteSetsExt

Words == {"type", "id", "cmd", "fmt"}

(* A name that stands for `of', and the word it ends in, if any: the       *)
(* device type "android" ends in "id".                                     *)
Names(of) == [of : {of}, ends : Words \cup {""}]
Word(w) == [of |-> "word", ends |-> w]
iot2 == [of |-> "word", ends |-> ""]
Nothing == [of |-> "nothing", ends |-> ""]

GatewayTopic(type, id, cmd, fmt) ==
    <<iot2, Word("type"), type, Word("id"), id, Word("cmd"), cmd, Word("fmt"), fmt>>
DeviceTopic(cmd, fmt) == <<iot2, Word("cmd"), cmd, Word("fmt"), fmt>>

(* topic.find(word + "/", from): the segments where it may be found. *)
Found(topic, word, from) == {k \in from .. Len(topic) - 1 : topic[k].ends = word}

(* The segment after the first of them.  If there is none the position     *)
(* wraps round, and the result is a piece of the first segment.            *)
After(topic, word, from) ==
    LET found == Found(topic, word, from)
    IN  IF found = {} THEN Nothing ELSE topic[Min(found) + 1]

(* Mutant: "fmt/" is searched from the start too. *)
Command_FromStart(topic) ==
    [deviceType |-> After(topic, "type", 1), deviceId |-> After(topic, "id", 1),
     commandName |-> After(topic, "cmd", 1), format |-> After(topic, "fmt", 1)]

(* The search for "fmt/" starts after the command; the others start at the *)
(* front.                                                                  *)
Command(topic) ==
    [deviceType |-> After(topic, "type", 1), deviceId |-> After(topic, "id", 1),
     commandName |-> After(topic, "cmd", 1),
     format |-> After(topic, "fmt", Min(Found(topic, "cmd", 1)) + 2)]

VARIABLES
    names,              \* what the sender put into the topic (external)
    command             \* the Command that is made of it

topicVars == <<names, command>>

TopicInit == names = <<>> /\ command = <<>>

DeviceNames == [cmd : Names("cmd"), fmt : Names("fmt")]
GatewayNames == [type : Names("type"), id : Names("id"), cmd : Names("cmd"), fmt : Names("fmt")]
sentTopic == IF names \in DeviceNames THEN DeviceTopic(names.cmd, names.fmt)
             ELSE GatewayTopic(names.type, names.id, names.cmd, names.fmt)

CommandArrives ==
    /\ names = <<>>
    /\ names' \in DeviceNames \cup GatewayNames
    /\ UNCHANGED command

CommandMade ==
    /\ names # <<>>
    /\ command = <<>>
    /\ command' = Command(sentTopic)
    /\ UNCHANGED names

TopicNext == CommandArrives \/ CommandMade

(* The command and the format of a device topic are always found.  On a    *)
(* gateway topic the device type is found, the device id unless the type   *)
(* ends in "id", the command and the format unless the type or the id ends *)
(* in "cmd".                                                               *)
CommandParsed ==
    command # <<>> =>
        IF names \in DeviceNames
        THEN command.commandName = names.cmd /\ command.format = names.fmt
        ELSE /\ command.deviceType = names.type
             /\ names.type.ends # "id" => command.deviceId = names.id
             /\ "cmd" \notin {names.type.ends, names.id.ends} =>
                   command.commandName = names.cmd /\ command.format = names.fmt
=============================================================================
