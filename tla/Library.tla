------------------------------ MODULE Library ------------------------------
(***************************************************************************)
(* The sequential parts of the program and of the libraries it is built    *)
(* with, side by side: the allocation records and lists of Paho, its       *)
(* packet reader, length field and check of UTF-8, the JSON reader, and    *)
(* the parsing of command topics.  They share no state, so one of them     *)
(* runs in a behaviour.                                                    *)
(***************************************************************************)
EXTENDS Heap, LinkedList, PacketReader, Utf8, JsonReader, CommandTopic

\* Bytes on both sides of every limit.
BoundaryBytes ==
    {1, 127, 128, 143, 144, 159, 160, 191, 192, 193, 194, 223, 224, 225, 236, 237, 238, 239, 240, 241, 243, 244, 245}

BoundaryStrings ==
    UNION {[1..n -> BoundaryBytes] : n \in 1..3}
    \cup {<<b, c>> \o s : b \in {127, 239, 240, 241, 244, 245}, c \in BoundaryBytes, s \in [1..2 -> {127, 128, 191, 192}]}

\* Packets whose length field has one, two and three bytes.
SamplePackets ==
    {[header |-> 10 * length, data |-> [i \in 1..length |-> 10 * length + i]] :
        length \in {0, 1, Radix, Radix * Radix}}

\* The lengths where the length field gets a byte longer, and the first one it
\* cannot hold.
BoundaryLengths ==
    {0, 1} \cup UNION {{128^k - 1, 128^k, 128^k + 1} : k \in 1..3} \cup {128^4 - 1, 128^4}

VARIABLE part           \* the part that runs

libraryVars == <<heapVars, listVars, readerVars, lengthVars, utf8Vars, documentVars,
                 numberVars, textVars, topicVars>>

Parts == {"heap", "list", "reader", "length", "utf8", "document", "number", "text", "topic"}

Init ==
    /\ part \in Parts
    /\ HeapInit
    /\ ListInit
    /\ ReaderInit
    /\ LengthInit
    /\ Utf8Init
    /\ DocumentInit
    /\ NumberInit
    /\ TextInit
    /\ TopicInit

Runs(p) ==
    /\ part = p
    /\ UNCHANGED part
    /\ p # "heap" => UNCHANGED heapVars
    /\ p # "list" => UNCHANGED listVars
    /\ p # "reader" => UNCHANGED readerVars
    /\ p # "length" => UNCHANGED lengthVars
    /\ p # "utf8" => UNCHANGED utf8Vars
    /\ p # "document" => UNCHANGED documentVars
    /\ p # "number" => UNCHANGED numberVars
    /\ p # "text" => UNCHANGED textVars
    /\ p # "topic" => UNCHANGED topicVars

Next ==
    \/ Runs("heap") /\ HeapNext
    \/ Runs("list") /\ ListNext
    \/ Runs("reader") /\ ReaderNext
    \/ Runs("length") /\ MQTTPacket_encode
    \/ Runs("utf8") /\ Utf8Next
    \/ Runs("document") /\ DocumentNext
    \/ Runs("number") /\ NumberNext
    \/ Runs("text") /\ TextNext
    \/ Runs("topic") /\ TopicNext

Spec == Init /\ [][Next]_<<libraryVars, part>>
=============================================================================
