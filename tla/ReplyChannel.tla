---------------------------- MODULE ReplyChannel ----------------------------
(***************************************************************************)
(* What IOTF_send_reply promises to the message handlers that call it: a   *)
(* FIFO channel that accepts each reply once and hands accepted replies to *)
(* the MQTT client in the order of acceptance, each at most once.  Nothing *)
(* is promised about a reply that is still pending when the client goes    *)
(* away, so the specification states no fairness.                          *)
(***************************************************************************)
EXTENDS Naturals, Sequences

CONSTANT Replies

VARIABLES
    accepted,   \* replies put on the channel, oldest first
    sent        \* replies handed to the MQTT client, oldest first

vars == <<accepted, sent>>

Init ==
    /\ accepted = <<>>
    /\ sent = <<>>

Accept(m) ==
    /\ \A i \in 1..Len(accepted) : accepted[i] # m
    /\ accepted' = Append(accepted, m)
    /\ UNCHANGED sent

Send ==
    /\ Len(sent) < Len(accepted)
    /\ sent' = Append(sent, accepted[Len(sent) + 1])
    /\ UNCHANGED accepted

Next == Send \/ \E m \in Replies : Accept(m)

Spec == Init /\ [][Next]_vars
=============================================================================
