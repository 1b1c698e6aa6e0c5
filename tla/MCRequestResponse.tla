-------------------------- MODULE MCRequestResponse --------------------------
(* Model values for RequestResponse. *)
EXTENDS RequestResponse

CONSTANTS c1, c2

OneCaller == {c1}
TwoCallers == {c1, c2}
=============================================================================
