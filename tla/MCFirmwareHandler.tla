-------------------------- MODULE MCFirmwareHandler --------------------------
(* Model values for FirmwareHandler. *)
EXTENDS FirmwareHandler

CONSTANTS r1, r2

TwoRequests == {r1, r2}
=============================================================================
