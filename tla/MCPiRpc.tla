------------------------------ MODULE MCPiRpc -------------------------------
(* The constants are numbers: three calls, a channel of three events.       *)
EXTENDS PiRpc
=============================================================================
