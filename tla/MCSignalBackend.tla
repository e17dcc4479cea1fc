-------------------------- MODULE MCSignalBackend ---------------------------
(* The worker and the loop of Run as callers, a channel of one message.     *)
EXTENDS SignalBackend

CONSTANT Worker
=============================================================================
