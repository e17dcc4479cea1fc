-------------------------- MODULE MCSocketBackend ---------------------------
(* Two clients on the socket.                                              *)
EXTENDS SocketBackend

CONSTANTS a, b
=============================================================================
