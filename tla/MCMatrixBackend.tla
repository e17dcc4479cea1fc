--------------------------- MODULE MCMatrixBackend ---------------------------
(* Two rooms; a prompt in each, and a !restart in the first.           *)
EXTENDS MatrixBackend, TLC

CONSTANTS A, B, a1, b1, reset

RoomOfMessage == [m \in Messages |-> IF m = b1 THEN B ELSE A]
=============================================================================
