--------------------------- MODULE MCNostrBackend ---------------------------
(* Two rumors of two users; the first says !restart.                       *)
EXTENDS NostrBackend, TLC

CONSTANTS a, b, alice, bob

Senders == (a :> alice) @@ (b :> bob)
=============================================================================
