-------------------------- MODULE MCPublishQueue ----------------------------
(* An event for two relays and one for a single relay.                     *)
EXTENDS PublishQueue, TLC

CONSTANTS e1, e2, r1, r2

TargetsOfTwo == (e1 :> {r1, r2}) @@ (e2 :> {r1})
=============================================================================
