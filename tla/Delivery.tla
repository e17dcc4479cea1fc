------------------------------ MODULE Delivery ------------------------------
(***************************************************************************)
(* What an outbox promises for the events handed to it: an event is owed   *)
(* until a relay has it or it is given up, whatever crashes in between; a  *)
(* crash loses only events that could not be stored, and an event that is  *)
(* still owed is never removed from the store.  The publish queue of the   *)
(* Nostr backend implements this.                                          *)
(***************************************************************************)
CONSTANT Events

VARIABLES
    fate,   \* what became of each event
    stored  \* the events a crash does not lose

vars == <<fate, stored>>

Fates == {"new", "owed", "delivered", "abandoned", "lost"}

Owed == {e \in Events : fate[e] = "owed"}

Become(es, f) == fate' = [e \in Events |-> IF e \in es THEN f ELSE fate[e]]

Init ==
    /\ fate = [e \in Events |-> "new"]
    /\ stored = {}

Accept(e) ==
    /\ fate[e] = "new"
    /\ Become({e}, "owed")
    /\ stored' \in {stored, stored \cup {e}}

Deliver(e) ==
    /\ fate[e] = "owed"
    /\ Become({e}, "delivered")
    /\ stored' \in {stored, stored \ {e}}

\* Several events may pass their deadline together; cleaning the store of
\* what is no longer owed may fail and be made up for later.
GiveUp ==
    \E es \in SUBSET Owed :
        /\ Become(es, "abandoned")
        /\ \E gone \in SUBSET (stored \ (Owed \ es)) : stored' = stored \ gone

Crash ==
    /\ Become(Owed \ stored, "lost")
    /\ UNCHANGED stored

\* A restart takes up what is still stored.
Recover ==
    /\ Become({e \in stored : fate[e] = "abandoned"}, "owed")
    /\ UNCHANGED stored

Next ==
    \/ \E e \in Events : Accept(e) \/ Deliver(e)
    \/ GiveUp \/ Crash \/ Recover

Spec == Init /\ [][Next]_vars
=============================================================================
