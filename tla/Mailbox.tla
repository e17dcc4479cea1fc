------------------------------ MODULE Mailbox -------------------------------
(***************************************************************************)
(* What the bot promises for the messages it accepts, across crashes.  A   *)
(* message is kept in a table, or in the hands of a goroutine that took it *)
(* out, until it is settled.  Only what is in somebody's hands can be      *)
(* lost: by a crash, or because it cannot be put back.                     *)
(***************************************************************************)
CONSTANT Messages

VARIABLE place  \* where each message is

Places == {"outside", "kept", "taken", "settled", "lost"}

Init == place \in [Messages -> {"outside", "kept"}]

Moves == {<<place[m], place'[m]>> : m \in {n \in Messages : place'[n] # place[n]}}

\* Messages move together, one way at a time: a message is accepted or
\* refused; rows are taken out, put back, or not, and settled.
Ways == {<<"outside", "kept">>, <<"outside", "settled">>, <<"kept", "taken">>,
         <<"taken", "kept">>, <<"taken", "lost">>, <<"taken", "settled">>}

\* A restart finds what was kept, nothing in anybody's hands, and nothing of
\* a message that was about to be accepted.
Crash ==
    /\ Moves \subseteq {<<"taken", "lost">>, <<"outside", "lost">>}
    /\ \A m \in Messages : place'[m] # "taken"

Next ==
    /\ place' \in [Messages -> Places]
    /\ Crash \/ \E way \in Ways : Moves \subseteq {way}

Spec == Init /\ [][Next]_place
=============================================================================
