------------------------------- MODULE Outbox --------------------------------
(***************************************************************************)
(* The store of message texts (outbox.go) for one conversation: rows by    *)
(* ascending rowid.  It answers what a user replied to.                    *)
(***************************************************************************)
EXTENDS Naturals, Sequences

CONSTANTS
    MaxKept,        \* maxOutboxPerConversation
    Unavailable     \* the text that Get does not find

ASSUME OutboxAssumption == MaxKept \in Nat \ {0}

At(rows, id) == {i \in DOMAIN rows : rows[i].id = id}

\* Mutant: nothing is evicted.
PutUnbounded(rows, id, text) ==
    IF At(rows, id) = {} THEN Append(rows, [id |-> id, text |-> text])
    ELSE [i \in DOMAIN rows |-> IF i \in At(rows, id) THEN [rows[i] EXCEPT !.text = text]
                                ELSE rows[i]]

\* Upsert, which keeps the row of an id that is there, and evict the oldest:
\* one transaction.
Put(rows, id, text) ==
    LET upserted ==
            IF At(rows, id) = {} THEN Append(rows, [id |-> id, text |-> text])
            ELSE [i \in DOMAIN rows |-> IF i \in At(rows, id) THEN [rows[i] EXCEPT !.text = text]
                                        ELSE rows[i]]
    IN IF Len(upserted) > MaxKept
       THEN SubSeq(upserted, Len(upserted) - MaxKept + 1, Len(upserted))
       ELSE upserted

Get(rows, id) ==
    IF At(rows, id) = {} THEN Unavailable
    ELSE LET i == CHOOSE i \in At(rows, id) : TRUE IN rows[i].text
=============================================================================
