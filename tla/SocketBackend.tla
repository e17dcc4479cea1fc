--------------------------- MODULE SocketBackend -----------------------------
(***************************************************************************)
(* The socket backend (socket/backend.go) and the outbox behind it.  A     *)
(* goroutine per client reads commands; it and the worker number their     *)
(* messages, push them to every client under one mutex, without a          *)
(* deadline, and put them into the outbox, which a reply is looked up in.  *)
(*                                                                         *)
(* A text is a number that says which message it is; people see it with    *)
(* the id the bot gave it, and reply to what they see.                     *)
(***************************************************************************)
EXTENDS Outbox, FiniteSets

CONSTANTS
    Clients, Worker,
    Nobody,         \* the owner of a mutex that is free
    MaxMessages,    \* bound: messages pushed
    MaxFaults       \* bound: crashes, stops, stalled clients and failing
                    \* statements

ASSUME SocketAssumption ==
    /\ Worker \notin Clients /\ Nobody \notin Clients \cup {Worker}
    /\ MaxMessages \in Nat /\ MaxFaults \in Nat

VARIABLES
    run,        \* what Run does: accept, register (waits for b.mu), ended, down
    incoming,   \* the connection Run has accepted and not registered
    stopped,    \* the context is cancelled
    listening,  \* the listener is open
    client,     \* each client's end of its connection
    conns,      \* b.conns
    mu, left,   \* the owner of b.mu, and the clients it has still to write to
    msgSeq,
    rows,       \* the outbox
    pc, msg,    \* each goroutine: where it is, and the message it has in hand
    shown,      \* what each client has been sent, in order
    texts,      \* how many messages there were
    faults

actorVars == <<pc, msg>>
vars == <<run, incoming, stopped, listening, client, conns, mu, left, msgSeq, rows, actorVars,
          shown, texts, faults>>

Actors == Clients \cup {Worker}
Ids == 1..MaxMessages
Entries == [id : Ids, text : Ids]
NoEntry == [id |-> 0, text |-> 0]

\* A message: what it replies to, and whether it goes into the outbox.
Msgs == [id : Ids, text : Ids, re : Entries \cup {NoEntry}, kept : BOOLEAN]
NoMsg == [id |-> 0, text |-> 0, re |-> NoEntry, kept |-> FALSE]

\* Where a goroutine is: before the lock of push, at its writes, recording its
\* message, looking up what it quotes, or about to answer a command.
Steps == {"off", "idle", "push", "write", "put", "quote", "answer"}

TypeOK ==
    /\ run \in {"accept", "register", "ended", "down"}
    /\ incoming \in Clients \cup {Nobody}
    /\ stopped \in BOOLEAN /\ listening \in BOOLEAN
    /\ client \in [Clients -> {"away", "open", "stalled", "gone"}]
    /\ conns \subseteq Clients
    /\ mu \in Actors \cup {Nobody} /\ left \subseteq Clients
    /\ msgSeq \in 0..MaxMessages
    /\ Len(rows) <= MaxKept /\ \A i \in DOMAIN rows : rows[i] \in Entries
    /\ pc \in [Actors -> Steps]
    /\ msg \in [Actors -> Msgs \cup {NoMsg}]
    /\ \A c \in Clients : \A i \in DOMAIN shown[c] : shown[c][i] \in Entries
    /\ texts \in 0..MaxMessages /\ faults \in 0..MaxFaults

Init ==
    /\ run = "accept" /\ incoming = Nobody /\ stopped = FALSE /\ listening = TRUE
    /\ client = [c \in Clients |-> "away"] /\ conns = {}
    /\ mu = Nobody /\ left = {}
    /\ msgSeq = 0 /\ rows = <<>>
    /\ pc = [a \in Actors |-> IF a = Worker THEN "idle" ELSE "off"]
    /\ msg = [a \in Actors |-> NoMsg]
    /\ shown = [c \in Clients |-> <<>>]
    /\ texts = 0 /\ faults = 0

Up == run # "down"

Fault == faults < MaxFaults /\ faults' = faults + 1
-----------------------------------------------------------------------------
(* Run.                                                                    *)

\* A client connects, perhaps for another time ...
Accept(c) ==
    /\ run = "accept" /\ listening /\ client[c] = "away"
    /\ run' = "register" /\ incoming' = c
    /\ UNCHANGED <<stopped, listening, client, conns, mu, left, msgSeq, rows, actorVars,
                   shown, texts, faults>>

\* ... and is registered, and its goroutine started.
Register ==
    /\ run = "register" /\ mu = Nobody
    /\ run' = "accept" /\ incoming' = Nobody
    /\ client' = [client EXCEPT ![incoming] = "open"]
    /\ conns' = conns \cup {incoming}
    /\ pc' = [pc EXCEPT ![incoming] = "idle"]
    /\ UNCHANGED <<stopped, listening, mu, left, msgSeq, rows, msg, shown, texts, faults>>

\* A goroutine closes the listener when the context is cancelled ...
CloseListener ==
    /\ stopped /\ listening
    /\ listening' = FALSE
    /\ UNCHANGED <<run, incoming, stopped, client, conns, mu, left, msgSeq, rows, actorVars,
                   shown, texts, faults>>

\* ... and Accept fails.
RunEnds ==
    /\ run = "accept" /\ ~listening
    /\ run' = "ended"
    /\ UNCHANGED <<incoming, stopped, listening, client, conns, mu, left, msgSeq, rows,
                   actorVars, shown, texts, faults>>
-----------------------------------------------------------------------------
(* Messages.                                                               *)

NextID == msgSeq' = msgSeq + 1

\* Goroutine a makes a message, which gets the next id.
Make(a, re, kept) ==
    /\ texts < MaxMessages /\ texts' = texts + 1
    /\ NextID
    /\ msg' = [msg EXCEPT ![a] = [id |-> msgSeq', text |-> texts', re |-> re, kept |-> kept]]
    /\ pc' = [pc EXCEPT ![a] = "push"]
    /\ UNCHANGED <<run, incoming, stopped, listening, client, conns, mu, left, rows, shown,
                   faults>>

\* A client sends a text or a file, perhaps in reply to something it was sent.
Send(c) ==
    /\ Up /\ pc[c] = "idle" /\ ~stopped /\ client[c] \in {"open", "stalled"}
    /\ \E re \in {NoEntry} \cup {shown[c][i] : i \in DOMAIN shown[c]} : Make(c, re, TRUE)

\* The worker sends a reply, or a file or a notice, which is not recorded.
Say(kept) == Up /\ pc[Worker] = "idle" /\ Make(Worker, NoEntry, kept)

\* A client's goroutine answers its command, or tells that its prompt could not
\* be enqueued; neither is recorded.
Answer(c) == pc[c] = "answer" /\ Make(c, NoEntry, FALSE)

\* Goroutine a goes on to p; done with its message it lets go of it.
Proceed(a, p) ==
    /\ pc' = [pc EXCEPT ![a] = p]
    /\ msg' = IF p \in {"idle", "answer"} THEN [msg EXCEPT ![a] = NoMsg] ELSE msg

\* Mutant: push without the mutex.
FreeAlways(a) == TRUE

Free(a) == mu = Nobody

\* push: it holds the mutex over the writes, one client after the other.
Lock(a) ==
    /\ pc[a] = "push" /\ Free(a)
    /\ mu' = a /\ left' = conns
    /\ pc' = [pc EXCEPT ![a] = "write"]
    /\ UNCHANGED <<run, incoming, stopped, listening, client, conns, msgSeq, rows, msg,
                   shown, texts, faults>>

Write(a, c) ==
    /\ pc[a] = "write" /\ c \in left /\ client[c] = "open"
    /\ shown' = [shown EXCEPT ![c] = Append(@, [id |-> msg[a].id, text |-> msg[a].text])]
    /\ left' = left \ {c}
    /\ UNCHANGED <<run, incoming, stopped, listening, client, conns, mu, msgSeq, rows,
                   actorVars, texts, faults>>

\* Mutant: it returns at the first error, with the mutex.
WriteFailsReturning(a, c) ==
    /\ pc[a] = "write" /\ c \in left /\ client[c] = "gone"
    /\ Proceed(a, "idle")
    /\ conns' = conns \ {c}
    /\ UNCHANGED <<run, incoming, stopped, listening, client, mu, left, msgSeq, rows, shown,
                   texts, faults>>

WriteFails(a, c) ==
    /\ pc[a] = "write" /\ c \in left /\ client[c] = "gone"
    /\ left' = left \ {c} /\ conns' = conns \ {c}
    /\ UNCHANGED <<run, incoming, stopped, listening, client, mu, msgSeq, rows, actorVars,
                   shown, texts, faults>>

Unlock(a) ==
    /\ pc[a] = "write" /\ left = {}
    /\ mu' = Nobody
    /\ Proceed(a, IF msg[a].kept THEN "put" ELSE "idle")
    /\ UNCHANGED <<run, incoming, stopped, listening, client, conns, left, msgSeq, rows,
                   shown, texts, faults>>

\* HandleMessage and sendReplyWithFiles record the text, or log that the
\* statement failed; of what a client sends a command is answered next, and a
\* prompt that is a reply quotes.
Record(a) ==
    /\ pc[a] = "put"
    /\ \/ rows' = Put(rows, msg[a].id, msg[a].text) /\ ~stopped /\ UNCHANGED faults
       \/ UNCHANGED rows /\ (Fault \/ (stopped /\ UNCHANGED faults))
    /\ \/ Proceed(a, IF msg[a].re # NoEntry THEN "quote" ELSE "idle")
       \/ a \in Clients /\ Proceed(a, "answer")
    /\ UNCHANGED <<run, incoming, stopped, listening, client, conns, mu, left, msgSeq,
                   shown, texts>>

\* Mutant: it looks up the message instead of what it replies to.
QuotedOwn(a) == Get(rows, msg[a].id)

\* buildPromptText quotes what Get returns.
Quoted(a) == Get(rows, msg[a].re.id)

Quote(a) ==
    /\ pc[a] = "quote"
    /\ \/ Proceed(a, "idle") /\ UNCHANGED faults
       \/ Proceed(a, "answer") /\ (Fault \/ (stopped /\ UNCHANGED faults))
    /\ UNCHANGED <<run, incoming, stopped, listening, client, conns, mu, left, msgSeq, rows,
                   shown, texts>>
-----------------------------------------------------------------------------
(* Clients.                                                                *)

\* A client no longer reads: once its buffer is full a write to it blocks.
Stall(c) ==
    /\ client[c] = "open" /\ Fault
    /\ client' = [client EXCEPT ![c] = "stalled"]
    /\ UNCHANGED <<run, incoming, stopped, listening, conns, mu, left, msgSeq, rows,
                   actorVars, shown, texts>>

Hangup(c) ==
    /\ client[c] \in {"open", "stalled"}
    /\ client' = [client EXCEPT ![c] = "gone"]
    /\ UNCHANGED <<run, incoming, stopped, listening, conns, mu, left, msgSeq, rows,
                   actorVars, shown, texts, faults>>

\* handleConn ends, when it reads the end of the connection, or a command
\* after the stop.
ConnEnds(c) ==
    /\ Up /\ pc[c] = "idle" /\ mu = Nobody
    /\ client[c] = "gone" \/ stopped
    /\ conns' = conns \ {c}
    /\ client' = [client EXCEPT ![c] = "away"]
    /\ pc' = [pc EXCEPT ![c] = "off"]
    /\ UNCHANGED <<run, incoming, stopped, listening, mu, left, msgSeq, rows, msg, shown,
                   texts, faults>>
-----------------------------------------------------------------------------
(* The process.                                                            *)

Stop ==
    /\ Up /\ ~stopped /\ Fault
    /\ stopped' = TRUE
    /\ UNCHANGED <<run, incoming, listening, client, conns, mu, left, msgSeq, rows,
                   actorVars, shown, texts>>

WorkerEnds ==
    /\ stopped /\ pc[Worker] = "idle"
    /\ pc' = [pc EXCEPT ![Worker] = "off"]
    /\ UNCHANGED <<run, incoming, stopped, listening, client, conns, mu, left, msgSeq, rows,
                   msg, shown, texts, faults>>

\* What the end of the process leaves: the table, and what people have seen.
Ends ==
    /\ run' = "down" /\ incoming' = Nobody /\ stopped' = FALSE /\ listening' = TRUE
    /\ client' = [c \in Clients |-> "away"] /\ conns' = {}
    /\ mu' = Nobody /\ left' = {} /\ msgSeq' = 0
    /\ pc' = [a \in Actors |-> "off"] /\ msg' = [a \in Actors |-> NoMsg]
    /\ UNCHANGED <<rows, shown, texts>>

\* main returns when Run and the worker have.
Exit == run = "ended" /\ pc[Worker] = "off" /\ Ends /\ UNCHANGED faults

Crash == Up /\ Fault /\ Ends

Restart ==
    /\ run = "down"
    /\ run' = "accept"
    /\ pc' = [pc EXCEPT ![Worker] = "idle"]
    /\ UNCHANGED <<incoming, stopped, listening, client, conns, mu, left, msgSeq, rows, msg,
                   shown, texts, faults>>

Push(a) ==
    \/ Lock(a) \/ Unlock(a) \/ Record(a) \/ Quote(a)
    \/ \E c \in Clients : Write(a, c) \/ WriteFails(a, c)

Next ==
    \/ \E c \in Clients : Accept(c) \/ Send(c) \/ Answer(c) \/ Stall(c)
                           \/ Hangup(c) \/ ConnEnds(c)
    \/ \E a \in Actors : Push(a)
    \/ \E kept \in BOOLEAN : Say(kept)
    \/ Register \/ CloseListener \/ RunEnds \/ WorkerEnds \/ Exit \/ Stop \/ Crash \/ Restart

Spec == Init /\ [][Next]_vars

\* The goroutines run; a mutex is not kept from one of them for ever.
Fairness ==
    /\ \A a \in Actors : SF_vars(Push(a))
    /\ SF_vars(Register) /\ WF_vars(CloseListener) /\ WF_vars(RunEnds)
    /\ WF_vars(WorkerEnds) /\ WF_vars(Exit)

FairSpec == Spec /\ Fairness
-----------------------------------------------------------------------------
(* Properties.                                                             *)

\* Clients see the messages in one order, whichever goroutine pushed them.
OneOrder ==
    \A c, d \in Clients : \A i, j \in DOMAIN shown[c] : \A k, l \in DOMAIN shown[d] :
        i < j /\ shown[c][i].text = shown[d][k].text /\ shown[c][j].text = shown[d][l].text
            => k < l

\* A prompt quotes the message its author replied to, if any: "The store is
\* persisted to SQLite so reply context survives bot restarts."
QuoteTrue == \A c \in Clients : pc[c] = "quote" => Quoted(c) \in {msg[c].re.text, Unavailable}

\* So it is until the numbering starts again.
QuoteTrueAtFirst == msgSeq = texts => QuoteTrue

\* The bot stops when it is told to, unless a client does not read.
StopEnds == stopped ~> (run = "down" \/ \E c \in conns : client[c] = "stalled")
=============================================================================
