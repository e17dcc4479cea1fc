------------------------------ MODULE JsonRpc -------------------------------
(***************************************************************************)
(* The JSON-RPC client of the Signal backend (signal/rpc.go): callers      *)
(* register under a fresh id and wait; one read loop hands responses to    *)
(* them and puts notifications into a bounded channel, on which it blocks  *)
(* when nobody takes them.  The daemon is the other end of the socket.     *)
(*                                                                         *)
(* A step on behalf of a caller leaves the read loop alone and the other   *)
(* way round; the module that composes them says what else changes.        *)
(***************************************************************************)
EXTENDS Naturals, Sequences, FiniteSets

CONSTANTS
    Callers,    \* the goroutines that call
    Capacity,   \* of the notifications channel
    MaxCalls, MaxNotes  \* bounds: ids used, messages the daemon sends

ASSUME JsonRpcAssumption ==
    /\ Capacity \in Nat \ {0} /\ MaxCalls \in Nat \ {0} /\ MaxNotes \in Nat

VARIABLES
    nextID,
    pending,    \* c.pending: the call whose channel is stored under an id, or 0
    cst, cid,   \* where each caller is in Call, and the id it uses
    call,       \* the number of the call each caller made last (history)
    box,        \* what the channel of that call holds
    notes,      \* messages in the notifications channel
    errCh,      \* an error in c.errCh
    reader,     \* readLoop; "holding" while it waits to send a notification
    conn,       \* our end of the socket
    wire,       \* lines the daemon wrote, in the socket or the scanner's buffer
    asked,      \* requests the daemon has to answer
    sentNotes,  \* messages it has sent so far
    got         \* the answer each caller got last (history)

callerVars == <<nextID, cst, cid, call, got>>
readVars == <<notes, errCh, reader>>
wireVars == <<wire, asked, sentNotes>>
rpcVars == <<callerVars, pending, box, readVars, conn, wireVars>>

\* Ids, and the numbers of calls in the order they were made.  Requests and
\* answers carry the call they belong to; only the properties look at it.
Ids == 1..MaxCalls
Requests == [id : Ids, call : Ids]
Answers == [call : 0..MaxCalls, ok : BOOLEAN]
Lines == [id : 0..MaxCalls, answer : Answers]

\* What a caller gets that is no response, and a line that is none.
Failure == [call |-> 0, ok |-> FALSE]
Note == [id |-> 0, answer |-> Failure]

RpcTypeOK ==
    /\ nextID \in 0..MaxCalls /\ pending \in [Ids -> 0..MaxCalls]
    /\ cst \in [Callers -> {"idle", "write", "wait"}]
    /\ cid \in [Callers -> 0..MaxCalls] /\ call \in [Callers -> 0..MaxCalls]
    /\ box \in [Callers -> SUBSET Answers] /\ got \in [Callers -> SUBSET Answers]
    /\ notes \in 0..Capacity /\ errCh \in BOOLEAN
    /\ reader \in {"none", "reading", "holding", "failed", "done"}
    /\ conn \in {"none", "open", "closed"}
    /\ wire \in Seq(Lines) /\ asked \subseteq Requests /\ sentNotes \in 0..MaxNotes

RpcInit ==
    /\ nextID = 0 /\ pending = [i \in Ids |-> 0]
    /\ cst = [c \in Callers |-> "idle"]
    /\ cid = [c \in Callers |-> 0] /\ call = [c \in Callers |-> 0]
    /\ box = [c \in Callers |-> {}] /\ got = [c \in Callers |-> {}]
    /\ notes = 0 /\ errCh = FALSE /\ reader = "none" /\ conn = "none"
    /\ wire = <<>> /\ asked = {} /\ sentNotes = 0
-----------------------------------------------------------------------------
(* Call.                                                                   *)

\* Mutant: the next id that is not pending.
FreshIDReused == CHOOSE i \in Ids : pending[i] = 0 /\ \A j \in Ids : pending[j] = 0 => i <= j

FreshID == nextID + 1

Register(c) ==
    /\ cst[c] = "idle" /\ nextID < MaxCalls
    /\ nextID' = nextID + 1
    /\ call' = [call EXCEPT ![c] = nextID + 1]
    /\ cid' = [cid EXCEPT ![c] = FreshID]
    /\ pending' = [pending EXCEPT ![FreshID] = nextID + 1]
    /\ box' = [box EXCEPT ![c] = {}] /\ got' = [got EXCEPT ![c] = {}]
    /\ cst' = [cst EXCEPT ![c] = "write"]
    /\ UNCHANGED <<readVars, conn, wireVars>>

Leave(c, answers) ==
    /\ cst' = [cst EXCEPT ![c] = "idle"]
    /\ got' = [got EXCEPT ![c] = answers]
    /\ UNCHANGED <<nextID, cid, call, box, readVars, conn, wireVars>>

RemovePending(c) == pending' = [pending EXCEPT ![cid[c]] = 0]

\* Encode has no deadline: it returns when the daemon takes the request, or
\* fails with the connection, and holds writeMu until then.
Write(c, heard) ==
    /\ cst[c] = "write" /\ conn = "open" /\ heard
    /\ cst' = [cst EXCEPT ![c] = "wait"]
    /\ asked' = asked \cup {[id |-> cid[c], call |-> call[c]]}
    /\ UNCHANGED <<nextID, cid, call, got, pending, box, readVars, conn, wire, sentNotes>>

WriteFails(c) == cst[c] = "write" /\ RemovePending(c) /\ Leave(c, {Failure})

\* The context of the call is done.
GiveUp(c) == cst[c] = "wait" /\ RemovePending(c) /\ Leave(c, {Failure})

\* c.done is closed; the id stays pending.
Disconnected(c) ==
    cst[c] = "wait" /\ reader = "done" /\ Leave(c, {Failure}) /\ UNCHANGED pending

Answered(c) ==
    cst[c] = "wait" /\ box[c] # {} /\ Leave(c, box[c]) /\ UNCHANGED pending

Wait(c) == Disconnected(c) \/ Answered(c)
-----------------------------------------------------------------------------
(* readLoop.                                                               *)

\* The channel of a call is read by the caller that made it, if it still waits.
Hand(calls, answer) ==
    box' = [c \in Callers |-> IF cst[c] # "idle" /\ call[c] \in calls THEN {answer} ELSE box[c]]

\* Lines in the scanner's buffer are read after the socket is closed, too.
ReadNote ==
    /\ reader = "reading" /\ wire # <<>> /\ Head(wire).id = 0
    /\ wire' = Tail(wire)
    /\ reader' = "holding"
    /\ UNCHANGED <<callerVars, pending, box, notes, errCh, conn, asked, sentNotes>>

\* Mutant: the read loop does not block.
FullNever == FALSE

Full == notes = Capacity

Notify ==
    /\ reader = "holding" /\ ~Full
    /\ notes' = notes + 1
    /\ reader' = "reading"
    /\ UNCHANGED <<callerVars, pending, box, errCh, conn, wireVars>>

\* A response that finds no channel under its id is dropped.
ReadResponse ==
    /\ reader = "reading" /\ wire # <<>> /\ Head(wire).id # 0
    /\ wire' = Tail(wire)
    /\ Hand({pending[Head(wire).id]}, Head(wire).answer)
    /\ pending' = [pending EXCEPT ![Head(wire).id] = 0]
    /\ UNCHANGED <<callerVars, readVars, conn, asked, sentNotes>>

\* The scanner ends: failPending, the error, and then close(c.done).
ScannerEnds ==
    /\ reader = "reading"
    /\ Hand({pending[i] : i \in Ids}, Failure)
    /\ pending' = [i \in Ids |-> 0]
    /\ errCh' = TRUE
    /\ reader' = "failed"
    /\ UNCHANGED <<callerVars, notes, conn, wireVars>>

ReadFails(hungUp) == (conn = "closed" \/ (hungUp /\ wire = <<>>)) /\ ScannerEnds

ReaderDone ==
    /\ reader = "failed"
    /\ reader' = "done"
    /\ UNCHANGED <<callerVars, pending, box, notes, errCh, conn, wireVars>>

Read(hungUp) == ReadNote \/ Notify \/ ReadResponse \/ ReadFails(hungUp) \/ ReaderDone

\* A line that is too long for the scanner, or an error of the socket.
StreamBreaks == conn = "open" /\ ScannerEnds
-----------------------------------------------------------------------------
(* The daemon answers in any order, with a result or an error, and sends    *)
(* messages of its own.                                                    *)

Respond ==
    /\ conn = "open"
    /\ \E q \in asked, ok \in BOOLEAN :
           /\ wire' = Append(wire, [id |-> q.id, answer |-> [call |-> q.call, ok |-> ok]])
           /\ asked' = asked \ {q}
    /\ UNCHANGED <<callerVars, pending, box, readVars, conn, sentNotes>>

SendNote ==
    /\ conn = "open" /\ sentNotes < MaxNotes
    /\ wire' = Append(wire, Note)
    /\ sentNotes' = sentNotes + 1
    /\ UNCHANGED <<callerVars, pending, box, readVars, conn, asked>>
-----------------------------------------------------------------------------
(* Properties.                                                             *)

\* The response that a caller gets is the daemon's to the very call it made:
\* the late response to a call that gave up, or whose request could not be
\* written, never ends a later one, of this caller or another.
OwnResponse == \A c \in Callers : \A a \in got[c] : a = Failure \/ a.call = call[c]
=============================================================================
