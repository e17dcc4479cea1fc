---------------------------- MODULE SignalProofs -----------------------------
(***************************************************************************)
(* Theorems about the JSON-RPC client and the backend of Signal, for any   *)
(* capacity of the notifications channel, any number of goroutines that    *)
(* call and any number of calls: types, whose answer a caller gets, and    *)
(* what is left when Run has returned.                                     *)
(***************************************************************************)
EXTENDS SignalBackend, TLAPS, SequenceTheorems

-----------------------------------------------------------------------------
(* Types.                                                                  *)

\* The parts of the types that a step of the client is about.
CallerTypes ==
    /\ nextID \in 0..MaxCalls /\ pending \in [Ids -> 0..MaxCalls]
    /\ cst \in [Callers -> {"idle", "write", "wait"}]
    /\ cid \in [Callers -> 0..MaxCalls] /\ call \in [Callers -> 0..MaxCalls]
    /\ box \in [Callers -> SUBSET Answers] /\ got \in [Callers -> SUBSET Answers]
    /\ asked \subseteq Requests

LoopTypes ==
    /\ notes \in 0..Capacity /\ errCh \in BOOLEAN
    /\ reader \in {"none", "reading", "holding", "failed", "done"}
    /\ conn \in {"none", "open", "closed"}
    /\ wire \in Seq(Lines) /\ sentNotes \in 0..MaxNotes

BackendTypes ==
    /\ rpc \in BOOLEAN /\ run \in Runs /\ subscribed \in BOOLEAN /\ ctxDone \in BOOLEAN
    /\ stopped \in BOOLEAN /\ wrote \in BOOLEAN
    /\ daemon \in {"off", "up", "stuck", "gone"}
    /\ deaf \in BOOLEAN /\ daemonSet \in BOOLEAN

\* A caller in a call has an id and a number.
Numbered == \A c \in Callers : cst[c] # "idle" => cid[c] \in Ids /\ call[c] \in Ids

Types == CallerTypes /\ LoopTypes /\ BackendTypes /\ Numbered

\* The ranges of ids and answers.
LEMMA NumberFacts ==
    /\ MaxCalls \in Nat \ {0} /\ Capacity \in Nat \ {0} /\ MaxNotes \in Nat
    /\ 0 \in 0..MaxCalls /\ Ids \subseteq 0..MaxCalls /\ 0 \notin Ids
    /\ Failure \in Answers /\ Note \in Lines
BY JsonRpcAssumption DEF Failure, Note, Lines, Answers, Ids

\* A line is a note or a response to an id.
LEMMA LineFacts ==
    ASSUME NEW l \in Lines
    PROVE  /\ l.id \in 0..MaxCalls /\ l.answer \in Answers
           /\ l.id # 0 => l.id \in Ids
BY JsonRpcAssumption DEF Lines, Ids

\* A call takes an id that is new.
LEMMA RegisterType ==
    ASSUME Types, NEW c \in Callers, Register(c)
    PROVE  CallerTypes' /\ LoopTypes' /\ Numbered'
<1>1. nextID' \in 0..MaxCalls /\ FreshID \in Ids /\ FreshID = nextID + 1
  BY NumberFacts DEF Register, Types, CallerTypes, FreshID, Ids
<1>2. FreshID \in 0..MaxCalls
  BY <1>1, NumberFacts
<1>3. CallerTypes'
  <2>1. pending' \in [Ids -> 0..MaxCalls]
    BY <1>1, <1>2 DEF Register, Types, CallerTypes
  <2>2. cid' \in [Callers -> 0..MaxCalls] /\ call' \in [Callers -> 0..MaxCalls]
    BY <1>1, <1>2 DEF Register, Types, CallerTypes
  <2> QED
    BY <1>1, <2>1, <2>2 DEF Register, Types, CallerTypes, wireVars
<1>4. LoopTypes'
  BY DEF Register, Types, LoopTypes, readVars, wireVars
<1>5. Numbered'
  BY <1>1 DEF Register, Types, CallerTypes, Numbered
<1> QED
  BY <1>3, <1>4, <1>5

\* The rest of a call.
LEMMA CallType ==
    ASSUME Types, NEW c \in Callers, CallStep(c)
    PROVE  Types'
<1>1. BackendTypes'
  BY DEF CallStep, runVars, daemonVars, Types, BackendTypes
<1>2. CASE \E heard \in BOOLEAN : Write(c, heard)
  <2>1. [id |-> cid[c], call |-> call[c]] \in Requests
    BY <1>2 DEF Write, Types, Numbered, Requests
  <2>2. CallerTypes' /\ LoopTypes'
    BY <1>2, <2>1 DEF Write, Types, CallerTypes, LoopTypes, readVars
  <2> QED
    BY <1>1, <1>2, <2>2 DEF Write, Types, CallerTypes, Numbered
<1>3. CASE WriteFails(c) \/ GiveUp(c) \/ Wait(c)
  <2>1. \E answers \in SUBSET Answers : Leave(c, answers)
    BY <1>3, NumberFacts DEF WriteFails, GiveUp, Wait, Disconnected, Answered, Types, CallerTypes
  <2>2. pending' \in [Ids -> 0..MaxCalls]
    BY <1>3, NumberFacts DEF WriteFails, GiveUp, RemovePending, Wait, Disconnected, Answered,
                             Types, CallerTypes
  <2>3. CallerTypes' /\ LoopTypes'
    BY <2>1, <2>2 DEF Leave, Types, CallerTypes, LoopTypes, readVars, wireVars
  <2>4. Numbered'
    BY <2>1 DEF Leave, Types, CallerTypes, Numbered
  <2> QED
    BY <1>1, <2>3, <2>4 DEF Types
<1> QED
  BY <1>2, <1>3 DEF CallStep

\* What callers find in their channels.
LEMMA HandType ==
    ASSUME Types, NEW calls, NEW answer \in Answers, Hand(calls, answer)
    PROVE  box' \in [Callers -> SUBSET Answers]
BY DEF Hand, Types, CallerTypes

\* The end of the scanner.
LEMMA ScannerType ==
    ASSUME Types, ScannerEnds
    PROVE  CallerTypes' /\ LoopTypes'
<1>1. box' \in [Callers -> SUBSET Answers]
  BY NumberFacts, HandType DEF ScannerEnds
<1>2. CallerTypes'
  BY <1>1, NumberFacts DEF ScannerEnds, callerVars, wireVars, Types, CallerTypes
<1>3. LoopTypes'
  BY DEF ScannerEnds, wireVars, Types, LoopTypes
<1> QED
  BY <1>2, <1>3

\* The read loop.
LEMMA ReadType ==
    ASSUME Types, Reader \/ Breaks
    PROVE  Types'
<1>1. BackendTypes' /\ UNCHANGED callerVars
  BY DEF Reader, Read, ReadNote, Notify, ReadResponse, ReadFails, ScannerEnds, ReaderDone, Breaks,
         StreamBreaks, runVars, daemonVars, Types, BackendTypes
<1>2. Numbered'
  BY <1>1 DEF callerVars, Types, Numbered
<1>3. wire # <<>> => Head(wire) \in Lines /\ Tail(wire) \in Seq(Lines)
  BY DEF Types, LoopTypes
<1>4. CASE ReadNote \/ Notify \/ ReaderDone
  <2>1. LoopTypes'
    BY <1>3, <1>4, NumberFacts DEF ReadNote, Notify, ReaderDone, Full, Types, LoopTypes, wireVars
  <2>2. CallerTypes'
    BY <1>1, <1>4 DEF ReadNote, Notify, ReaderDone, callerVars, wireVars, Types, CallerTypes
  <2> QED
    BY <1>1, <1>2, <2>1, <2>2 DEF Types
<1>5. CASE ReadResponse
  <2>1. Head(wire).answer \in Answers /\ Head(wire).id \in Ids
    BY <1>3, <1>5, LineFacts DEF ReadResponse
  <2>2. box' \in [Callers -> SUBSET Answers]
    BY <1>5, <2>1, HandType DEF ReadResponse
  <2>3. CallerTypes'
    BY <1>1, <1>5, <2>2, NumberFacts DEF ReadResponse, callerVars, Types, CallerTypes
  <2>4. LoopTypes'
    BY <1>3, <1>5 DEF ReadResponse, readVars, Types, LoopTypes
  <2> QED
    BY <1>1, <1>2, <2>3, <2>4 DEF Types
<1>6. CASE ScannerEnds
  BY <1>1, <1>2, <1>6, ScannerType DEF Types
<1> QED
  BY <1>4, <1>5, <1>6 DEF Reader, Read, ReadFails, Breaks, StreamBreaks

\* What signal-cli writes is a note or the response to a request it has.
LEMMA DaemonLine ==
    ASSUME Types, DaemonWrites
    PROVE  /\ \E l \in Lines :
                 /\ wire' = Append(wire, l)
                 /\ l.id # 0 => \E q \in asked : l.id = q.id /\ l.answer.call = q.call
           /\ asked' \subseteq asked /\ sentNotes' \in 0..MaxNotes
<1>1. asked \subseteq Requests /\ sentNotes \in 0..MaxNotes
  BY DEF Types, CallerTypes, LoopTypes
<1>2. CASE Respond
  <2>1. PICK q \in asked, ok \in BOOLEAN :
           /\ wire' = Append(wire, [id |-> q.id, answer |-> [call |-> q.call, ok |-> ok]])
           /\ asked' = asked \ {q}
    BY <1>2 DEF Respond
  <2>2. q.id \in Ids /\ q.call \in Ids
    BY <1>1 DEF Requests
  <2>3. [call |-> q.call, ok |-> ok] \in Answers
    BY <2>2, NumberFacts DEF Answers
  <2>4. [id |-> q.id, answer |-> [call |-> q.call, ok |-> ok]] \in Lines
    BY <2>2, <2>3, NumberFacts DEF Lines
  <2> QED
    BY <1>1, <1>2, <2>1, <2>4 DEF Respond
<1>3. CASE SendNote
  <2>1. Note.id = 0 /\ Note \in Lines
    BY NumberFacts DEF Note
  <2> QED
    BY <1>1, <1>3, <2>1, NumberFacts DEF SendNote
<1> QED
  BY <1>2, <1>3 DEF DaemonWrites

\* The daemon's lines and requests have their types.
LEMMA DaemonType ==
    ASSUME Types, DaemonWrites
    PROVE  Types'
<1>1. BackendTypes' /\ UNCHANGED <<callerVars, pending, box, readVars, conn>>
  BY DEF DaemonWrites, Respond, SendNote, runVars, daemonVars, Types, BackendTypes
<1>2. wire \in Seq(Lines) /\ asked \subseteq Requests
  BY DEF Types, CallerTypes, LoopTypes
<1>3. asked' \subseteq Requests /\ wire' \in Seq(Lines) /\ sentNotes' \in 0..MaxNotes
  BY <1>2, DaemonLine
<1>4. CallerTypes' /\ LoopTypes'
  BY <1>1, <1>3 DEF callerVars, readVars, Types, CallerTypes, LoopTypes
<1> QED
  BY <1>1, <1>4 DEF Types, Numbered, callerVars

\* Run, and the calls it and the others begin.
LEMMA RunType ==
    ASSUME Types, RunStep \/ SenderCalls
    PROVE  Types'
<1>1. CASE LoopCalls \/ SenderCalls
  <2>1. CallerTypes' /\ LoopTypes' /\ Numbered'
    BY <1>1, RegisterType, SignalAssumption DEF LoopCalls, SenderCalls
  <2>2. BackendTypes'
    BY <1>1 DEF LoopCalls, SenderCalls, Types, BackendTypes, runVars, daemonVars
  <2> QED
    BY <2>1, <2>2 DEF Types
<1> USE DEF Types, CallerTypes, LoopTypes, BackendTypes, Numbered, runVars, daemonVars, Runs
<1>2. CASE StartDaemon \/ StartFails \/ ConnectFails \/ HandlerQuiet \/ Handled \/ LoopEnds
           \/ Closed \/ Terminate \/ TermTimesOut \/ Returns
  <2>1. UNCHANGED rpcVars
    BY <1>2 DEF StartDaemon, StartFails, ConnectFails, HandlerQuiet, Handled, LoopEnds, Closed,
                Terminate, TermTimesOut, Returns
  <2>2. BackendTypes'
    BY <1>2 DEF StartDaemon, StartFails, ConnectFails, HandlerQuiet, Handled, LoopEnds, Closed,
                Terminate, TermTimesOut, Returns, Goto
  <2> QED
    BY <2>1, <2>2 DEF rpcVars, callerVars, readVars, wireVars
<1>3. CASE Connect \/ Subscribed \/ Unsubscribed
  <2>1. /\ UNCHANGED <<callerVars, pending, box, notes, errCh, wireVars>>
        /\ reader' \in {reader, "reading"} /\ conn' \in {conn, "open", "closed"}
    BY <1>3 DEF Connect, Subscribed, Unsubscribed, readVars
  <2>2. BackendTypes'
    BY <1>3 DEF Connect, Subscribed, Unsubscribed, Goto
  <2> QED
    BY <2>1, <2>2 DEF callerVars, wireVars
<1>4. CASE Message
  <2>1. /\ UNCHANGED <<callerVars, pending, box, errCh, reader, conn, wireVars>>
        /\ notes' \in 0..Capacity
    BY <1>4, NumberFacts DEF Message
  <2>2. BackendTypes'
    BY <1>4 DEF Message, Goto
  <2> QED
    BY <2>1, <2>2 DEF callerVars, wireVars
<1> QED
  BY <1>1, <1>2, <1>3, <1>4 DEF RunStep

\* Stops, kills and exits from outside.
LEMMA OutsideType ==
    ASSUME Types, Stop \/ ContextKills \/ DaemonExits \/ DaemonStalls \/ UNCHANGED vars
    PROVE  Types'
<1>1. UNCHANGED rpcVars
  BY DEF Stop, ContextKills, DaemonExits, DaemonStalls, vars
<1>2. CallerTypes' /\ LoopTypes' /\ Numbered'
  BY <1>1 DEF rpcVars, callerVars, readVars, wireVars, Types, CallerTypes, LoopTypes, Numbered
<1>3. BackendTypes'
  BY DEF Stop, ContextKills, DaemonExits, DaemonStalls, vars, runVars, daemonVars, Types,
         BackendTypes
<1> QED
  BY <1>2, <1>3 DEF Types

\* The types, as the parts the proofs work with.
LEMMA SignalTypes == Spec => []Types
<1>1. Init => Types
  <2> SUFFICES ASSUME Init
               PROVE  Types
    OBVIOUS
  <2>1. wire \in Seq(Lines)
    BY DEF Init, RpcInit
  <2>2. CallerTypes /\ \A c \in Callers : cst[c] = "idle"
    BY NumberFacts DEF Init, RpcInit, CallerTypes
  <2>3. LoopTypes
    <3>1. /\ notes = 0 /\ errCh = FALSE /\ reader = "none" /\ conn = "none" /\ sentNotes = 0
      BY DEF Init, RpcInit
    <3>2. notes \in 0..Capacity /\ sentNotes \in 0..MaxNotes
      BY <3>1, NumberFacts
    <3> QED
      BY <2>1, <3>1, <3>2 DEF LoopTypes
  <2>4. BackendTypes
    BY DEF Init, BackendTypes, Runs
  <2> QED
    BY <2>2, <2>3, <2>4 DEF Types, Numbered
<1>2. Types /\ [Next]_vars => Types'
  BY CallType, ReadType, DaemonType, RunType, OutsideType DEF Next
<1> QED
  BY <1>1, <1>2, PTL DEF Spec
-----------------------------------------------------------------------------
(* Answers.                                                                *)

\* What a caller has in its channel or got from it is for its last call.
OwnIn(chan, c) == \A a \in chan[c] : a = Failure \/ a.call = call[c]

\* An id is used for the call whose number it is and for no other: in the map
\* of channels, in the requests, and in the responses on their way.
AnswerInv ==
    /\ \A i \in Ids : pending[i] \in {0, i}
    /\ \A q \in asked : q.call = q.id
    /\ \A k \in 1..Len(wire) : wire[k].id # 0 => wire[k].answer.call = wire[k].id
    /\ \A c \in Callers : call[c] = cid[c] /\ OwnIn(box, c) /\ OwnIn(got, c)

\* A new call takes the next number for its id.
LEMMA RegisterAnswers ==
    ASSUME Types, AnswerInv, NEW c \in Callers, Register(c)
    PROVE  AnswerInv'
<1>1. FreshID = nextID + 1 /\ FreshID \in Ids
  BY NumberFacts DEF Register, FreshID, Types, CallerTypes, Ids
<1>2. \A i \in Ids : pending'[i] \in {0, i}
  BY <1>1 DEF Register, Types, CallerTypes, AnswerInv
<1>3. ASSUME NEW d \in Callers
      PROVE  call'[d] = cid'[d] /\ OwnIn(box, d)' /\ OwnIn(got, d)'
  <2>1. CASE d = c
    BY <1>1, <2>1 DEF Register, Types, CallerTypes, OwnIn
  <2>2. CASE d # c
    BY <2>2 DEF Register, Types, CallerTypes, OwnIn, AnswerInv
  <2> QED
    BY <2>1, <2>2
<1> QED
  BY <1>2, <1>3 DEF Register, AnswerInv, wireVars

\* A request carries the id and the number of its call; a caller takes what is
\* in its channel, or a failure.
LEMMA CallAnswers ==
    ASSUME Types, AnswerInv, NEW c \in Callers, CallStep(c)
    PROVE  AnswerInv'
<1>1. CASE \E heard \in BOOLEAN : Write(c, heard)
  BY <1>1 DEF Write, AnswerInv, OwnIn
<1>2. CASE WriteFails(c) \/ GiveUp(c) \/ Wait(c)
  <2>1. \E answers \in {box[c], {Failure}} : Leave(c, answers)
    BY <1>2 DEF WriteFails, GiveUp, Wait, Disconnected, Answered
  <2>2. UNCHANGED <<cid, call, box, wire, asked>>
    BY <2>1 DEF Leave, wireVars
  <2>3. \A i \in Ids : pending'[i] \in {0, i}
    BY <1>2 DEF WriteFails, GiveUp, RemovePending, Wait, Disconnected, Answered, AnswerInv,
                Types, CallerTypes
  <2>4. \A d \in Callers : got'[d] \in {got[d], box[d], {Failure}}
    BY <2>1 DEF Leave, Types, CallerTypes
  <2>5. \A d \in Callers : OwnIn(got, d)'
    BY <2>2, <2>4 DEF AnswerInv, OwnIn
  <2> QED
    BY <2>2, <2>3, <2>5 DEF AnswerInv, OwnIn
<1> QED
  BY <1>1, <1>2 DEF CallStep

\* The read loop hands a response to the call that is stored under its id.
LEMMA ReadAnswers ==
    ASSUME Types, AnswerInv, Reader \/ Breaks
    PROVE  AnswerInv'
<1>1. UNCHANGED <<callerVars, asked>>
  BY DEF Reader, Read, ReadNote, Notify, ReadResponse, ReadFails, ScannerEnds, ReaderDone, Breaks,
         StreamBreaks, wireVars
<1>2. wire \in Seq(Lines)
  BY DEF Types, LoopTypes
<1>3. \A k \in 1..Len(wire') : wire'[k].id # 0 => wire'[k].answer.call = wire'[k].id
  <2>1. CASE wire' = wire
    BY <2>1 DEF AnswerInv
  <2>2. CASE wire # <<>> /\ wire' = Tail(wire)
    <3>1. \A k \in 1..Len(wire') : k + 1 \in 1..Len(wire) /\ wire'[k] = wire[k + 1]
      BY <1>2, <2>2
    <3> QED
      BY <3>1 DEF AnswerInv
  <2> QED
    BY <2>1, <2>2 DEF Reader, Read, ReadNote, Notify, ReadResponse, ReadFails, ScannerEnds,
                      ReaderDone, Breaks, StreamBreaks, wireVars
<1>4. \A i \in Ids : pending'[i] \in {0, i}
  BY DEF Reader, Read, ReadNote, Notify, ReadResponse, ReadFails, ScannerEnds, ReaderDone, Breaks,
         StreamBreaks, AnswerInv, Types, CallerTypes
<1>5. \A c \in Callers : OwnIn(box, c)'
  <2>1. CASE ReadResponse
    <3> DEFINE l == Head(wire)
    <3>1. l = wire[1] /\ 1 \in 1..Len(wire) /\ l \in Lines /\ l.id # 0
      BY <1>2, <2>1 DEF ReadResponse
    <3>2. l.answer.call = l.id /\ l.id \in Ids
      BY <3>1, LineFacts DEF AnswerInv
    <3>3. Hand({pending[l.id]}, l.answer)
      BY <2>1 DEF ReadResponse
    <3> HIDE DEF l
    <3>4. \A c \in Callers : cst[c] # "idle" /\ call[c] = pending[l.id] => call[c] = l.answer.call
      BY <3>2, NumberFacts DEF AnswerInv, Types, Numbered
    <3> QED
      BY <1>1, <3>3, <3>4 DEF Hand, OwnIn, AnswerInv, callerVars
  <2>2. CASE ScannerEnds
    BY <1>1, <2>2 DEF ScannerEnds, Hand, OwnIn, AnswerInv, callerVars
  <2>3. CASE ReadNote \/ Notify \/ ReaderDone
    BY <1>1, <2>3 DEF ReadNote, Notify, ReaderDone, OwnIn, AnswerInv, callerVars
  <2> QED
    BY <2>1, <2>2, <2>3 DEF Reader, Read, ReadFails, Breaks, StreamBreaks
<1> QED
  BY <1>1, <1>3, <1>4, <1>5 DEF AnswerInv, OwnIn, callerVars

\* A response has the id and the number of the request it answers.
LEMMA DaemonAnswers ==
    ASSUME Types, AnswerInv, DaemonWrites
    PROVE  AnswerInv'
<1>1. UNCHANGED <<callerVars, pending, box>> /\ asked' \subseteq asked
  BY DEF DaemonWrites, Respond, SendNote
<1>2. wire \in Seq(Lines)
  BY DEF Types, LoopTypes
<1>3. PICK l \in Lines : wire' = Append(wire, l) /\ (l.id # 0 => l.answer.call = l.id)
  BY DaemonLine DEF AnswerInv
<1>4. \A k \in 1..Len(wire') : (k \in 1..Len(wire) /\ wire'[k] = wire[k]) \/ wire'[k] = l
  BY <1>2, <1>3
<1>5. \A k \in 1..Len(wire') : wire'[k].id # 0 => wire'[k].answer.call = wire'[k].id
  BY <1>3, <1>4 DEF AnswerInv
<1> QED
  BY <1>1, <1>5 DEF AnswerInv, OwnIn, callerVars

\* A response that a caller gets is the daemon's to the call it made: not to
\* another caller's, and not the late one to a call that gave up, since an id
\* is never used again and stands for one call in the map of channels.
THEOREM ResponsesAreOwn == Spec => []OwnResponse
<1>1. Init => AnswerInv
  BY DEF Init, RpcInit, AnswerInv, OwnIn
<1>2. AnswerInv /\ Types /\ [Next]_vars => AnswerInv'
  <2> SUFFICES ASSUME AnswerInv, Types, [Next]_vars
               PROVE  AnswerInv'
    OBVIOUS
  <2>1. CASE LoopCalls \/ SenderCalls
    BY <2>1, RegisterAnswers, SignalAssumption DEF LoopCalls, SenderCalls
  <2>2. CASE \/ RunStep /\ ~LoopCalls
             \/ Stop \/ ContextKills \/ DaemonExits \/ DaemonStalls \/ UNCHANGED vars
    <3>1. UNCHANGED <<callerVars, pending, box, wire, asked>>
      BY <2>2 DEF RunStep, StartDaemon, StartFails, Connect, ConnectFails, HandlerQuiet,
                  Subscribed, Message, Handled, LoopEnds, Unsubscribed, Closed, Terminate,
                  TermTimesOut, Returns, Stop, ContextKills, DaemonExits, DaemonStalls, vars,
                  rpcVars, wireVars
    <3> QED
      BY <3>1 DEF callerVars, AnswerInv, OwnIn
  <2> QED
    BY <2>1, <2>2, CallAnswers, ReadAnswers, DaemonAnswers DEF Next
<1>3. AnswerInv => OwnResponse
  BY DEF AnswerInv, OwnIn, OwnResponse
<1> QED
  BY <1>1, <1>2, <1>3, SignalTypes, PTL DEF Spec
-----------------------------------------------------------------------------
(* The end of Run.                                                         *)

Unconnected == {"off", "connecting"}
TakenDown == {"terminating", "killing", "returned"}

\* Callers come and go while there is a connection; rpc is set for as long as
\* Run has one, and the daemon is up or dead once it was started.
EndInv ==
    /\ reader = "none" <=> conn = "none"
    /\ run \in Unconnected => conn = "none"
    /\ conn = "none" => \A c \in Callers : cst[c] = "idle"
    /\ rpc => conn # "none" /\ run \notin TakenDown
    /\ run \notin Unconnected \cup TakenDown => conn # "none"
    /\ run \in TakenDown => reader \in {"none", "done"}
    /\ run \in {"off", "killing", "returned"} => ~daemonSet
    /\ run = "off" => daemon = "off"
    /\ run = "returned" => daemon # "up"

\* Calls and responses take no part in the teardown.
LEMMA CallEnd ==
    ASSUME Types, EndInv,
           \/ LoopCalls \/ SenderCalls \/ DaemonWrites
           \/ \E c \in Callers : CallStep(c)
    PROVE  EndInv'
<1>1. UNCHANGED <<reader, conn, rpc, run, daemon, daemonSet>>
  BY DEF LoopCalls, SenderCalls, Register, CallStep, Write, WriteFails, GiveUp, Wait, Disconnected,
         Answered, Leave, DaemonWrites, Respond, SendNote, readVars, runVars, daemonVars
<1>2. ASSUME conn = "none", NEW c \in Callers
      PROVE  cst'[c] = "idle"
  <2>1. \A d \in Callers : cst[d] = "idle"
    BY <1>2 DEF EndInv
  <2>2. ~LoopCalls /\ ~SenderCalls /\ ~\E d \in Callers : CallStep(d)
    BY <1>2, <2>1 DEF LoopCalls, SenderCalls, EndInv, Calling, Unconnected, TakenDown, CallStep,
                      Write, WriteFails, GiveUp, Wait, Disconnected, Answered
  <2>3. cst' = cst
    BY <2>2 DEF DaemonWrites, Respond, SendNote, callerVars
  <2> QED
    BY <2>1, <2>3
<1> QED
  BY <1>1, <1>2 DEF EndInv

\* The teardown itself, and what ends the connection and the daemon.
LEMMA RunEnd ==
    ASSUME Types, EndInv,
           \/ RunStep \/ Reader \/ Breaks \/ Stop \/ ContextKills \/ DaemonExits
           \/ DaemonStalls \/ UNCHANGED vars,
           ~LoopCalls
    PROVE  EndInv'
<1> USE DEF EndInv, Unconnected, TakenDown
<1>1. CASE Reader \/ Breaks
  <2>1. /\ UNCHANGED <<callerVars, conn, rpc, run, daemon, daemonSet>>
        /\ reader' = reader \/ (reader \notin {"none", "done"} /\ reader' # "none")
    BY <1>1 DEF Reader, Read, ReadNote, Notify, ReadResponse, ReadFails, ScannerEnds,
                ReaderDone, Breaks, StreamBreaks, runVars, daemonVars, readVars
  <2> QED
    BY <2>1 DEF callerVars
<1>2. CASE Connect \/ Subscribed \/ Unsubscribed
  <2>1. cst' = cst
    BY <1>2 DEF Connect, Subscribed, Unsubscribed, callerVars
  <2> QED
    BY <1>2, <2>1 DEF Connect, Subscribed, Unsubscribed, Goto, readVars, daemonVars
<1>3. CASE Message
  BY <1>3 DEF Message, Goto, callerVars, daemonVars
<1>4. CASE StartDaemon \/ StartFails \/ ConnectFails \/ HandlerQuiet \/ Handled \/ LoopEnds
           \/ Stop \/ ContextKills \/ DaemonExits \/ DaemonStalls \/ UNCHANGED vars
  <2>1. UNCHANGED <<cst, conn, reader, rpc>>
    BY <1>4 DEF StartDaemon, StartFails, ConnectFails, HandlerQuiet, Handled, LoopEnds, Stop,
                ContextKills,
                DaemonExits, DaemonStalls, vars, rpcVars, callerVars, readVars
  <2> QED
    BY <1>4, <2>1 DEF StartDaemon, StartFails, ConnectFails, HandlerQuiet, Handled, LoopEnds, Stop,
                      ContextKills, DaemonExits, DaemonStalls, Goto, vars, runVars, daemonVars
<1>5. CASE Closed \/ Terminate \/ TermTimesOut \/ Returns
  <2>1. UNCHANGED <<cst, conn, reader>>
    BY <1>5 DEF Closed, Terminate, TermTimesOut, Returns, rpcVars, callerVars, readVars
  <2> QED
    BY <1>5, <2>1 DEF Closed, Terminate, TermTimesOut, Returns, DaemonStopped, Goto, runVars,
                      daemonVars
<1> QED
  BY <1>1, <1>2, <1>3, <1>4, <1>5 DEF RunStep

\* The invariant of Run's way down.
LEMMA EndCorrect == Spec => []EndInv
<1>1. Init => EndInv
  BY DEF Init, RpcInit, EndInv, Unconnected, TakenDown
<1>2. EndInv /\ Types /\ [Next]_vars => EndInv'
  BY CallEnd, RunEnd DEF Next
<1> QED
  BY <1>1, <1>2, SignalTypes, PTL DEF Spec

\* When Run returns, whatever ended it and however far it had come: the
\* process is gone, nobody finds a client, and no caller waits in vain.
THEOREM NothingIsLeft == Spec => []NothingLeft
<1>1. EndInv => NothingLeft
  BY DEF EndInv, NothingLeft, TakenDown
<1> QED
  BY <1>1, EndCorrect, PTL

\* The notifications channel stays within its capacity, ids within their
\* bound, and nothing reads before Run has connected.
THEOREM SignalTypeCorrect == Spec => []TypeOK
<1>1. EndInv /\ Types => TypeOK
  BY DEF EndInv, Unconnected, Types, CallerTypes, LoopTypes, BackendTypes, TypeOK, RpcTypeOK
<1> QED
  BY <1>1, EndCorrect, SignalTypes, PTL
=============================================================================
