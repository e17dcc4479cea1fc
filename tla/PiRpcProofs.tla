----------------------------- MODULE PiRpcProofs -----------------------------
(***************************************************************************)
(* Theorems about the dialogue with pi, for any number of calls, any       *)
(* capacity of the events channel and any number of attempts: the types,   *)
(* whose outcome a call reports, and what it leaves behind.                *)
(***************************************************************************)
EXTENDS PiRpc, TLAPS, SequenceTheorems

-----------------------------------------------------------------------------
(* The channel.                                                            *)

EventSet == [type : Types, turn : 0..Calls, says : BOOLEAN]
Inputs == Kinds \cup {"abort", "answer"}

\* The oldest event is taken.
Took == events # <<>> /\ events' = Tail(events)

\* x is the newest event, with nothing but the end of the retries before it.
Grown(x) ==
    /\ events' \in Seq(EventSet) /\ Len(events) < Len(events') /\ Len(events') <= Capacity
    /\ events'[Len(events')] = x
    /\ \A i \in 1..Len(events) : events'[i] = events[i]
    /\ \A i \in Len(events) + 1..Len(events') - 1 : events'[i].type = "retryOK"

\* The channel after its oldest event was taken.
LEMMA TookEvents ==
    ASSUME TypeOK, Took
    PROVE  /\ events' \in Seq(EventSet) /\ Len(events') <= Capacity
           /\ Len(events) \in Nat \ {0} /\ Len(events') = Len(events) - 1
           /\ \A i \in 1..Len(events') : events'[i] = events[i + 1]
           /\ Head(events) = events[1] /\ events[1] \in EventSet
<1>1. events \in Seq(EventSet) /\ Len(events) <= Capacity /\ Capacity \in Nat
  BY RpcAssumption DEF TypeOK, EventSet
<1>2. events # <<>> /\ events' = Tail(events)
  BY DEF Took
<1>3. Tail(events) \in Seq(EventSet) /\ Len(Tail(events)) = Len(events) - 1
      /\ Len(events) \in Nat \ {0}
  BY <1>1, <1>2
<1>4. \A i \in 1..Len(Tail(events)) : Tail(events)[i] = events[i + 1]
  BY <1>1, <1>2, <1>3
<1>5. Head(events) = events[1] /\ events[1] \in EventSet
  BY <1>1, <1>2, <1>3
<1> QED
  BY <1>1, <1>2, <1>3, <1>4, <1>5

\* An event of the turn that pi is in.
LEMMA EventType ==
    ASSUME TypeOK, NEW type \in Types
    PROVE  /\ \A says \in BOOLEAN :
                /\ Event(type, says) \in EventSet
                /\ Event(type, says).type = type /\ Event(type, says).turn = turn
           /\ Plain(type) \in EventSet /\ Plain(type).type = type /\ Plain(type).turn = turn
BY DEF TypeOK, Event, Plain, EventSet

\* The channel after pi put one event there ...
LEMMA EmitOne ==
    ASSUME TypeOK, NEW x \in EventSet, Emit(<<x>>)
    PROVE  Grown(x)
<1>1. events \in Seq(EventSet) /\ Len(events) \in Nat
  BY DEF TypeOK, EventSet
<1>2. <<x>> \in Seq(EventSet) /\ Len(<<x>>) = 1 /\ <<x>>[1] = x
  OBVIOUS
<1>3. events' = events \o <<x>> /\ Len(events) + 1 <= Capacity
  BY <1>2 DEF Emit
<1>4. events' \in Seq(EventSet) /\ Len(events') = Len(events) + 1
  BY <1>1, <1>2, <1>3, ConcatProperties
<1>5. \A i \in 1..Len(events') :
         events'[i] = IF i <= Len(events) THEN events[i] ELSE <<x>>[i - Len(events)]
  BY <1>1, <1>2, <1>3, <1>4, ConcatProperties
<1>6. events'[Len(events')] = x
  BY <1>1, <1>2, <1>4, <1>5
<1>7. \A i \in 1..Len(events) : events'[i] = events[i]
  BY <1>1, <1>4, <1>5
<1> QED
  BY <1>1, <1>3, <1>4, <1>6, <1>7 DEF Grown

\* ... or the end of the retries and one event ...
LEMMA EmitTwo ==
    ASSUME TypeOK, NEW w \in EventSet, NEW x \in EventSet, w.type = "retryOK",
           Emit(<<w>> \o <<x>>)
    PROVE  Grown(x)
<1>1. events \in Seq(EventSet) /\ Len(events) \in Nat
  BY DEF TypeOK, EventSet
<1> DEFINE es == <<w>> \o <<x>>
<1>2. es \in Seq(EventSet) /\ Len(es) = 2 /\ es[1] = w /\ es[2] = x
  OBVIOUS
<1>3. events' = events \o es /\ Len(events) + 2 <= Capacity
  BY <1>2 DEF Emit
<1> HIDE DEF es
<1>4. /\ events' \in Seq(EventSet) /\ Len(events') = Len(events) + Len(es)
      /\ \A i \in 1..Len(events) + Len(es) :
            events'[i] = IF i <= Len(events) THEN events[i] ELSE es[i - Len(events)]
  BY <1>1, <1>2, <1>3, ConcatProperties
<1>5. /\ Len(events') = Len(events) + 2
      /\ \A i \in 1..Len(events') :
            events'[i] = IF i <= Len(events) THEN events[i] ELSE es[i - Len(events)]
  BY <1>1, <1>2, <1>4
<1>6. events'[Len(events')] = x /\ events'[Len(events) + 1] = w
  BY <1>1, <1>2, <1>5
<1>7. \A i \in 1..Len(events) : events'[i] = events[i]
  BY <1>1, <1>5
<1> QED
  BY <1>1, <1>3, <1>4, <1>5, <1>6, <1>7 DEF Grown

\* ... or nothing.
LEMMA EmitNone ==
    ASSUME TypeOK, Emit(<<>>)
    PROVE  events' = events
<1>1. events \in Seq(EventSet)
  BY DEF TypeOK, EventSet
<1> QED
  BY <1>1, ConcatEmptySeq DEF Emit
-----------------------------------------------------------------------------
(* Types.                                                                  *)

Results == [how : Outcomes, turn : 0..Calls]

\* What drainEvents writes for an event.
LEMMA CommandsType ==
    ASSUME TypeOK, NEW e
    PROVE  cmds \o Commands(e) \in Seq(Inputs)
<1>1. cmds \in Seq(Inputs) /\ "abort" \in Inputs /\ "answer" \in Inputs
  BY DEF TypeOK, Inputs
<1>2. <<>> \in Seq(Inputs) /\ <<"abort">> \in Seq(Inputs) /\ <<"answer">> \in Seq(Inputs)
  BY <1>1
<1>3. Commands(e) \in Seq(Inputs)
  BY <1>2 DEF Commands
<1> QED
  BY <1>1, <1>3

\* The numbers of the calls.
LEMMA CallNumbers ==
    ASSUME TypeOK
    PROVE  /\ Calls \in Nat \ {0} /\ 0 \in 0..Calls
           /\ call \in Nat /\ turn \in Nat /\ 1..Calls \subseteq 0..Calls
BY RpcAssumption DEF TypeOK

\* The result of a call that returns.
LEMMA ReturnType ==
    ASSUME TypeOK, NEW how \in Outcomes, NEW t \in 0..Calls, Return(how, t),
           cmds' \in Seq(Inputs), events' \in Seq(EventSet), Len(events') <= Capacity
    PROVE  TypeOK'
<1>1. result' \in [1..Calls -> Results]
  BY DEF Return, TypeOK, Results
<1> QED
  BY <1>1, CallNumbers DEF Return, TypeOK, Results, Inputs, EventSet, piVars

\* The caller takes an event.
LEMMA TakeType ==
    ASSUME TypeOK, Handle \/ Rescind \/ Swallow
    PROVE  TypeOK'
<1>1. Took
  BY DEF Handle, Skip, Answered, AnsweredBlank, Rejected, Commit, Rescind, Swallow, Take,
         Took
<1>2. /\ events' \in Seq(EventSet) /\ Len(events') <= Capacity
      /\ Head(events) \in EventSet
  BY <1>1, TookEvents
<1>3. CASE Handle
  <2> DEFINE e == Head(events)
  <2>1. e \in EventSet /\ e.turn \in 0..Calls
    BY <1>2 DEF EventSet
  <2> HIDE DEF e
  <2>2. cmds \o Commands(e) \in Seq(Inputs)
    BY CommandsType
  <2>3. CASE Skip(e)
    BY <1>2, <2>2, <2>3 DEF Skip, TypeOK, Inputs, EventSet, piVars, history
  <2>4. CASE Answered(e)
    <3>1. "reply" \in Outcomes
      BY DEF Outcomes
    <3> QED
      BY <1>2, <2>1, <2>2, <2>4, <3>1, ReturnType DEF Answered
  <2>7. CASE AnsweredBlank(e)
    <3>1. "reply" \in Outcomes /\ reply \in 0..Calls
      BY DEF Outcomes, TypeOK
    <3> QED
      BY <1>2, <2>2, <2>7, <3>1, ReturnType DEF AnsweredBlank
  <2>5. CASE Rejected(e)
    <3>1. (IF cancelled THEN "cancelled" ELSE "rejected") \in Outcomes
      BY DEF Outcomes
    <3> QED
      BY <1>2, <2>2, <2>5, <3>1, ReturnType, CallNumbers DEF Rejected
  <2>6. CASE Commit(e)
    <3>1. reply' \in 0..Calls
      BY <2>1, <2>6 DEF Commit, TypeOK
    <3> QED
      BY <1>2, <2>2, <2>6, <3>1 DEF Commit, TypeOK, Inputs, EventSet, piVars, history
  <2> QED
    BY <1>3, <2>3, <2>4, <2>5, <2>6, <2>7 DEF Handle, e
<1>4. CASE Rescind
  BY <1>2, <1>4 DEF Rescind, TypeOK, EventSet, piVars, history
<1>5. CASE Swallow
  BY <1>2, <1>5 DEF Swallow, TypeOK, EventSet, callVars, piVars, history
<1> QED
  BY <1>3, <1>4, <1>5

\* A call begins, is cancelled, or ends without an event.
LEMMA CallType ==
    ASSUME TypeOK, cpc # "idle" => call # 0,
           (\E k \in Kinds : Send(k)) \/ Cancel \/ DrainFails \/ GraceEnds
    PROVE  TypeOK'
<1>1. ASSUME NEW k \in Kinds, Send(k)
      PROVE  TypeOK'
  <2>1. cmds' \in Seq(Inputs)
    <3>1. cmds \in Seq(Inputs) /\ k \in Inputs
      BY DEF TypeOK, Inputs
    <3> QED
      BY <1>1, <3>1 DEF Send
  <2>2. call' \in 1..Calls /\ call' \in 0..Calls
    BY <1>1, CallNumbers DEF Send, TypeOK
  <2>3. clean' \subseteq 1..Calls
    BY <1>1, <2>2 DEF Send, TypeOK
  <2> QED
    BY <1>1, <2>1, <2>2, <2>3 DEF Send, TypeOK, Inputs, piVars
<1>2. CASE Cancel
  <2>1. call \in 1..Calls
    BY <1>2, CallNumbers DEF Cancel, TypeOK
  <2>2. cut' \subseteq 1..Calls
    BY <1>2, <2>1 DEF Cancel, TypeOK
  <2> QED
    BY <1>2, <2>2 DEF Cancel, TypeOK, piVars
<1>3. events \in Seq(EventSet) /\ Len(events) <= Capacity /\ cmds \in Seq(Inputs)
  BY DEF TypeOK, EventSet, Inputs
<1>4. CASE DrainFails
  <2>1. (IF cancelled THEN "cancelled" ELSE "failed") \in Outcomes
    BY DEF Outcomes
  <2> QED
    BY <1>3, <1>4, <2>1, ReturnType, CallNumbers DEF DrainFails
<1>5. CASE GraceEnds
  <2>1. "refused" \in Outcomes /\ reply \in 0..Calls
    BY DEF Outcomes, TypeOK
  <2> QED
    BY <1>3, <1>5, <2>1, ReturnType DEF GraceEnds
<1> QED
  BY <1>1, <1>2, <1>4, <1>5

\* What pi's steps leave as it is.
LEMMA PiLeaves ==
    ASSUME Pi
    PROVE  UNCHANGED <<callVars, closed, exited, history>>
BY DEF Pi, PiReads, Starts, Bounces, IsAborted, IsAnswered, PiAsks, PiTalks, PiEnds,
       PiFollowsUp, PiRetries, PiMoves, PiKeeps

\* pi moves, with or without an event.
LEMMA PiMovesType ==
    ASSUME TypeOK, NEW from, NEW es, NEW to, PiMoves(from, es, to),
           (es = <<>>) \/ (\E x \in EventSet : es = <<x>>)
              \/ (\E w, x \in EventSet : w.type = "retryOK" /\ es = <<w>> \o <<x>>)
    PROVE  /\ events' \in Seq(EventSet) /\ Len(events') <= Capacity
           /\ UNCHANGED <<callVars, cmds, closed, exited, turn, history>>
           /\ pi = from /\ pi' = to
<1>1. UNCHANGED <<callVars, cmds, closed, exited, turn, history>> /\ pi = from /\ pi' = to
      /\ Emit(es)
  BY DEF PiMoves, PiKeeps
<1>2. events \in Seq(EventSet) /\ Len(events) <= Capacity
  BY DEF TypeOK, EventSet
<1>3. CASE es = <<>>
  BY <1>1, <1>2, <1>3, EmitNone
<1>4. CASE \E x \in EventSet : es = <<x>>
  BY <1>1, <1>4, EmitOne DEF Grown
<1>5. CASE \E w, x \in EventSet : w.type = "retryOK" /\ es = <<w>> \o <<x>>
  BY <1>1, <1>5, EmitTwo DEF Grown
<1> QED
  BY <1>1, <1>3, <1>4, <1>5

\* The end of a turn that took several attempts comes after the end of the
\* retries.
LEMMA RecoveredEnd ==
    ASSUME TypeOK, NEW x \in EventSet
    PROVE  \/ Recovered \o <<x>> = <<x>>
           \/ \E w \in EventSet : w.type = "retryOK" /\ Recovered \o <<x>> = <<w>> \o <<x>>
<1>1. <<x>> \in Seq(EventSet)
  OBVIOUS
<1>2. Plain("retryOK") \in EventSet /\ Plain("retryOK").type = "retryOK"
  BY EventType DEF Types
<1> QED
  BY <1>1, <1>2, ConcatEmptySeq DEF Recovered

\* What is left to show when the events keep their type.
LEMMA PiType ==
    ASSUME TypeOK, UNCHANGED <<callVars, closed, exited, history>>,
           events' \in Seq(EventSet) /\ Len(events') <= Capacity,
           cmds' = cmds \/ (cmds # <<>> /\ cmds' = Tail(cmds)),
           pi' \in {"idle", "working", "asking", "failing", "backoff", "compacting"},
           turn' \in {turn, call},
           tries' \in {tries, 1} \/ (tries < MaxTries /\ tries' = tries + 1),
           ended' = ended \/ \E f \in Ends : ended' = [ended EXCEPT ![turn] = f]
    PROVE  TypeOK'
<1>1. cmds' \in Seq(Inputs)
  <2>1. cmds \in Seq(Inputs)
    BY DEF TypeOK, Inputs
  <2>2. cmds # <<>> => Tail(cmds) \in Seq(Inputs)
    BY <2>1
  <2> QED
    BY <2>1, <2>2
<1>2. tries' \in 0..MaxTries
  BY RpcAssumption DEF TypeOK
<1>3. ended' \in [1..Calls -> Ends \cup {"none"}]
  BY DEF TypeOK
<1> QED
  BY <1>1, <1>2, <1>3 DEF TypeOK, Inputs, EventSet, callVars, history

\* pi reads a command.
LEMMA ReadsType ==
    ASSUME TypeOK, PiReads
    PROVE  TypeOK'
<1>0. UNCHANGED <<callVars, closed, exited, history>>
  BY DEF PiReads, Starts, Bounces, IsAborted, IsAnswered, PiKeeps
<1>1. events \in Seq(EventSet) /\ Len(events) <= Capacity
  BY DEF TypeOK, EventSet
<1>2. CASE Starts \/ IsAnswered
  <2>1. pi' \in {"idle", "working", "asking", "failing", "backoff", "compacting"}
    BY <1>2 DEF Starts, IsAnswered, Reading, TypeOK
  <2> QED
    BY <1>0, <1>1, <1>2, <2>1, PiType DEF Starts, IsAnswered, Reading
<1>3. CASE Bounces
  <2>1. Plain("reject") \in EventSet
    BY EventType DEF Types, Terminal
  <2>2. Grown(Plain("reject"))
    BY <1>3, <2>1, EmitOne DEF Bounces
  <2>3. pi \in {"idle", "working", "asking", "failing", "backoff", "compacting"}
    BY <1>3 DEF Bounces, Reading, TypeOK
  <2> QED
    BY <1>0, <1>3, <2>2, <2>3, PiType DEF Bounces, Reading, Grown, piVars
<1>4. CASE IsAborted
  <2>1. cmds # <<>> /\ cmds' = Tail(cmds) /\ pi # "gone"
    BY <1>4 DEF IsAborted, Reading
  <2>2. CASE UNCHANGED <<events, piVars>>
    BY <1>0, <1>1, <2>1, <2>2, PiType DEF TypeOK, piVars
  <2>3. CASE \E x \in EventSet : Emit(<<x>>) /\ pi' = "idle" /\ UNCHANGED <<turn, tries, ended>>
    BY <1>0, <2>1, <2>3, EmitOne, PiType DEF Grown
  <2>4. /\ \A t \in BOOLEAN : Event("retryFail", t) \in EventSet
        /\ Plain("end") \in EventSet /\ Plain("reject") \in EventSet
    BY EventType DEF Types, Terminal, Ends
  <2> QED
    BY <1>4, <2>2, <2>3, <2>4 DEF IsAborted
<1> QED
  BY <1>2, <1>3, <1>4 DEF PiReads

\* pi goes on with its turn.
LEMMA TurnType ==
    ASSUME TypeOK, PiAsks \/ PiTalks \/ PiEnds \/ PiFollowsUp \/ PiRetries
    PROVE  TypeOK'
<1>1. /\ \A type \in Types : Plain(type) \in EventSet
      /\ \A type \in Types : \A t \in BOOLEAN : Event(type, t) \in EventSet
  BY EventType
<1>2. {"ui", "other", "end", "error", "compacted", "reject", "retryFail", "retry", "compaction"}
         \subseteq Types
  BY DEF Types, Terminal, Ends, Continues
<1>3. CASE PiAsks \/ PiTalks \/ PiRetries
  <2>1. \E from, es, to : /\ PiMoves(from, es, to) /\ UNCHANGED <<tries, ended>>
                          /\ es = <<>> \/ \E x \in EventSet : es = <<x>>
                          /\ to \in {"asking", "working"}
    BY <1>1, <1>2, <1>3 DEF PiAsks, PiTalks, PiRetries
  <2> QED
    BY <2>1, PiMovesType, PiType
<1>4. CASE PiEnds
  <2>1. tries' = tries
    BY <1>4 DEF PiEnds
  <2>2. Plain("end") \in EventSet /\ Plain("error") \in EventSet
        /\ Plain("compacted") \in EventSet /\ Plain("reject") \in EventSet
    BY <1>1, <1>2
  <2>3. CASE PiMoves("working", Recovered \o <<Plain("end")>>, "idle")
             /\ ended' = [ended EXCEPT ![turn] = "end"]
    BY <2>1, <2>2, <2>3, RecoveredEnd, PiMovesType, PiType DEF Ends
  <2>4. CASE PiMoves("working", <<Plain("error")>>, "failing")
             /\ ended' = [ended EXCEPT ![turn] = "error"]
    BY <2>1, <2>2, <2>4, PiMovesType, PiType DEF Ends
  <2>5. CASE \/ /\ PiMoves("compacting", <<Plain("compacted")>>, "idle")
                /\ ended' = [ended EXCEPT ![turn] = "end"]
             \/ PiMoves("compacting", <<Plain("reject")>>, "idle") /\ UNCHANGED ended
    BY <2>1, <2>2, <2>5, PiMovesType, PiType DEF Ends
  <2> QED
    BY <1>4, <2>3, <2>4, <2>5 DEF PiEnds
<1>5. CASE PiFollowsUp
  <2>1. \E from, es, to : /\ PiMoves(from, es, to) /\ UNCHANGED ended
                          /\ es = <<>> \/ \E x \in EventSet : es = <<x>>
                          /\ to \in {"idle", "backoff", "working"}
    BY <1>1, <1>2, <1>5 DEF PiFollowsUp
  <2>2. tries' \in {tries, 1} \/ (tries < MaxTries /\ tries' = tries + 1)
    BY <1>5 DEF PiFollowsUp
  <2> QED
    BY <2>1, <2>2, PiMovesType, PiType
<1> QED
  BY <1>3, <1>4, <1>5

\* An attempt ends in an error that says nothing.
LEMMA MuteType ==
    ASSUME TypeOK, PiFailsMutely
    PROVE  TypeOK'
<1>1. Plain("end") \in EventSet
  BY EventType DEF Types, Terminal, Ends
<1>2. events' \in Seq(EventSet) /\ Len(events') <= Capacity
  BY <1>1, EmitOne DEF PiFailsMutely, Grown
<1>3. ended' \in [1..Calls -> Ends \cup {"none"}] /\ mute' \subseteq 0..Calls
  BY DEF PiFailsMutely, TypeOK, Ends
<1> QED
  BY <1>2, <1>3 DEF PiFailsMutely, TypeOK, EventSet, callVars

\* A call that has begun has a number.
TypeInv == TypeOK /\ (cpc # "idle" => call # 0)

\* The type invariant needs that: a call of number 0 would have no result.
LEMMA TypeInvariant == Spec => []TypeInv
<1>1. Init => TypeInv
  <2> SUFFICES ASSUME Init
               PROVE  TypeInv
    OBVIOUS
  <2>1. cmds \in Seq(Inputs) /\ events \in Seq(EventSet) /\ Len(events) = 0
    BY DEF Init
  <2>2. call \in 0..Calls /\ turn \in 0..Calls /\ tries \in 0..MaxTries /\ 0 <= Capacity
        /\ 0 \in 0..Calls
    BY RpcAssumption DEF Init
  <2>3. /\ ended \in [1..Calls -> Ends \cup {"none"}] /\ result \in [1..Calls -> Results]
        /\ reply \in 0..Calls
    BY <2>2 DEF Init, Results, Outcomes
  <2> QED
    BY <2>1, <2>2, <2>3 DEF Init, TypeInv, TypeOK, Kinds, Inputs, EventSet, Results
<1>2. TypeInv /\ [Next]_vars => TypeInv'
  <2> SUFFICES ASSUME TypeInv, [Next]_vars
               PROVE  TypeInv'
    OBVIOUS
  <2>1. CASE \E k \in Kinds : Send(k)
    <3>1. call' # 0
      BY <2>1, CallNumbers DEF TypeInv, Send
    <3> QED
      BY <2>1, <3>1, CallType DEF TypeInv
  <2>2. CASE Cancel \/ DrainFails \/ GraceEnds
    BY <2>2, CallType DEF TypeInv, Cancel, DrainFails, GraceEnds, Return
  <2>3. CASE Handle \/ Rescind \/ Swallow
    <3>1. call' = call /\ cpc # "idle"
      BY <2>3 DEF Handle, Skip, Answered, AnsweredBlank, Rejected, Commit, Return, Rescind, Swallow,
                  Take, callVars
    <3> QED
      BY <2>3, <3>1, TakeType DEF TypeInv
  <2>4. CASE Pi
    BY <2>4, PiLeaves, ReadsType, TurnType DEF TypeInv, Pi, callVars
  <2>5. CASE PiExits \/ StreamBreaks
    <3>1. closed' \in BOOLEAN /\ exited' \in BOOLEAN
      BY <2>5 DEF PiExits, StreamBreaks, TypeInv, TypeOK
    <3>2. /\ pi' = "gone"
          /\ UNCHANGED <<callVars, cmds, events, turn, tries, ended, history>>
      BY <2>5 DEF PiExits, StreamBreaks
    <3> QED
      BY <3>1, <3>2 DEF TypeInv, TypeOK, callVars, history
  <2>7. CASE PiFailsMutely
    BY <2>7, MuteType DEF TypeInv, PiFailsMutely, callVars
  <2>6. CASE UNCHANGED vars
    BY <2>6 DEF vars, TypeInv, TypeOK, callVars, piVars, history
  <2> QED
    BY <2>1, <2>2, <2>3, <2>4, <2>5, <2>6, <2>7 DEF Next, Caller
<1> QED
  BY <1>1, <1>2, PTL DEF Spec

\* The channel never holds more than its capacity, an error is pending exactly
\* during the grace window, and results are of calls that were made.
THEOREM RpcTypeCorrect == Spec => []TypeOK
<1>1. TypeInv => TypeOK
  BY DEF TypeInv
<1> QED
  BY <1>1, TypeInvariant, PTL
-----------------------------------------------------------------------------
(* The steps, told by what they do to the channel.                         *)

At == 1..Len(events)

\* pi goes from one state to another without a word ...
Silent(from, to) == pi = from /\ pi' = to /\ events' = events

\* ... or after an event of its turn.
Says(from, type, to) ==
    /\ pi = from /\ pi' = to
    /\ \E x \in EventSet : x.type = type /\ x.turn = turn /\ Grown(x)

\* The steps of the model with an event are of the second form ...
LEMMA MovesSay ==
    ASSUME TypeOK, NEW from, NEW to, NEW type \in Types, NEW x,
           x = Plain(type) \/ \E t \in BOOLEAN : x = Event(type, t),
           PiMoves(from, <<x>>, to) \/ PiMoves(from, Recovered \o <<x>>, to)
    PROVE  Says(from, type, to)
<1>1. x \in EventSet /\ x.type = type /\ x.turn = turn
  BY EventType
<1>2. Emit(<<x>>) \/ \E w \in EventSet : w.type = "retryOK" /\ Emit(<<w>> \o <<x>>)
  BY <1>1, RecoveredEnd DEF PiMoves
<1>3. Grown(x)
  BY <1>1, <1>2, EmitOne, EmitTwo
<1> QED
  BY <1>1, <1>3 DEF Says, PiMoves

\* ... and those without of the first.
LEMMA MovesSilently ==
    ASSUME TypeOK, NEW from, NEW to, PiMoves(from, <<>>, to)
    PROVE  Silent(from, to)
BY EmitNone DEF PiMoves, Silent

\* Everything pi does on its own in a turn.
LEMMA TurnSteps ==
    ASSUME TypeOK, PiAsks \/ PiTalks \/ PiEnds \/ PiFollowsUp \/ PiRetries
    PROVE  /\ UNCHANGED <<callVars, cmds, closed, exited, turn, history>>
           /\ \/ Says("working", "end", "idle") /\ ended' = [ended EXCEPT ![turn] = "end"]
              \/ Says("working", "error", "failing") /\ ended' = [ended EXCEPT ![turn] = "error"]
              \/ Says("compacting", "compacted", "idle") /\ ended' = [ended EXCEPT ![turn] = "end"]
              \/ /\ UNCHANGED ended
                 /\ \/ Says("working", "ui", "asking") \/ Says("working", "other", "working")
                    \/ Says("compacting", "reject", "idle") \/ Says("failing", "retryFail", "idle")
                    \/ Says("failing", "retry", "backoff")
                    \/ Says("failing", "compaction", "working")
                    \/ Silent("failing", "idle") \/ Silent("backoff", "working")
<1>1. {"ui", "other", "end", "error", "compacted", "reject", "retryFail", "retry", "compaction"}
         \subseteq Types
  BY DEF Types, Terminal, Ends, Continues
<1>2. UNCHANGED <<callVars, cmds, closed, exited, turn, history>>
  BY DEF PiAsks, PiTalks, PiEnds, PiFollowsUp, PiRetries, PiMoves, PiKeeps
<1>3. CASE PiAsks \/ PiTalks \/ PiRetries
  BY <1>1, <1>2, <1>3, MovesSay, MovesSilently DEF PiAsks, PiTalks, PiRetries
<1>4. CASE PiEnds
  BY <1>1, <1>2, <1>4, MovesSay DEF PiEnds
<1>5. CASE PiFollowsUp
  BY <1>1, <1>2, <1>5, MovesSay, MovesSilently DEF PiFollowsUp
<1> QED
  BY <1>3, <1>4, <1>5

\* An attempt that fails without saying why looks like the end of the turn.
LEMMA MuteSays ==
    ASSUME TypeOK, PiFailsMutely
    PROVE  /\ Says("working", "end", "failing") /\ ended' = [ended EXCEPT ![turn] = "error"]
           /\ mute' = mute \cup {turn}
           /\ UNCHANGED <<callVars, cmds, closed, exited, turn, result, clean, cut>>
<1>1. Plain("end") \in EventSet /\ Plain("end").type = "end" /\ Plain("end").turn = turn
  BY EventType DEF Types, Terminal, Ends
<1>2. Grown(Plain("end"))
  BY <1>1, EmitOne DEF PiFailsMutely
<1> QED
  BY <1>1, <1>2 DEF PiFailsMutely, Says

\* What pi does with the command it reads.
LEMMA ReadSteps ==
    ASSUME TypeOK, PiReads
    PROVE  /\ UNCHANGED <<callVars, closed, exited, ended, history>>
           /\ cmds # <<>> /\ cmds' = Tail(cmds) /\ pi # "gone"
           /\ \/ /\ Head(cmds) \in Kinds /\ pi = "idle"
                 /\ pi' = IF Head(cmds) = "prompt" THEN "working" ELSE "compacting"
                 /\ events' = events /\ turn' = call
              \/ /\ Head(cmds) \in Kinds /\ pi \notin {"idle", "gone"} /\ turn' = turn
                 /\ Says(pi, "reject", pi)
              \/ /\ Head(cmds) = "abort" /\ turn' = turn
                 /\ \/ events' = events /\ pi' = pi
                    \/ \E type \in Terminal : Says(pi, type, "idle")
              \/ /\ Head(cmds) = "answer" /\ turn' = turn
                 /\ events' = events /\ pi' = IF pi = "asking" THEN "working" ELSE pi
<1>1. {"end", "reject", "retryFail"} \subseteq Types \cap Terminal
  BY DEF Types, Terminal, Ends
<1>2. CASE Starts \/ IsAnswered
  BY <1>2 DEF Starts, IsAnswered, Reading, PiKeeps
<1>3. \A type \in Types :
         Emit(<<Plain(type)>>) \/ (\E t \in BOOLEAN : Emit(<<Event(type, t)>>)) =>
            \E x \in EventSet : x.type = type /\ x.turn = turn /\ Grown(x)
  BY EventType, EmitOne
<1>4. CASE Bounces
  BY <1>1, <1>3, <1>4 DEF Bounces, Reading, Busy, PiKeeps, Says, piVars
<1>5. CASE IsAborted
  <2>1. CASE UNCHANGED <<events, piVars>>
    BY <1>5, <2>1 DEF IsAborted, Reading, PiKeeps, piVars
  <2>2. CASE /\ \E type \in Terminal \cap Types :
                   Emit(<<Plain(type)>>) \/ (\E t \in BOOLEAN : Emit(<<Event(type, t)>>))
             /\ pi' = "idle" /\ UNCHANGED <<turn, tries, ended>>
    <3>1. \E type \in Terminal : Says(pi, type, "idle")
      BY <1>3, <2>2 DEF Says
    <3> QED
      BY <1>5, <2>2, <3>1 DEF IsAborted, Reading, PiKeeps
  <2> QED
    BY <1>1, <1>5, <2>1, <2>2 DEF IsAborted
<1> QED
  BY <1>2, <1>4, <1>5 DEF PiReads

\* What the caller does, told in the same way.
Returns(how, t) ==
    /\ cpc' = "idle" /\ cancelled' = FALSE
    /\ result' = [result EXCEPT ![call] = [how |-> how, turn |-> t]]

\* A call returns, or takes an event and goes on.
LEMMA CallerSteps ==
    ASSUME TypeOK, Caller
    PROVE  /\ UNCHANGED <<call, kind, closed, exited, piVars, clean, cut, mute>>
           /\ cpc # "idle"
           /\ \/ \E how \in Outcomes : \E t \in 0..Calls :
                    Returns(how, t) /\ (Took \/ events' = events)
              \/ Took /\ cpc' # "idle" /\ UNCHANGED <<cancelled, result>>
<1>1. CASE Handle
  <2> DEFINE e == Head(events)
  <2>1. Skip(e) \/ Answered(e) \/ AnsweredBlank(e) \/ Rejected(e) \/ Commit(e)
    BY <1>1 DEF Handle
  <2>2. Took
    BY <2>1 DEF Skip, Answered, AnsweredBlank, Rejected, Commit, Take, Took
  <2>3. e.turn \in 0..Calls
    BY <2>2, TookEvents DEF EventSet
  <2> HIDE DEF e
  <2>4. {"reply", "cancelled", "rejected"} \subseteq Outcomes /\ 0 \in 0..Calls
    BY CallNumbers DEF Outcomes
  <2>5. CASE Skip(e) \/ Commit(e)
    BY <2>2, <2>5 DEF Skip, Commit, Take, history
  <2>6. CASE Answered(e)
    BY <2>2, <2>3, <2>4, <2>6 DEF Answered, Take, Return, Returns
  <2>7. CASE Rejected(e)
    BY <2>2, <2>4, <2>7 DEF Rejected, Take, Return, Returns
  <2>8. CASE AnsweredBlank(e)
    <3>1. reply \in 0..Calls
      BY DEF TypeOK
    <3> QED
      BY <2>2, <2>4, <2>8, <3>1 DEF AnsweredBlank, Take, Return, Returns
  <2> QED
    BY <2>1, <2>5, <2>6, <2>7, <2>8
<1>2. CASE Rescind \/ Swallow
  BY <1>2 DEF Rescind, Swallow, Took, history, callVars
<1>3. CASE DrainFails
  <2>1. {"cancelled", "failed"} \subseteq Outcomes /\ 0 \in 0..Calls
    BY CallNumbers DEF Outcomes
  <2> QED
    BY <1>3, <2>1 DEF DrainFails, Return, Returns
<1>4. CASE GraceEnds
  <2>1. "refused" \in Outcomes /\ reply \in 0..Calls
    BY DEF Outcomes, TypeOK
  <2> QED
    BY <1>4, <2>1 DEF GraceEnds, Return, Returns
<1> QED
  BY <1>1, <1>2, <1>3, <1>4 DEF Caller
-----------------------------------------------------------------------------
(* Book-keeping.                                                           *)

\* The histories are of calls that were made, the current call has no result,
\* a cancelled call is cut, and pi is gone when it is not heard.
Book ==
    /\ Unheard <=> pi = "gone"
    /\ cpc # "idle" => ~Settled(call)
    /\ cancelled => cpc # "idle" /\ call \in cut
    /\ turn <= call
    /\ clean \subseteq 1..call /\ cut \subseteq 1..call
    /\ \A n \in call + 1..Calls : result[n].how = "none"

\* Every step keeps the books.
LEMMA BookStep ==
    ASSUME TypeInv, Book, [Next]_vars
    PROVE  Book'
<1>0. call \in Nat /\ turn \in Nat /\ Calls \in Nat /\ result \in [1..Calls -> Results]
  BY CallNumbers DEF TypeInv, TypeOK, Results
<1>1. CASE \E k \in Kinds : Send(k)
  <2>1. /\ call' = call + 1 /\ call' \in 1..Calls /\ result' = result /\ cut' = cut
        /\ clean' \subseteq clean \cup {call'}
        /\ UNCHANGED <<exited, closed, pi, turn, cancelled>> /\ cpc = "idle"
    BY <1>0, <1>1 DEF Send, TypeInv, TypeOK, piVars
  <2>2. ~Settled(call)'
    BY <1>0, <2>1 DEF Book, Settled
  <2> QED
    BY <1>0, <2>1, <2>2 DEF Book, Unheard
<1>2. CASE Cancel
  <2>1. call \in 1..call
    BY <1>0, <1>2 DEF Cancel, TypeInv
  <2> QED
    BY <1>2, <2>1 DEF Cancel, Book, Settled, piVars, Unheard
<1>3. CASE Caller
  <2>1. /\ UNCHANGED <<call, kind, closed, exited, piVars, clean, cut, mute>>
        /\ cpc # "idle"
        /\ \/ \E how \in Outcomes : \E t \in 0..Calls : Returns(how, t)
           \/ cpc' # "idle" /\ UNCHANGED <<cancelled, result>>
    BY <1>3, CallerSteps DEF TypeInv
  <2>2. \A n \in call + 1..Calls : result'[n].how = "none"
    BY <1>0, <2>1 DEF Returns, Book
  <2>3. cpc' # "idle" => ~Settled(call)'
    BY <2>1 DEF Returns, Book, Settled
  <2>4. cancelled' => cpc' # "idle" /\ call' \in cut'
    <3>1. CASE cpc' # "idle" /\ UNCHANGED <<cancelled, result>>
      BY <1>3, <2>1, <3>1 DEF Book
    <3>2. CASE cancelled' = FALSE
      BY <3>2
    <3> QED
      BY <2>1, <3>1, <3>2 DEF Returns
  <2> QED
    BY <2>1, <2>2, <2>3, <2>4 DEF Book, piVars, Unheard
<1>4. CASE Pi
  <2>1. UNCHANGED <<callVars, closed, exited, history>>
    BY <1>4, PiLeaves
  <2>2. turn' \in {turn, call} /\ pi # "gone" /\ pi' # "gone"
    <3>1. CASE PiReads
      BY <3>1, ReadSteps DEF TypeInv, PiReads, Starts, Bounces, IsAborted, IsAnswered, Reading, Says
    <3>2. CASE PiAsks \/ PiTalks \/ PiEnds \/ PiFollowsUp \/ PiRetries
      BY <3>2, TurnSteps DEF TypeInv, Says, Silent
    <3> QED
      BY <1>4, <3>1, <3>2 DEF Pi
  <2> QED
    BY <1>0, <2>1, <2>2 DEF Book, Settled, callVars, history, Unheard
<1>5. CASE PiExits \/ StreamBreaks
  <2>1. Unheard' /\ pi' = "gone" /\ UNCHANGED <<callVars, turn, history>>
    BY <1>5 DEF PiExits, StreamBreaks, Unheard
  <2> QED
    BY <2>1 DEF Book, Settled, callVars, history
<1>7. CASE PiFailsMutely
  <2>1. /\ UNCHANGED <<callVars, turn, closed, exited, result, clean, cut>>
        /\ pi # "gone" /\ pi' # "gone"
    BY <1>7 DEF PiFailsMutely
  <2> QED
    BY <2>1 DEF Book, Settled, Unheard, callVars
<1>6. CASE UNCHANGED vars
  BY <1>6 DEF Book, Settled, Unheard, vars, callVars, piVars, history
<1> QED
  BY <1>1, <1>2, <1>3, <1>4, <1>5, <1>6, <1>7 DEF Next
-----------------------------------------------------------------------------
(* Requests of extensions.                                                 *)

\* Behind a request there is the end of the attempt it was made in, unless
\* pi is still at it.
UiInv ==
    pi \in {"idle", "failing"} =>
        \A i \in At : events[i].type = "ui" =>
            \E j \in At : i < j /\ events[j].type \in Terminal

\* A request is put there by a working pi, and pi leaves that state with an
\* end of the attempt.
LEMMA UiStep ==
    ASSUME TypeInv, Book, UiInv, [Next]_vars
    PROVE  UiInv'
<1>0. Len(events) \in Nat
  BY DEF TypeInv, TypeOK
<1>1. ASSUME Took, pi' = pi
      PROVE  UiInv'
  <2>1. /\ Len(events') = Len(events) - 1
        /\ \A i \in 1..Len(events') : events'[i] = events[i + 1]
    BY <1>1, TookEvents DEF TypeInv
  <2> SUFFICES ASSUME pi \in {"idle", "failing"}, NEW i \in At', events'[i].type = "ui"
               PROVE  \E j \in At' : i < j /\ events'[j].type \in Terminal
    BY <1>1 DEF UiInv
  <2>2. i + 1 \in At /\ events[i + 1].type = "ui"
    BY <1>0, <2>1 DEF At
  <2>3. PICK j \in At : i + 1 < j /\ events[j].type \in Terminal
    BY <2>2 DEF UiInv
  <2>4. j - 1 \in At' /\ i < j - 1 /\ events'[j - 1] = events[j]
    BY <1>0, <2>1, <2>2, <2>3 DEF At
  <2> QED
    BY <2>3, <2>4
<1>2. ASSUME events' = events, pi' \in {"idle", "failing"} => pi \in {"idle", "failing"}
      PROVE  UiInv'
  BY <1>2 DEF UiInv, At
<1>3. ASSUME NEW from, NEW type \in Terminal, NEW to, Says(from, type, to)
      PROVE  UiInv'
  <2>1. PICK x \in EventSet : x.type = type /\ Grown(x)
    BY <1>3 DEF Says
  <2>2. "ui" \notin Terminal /\ "ui" # "retryOK"
    BY DEF Terminal, Ends
  <2>3. Len(events') \in At' /\ \A i \in At' : events'[i].type = "ui" => i < Len(events')
    BY <1>0, <2>1, <2>2 DEF Grown, At
  <2> QED
    BY <2>1, <2>3 DEF UiInv, Grown
<1>4. CASE (\E k \in Kinds : Send(k)) \/ Cancel \/ PiExits \/ StreamBreaks \/ UNCHANGED vars
  BY <1>2, <1>4 DEF Send, Cancel, PiExits, StreamBreaks, vars, piVars
<1>5. CASE Caller
  BY <1>1, <1>2, <1>5, CallerSteps DEF TypeInv, piVars
<1>6. CASE PiReads
  BY <1>2, <1>3, <1>6, ReadSteps DEF TypeInv, Terminal
<1>7. CASE PiAsks \/ PiTalks \/ PiEnds \/ PiFollowsUp \/ PiRetries
  <2>1. CASE pi' \in {"idle", "failing"}
    BY <1>2, <1>3, <1>7, <2>1, TurnSteps DEF TypeInv, Terminal, Ends, Says, Silent
  <2>2. CASE pi' \notin {"idle", "failing"}
    BY <2>2 DEF UiInv
  <2> QED
    BY <2>1, <2>2
<1>8. CASE PiFailsMutely
  BY <1>3, <1>8, MuteSays DEF TypeInv, Terminal, Ends
<1> QED
  BY <1>4, <1>5, <1>6, <1>7, <1>8 DEF Next, Pi
-----------------------------------------------------------------------------
(* A regular call, one that found the channel clean and is not cancelled   *)
(* and whose errors say what they are: where pi, the channel and the       *)
(* caller are in its turn.                                                 *)

Mine == cpc # "idle" /\ call \in Regular

Final == Terminal \ {"error"}
Turning == Terminal \cup Continues
Running == {"working", "asking", "compacting", "backoff"}

NoneAfter(i) == \A k \in At : i < k => events[k].type \notin Turning

\* The command is unread, and the channel holds nothing that matters; or pi
\* is in the turn, and the request it may have made is the newest event, or
\* its answer is on the way.
InputInv ==
    \/ /\ cmds = <<kind>> /\ pi \in {"idle", "gone"} /\ cpc = "drain"
       /\ \A i \in At : events[i].type \notin Terminal \cup {"ui"}
    \/ /\ turn = call
       /\ pi \notin {"asking", "gone"} => cmds = <<>> /\ \A i \in At : events[i].type # "ui"
       /\ pi = "asking" =>
             \/ /\ cmds = <<>> /\ events # <<>> /\ events[Len(events)].type = "ui"
                /\ \A i \in At : i < Len(events) => events[i].type # "ui"
             \/ cmds = <<"answer">> /\ \A i \in At : events[i].type # "ui"

\* Between two ends of attempts there is what continues the turn; the end of
\* the retries follows the error, which the caller in its grace window has
\* read already; nothing follows what ends the turn for good.
OrderInv ==
    /\ \A i, j \in At :
          i < j /\ events[i].type \in Terminal /\ events[j].type \in Terminal \ {"retryFail"} =>
             \E k \in At : i < k /\ k < j /\ events[k].type \in Continues
    /\ \A j \in At : events[j].type = "retryFail" =>
          \/ \E i \in At : /\ i < j /\ events[i].type = "error"
                           /\ \A k \in At : i < k /\ k < j => events[k].type \notin Turning
          \/ cpc = "grace" /\ \A k \in At : k < j => events[k].type \notin Turning
    /\ cpc = "grace" =>
          \A j \in At : events[j].type \in Terminal \ {"retryFail"} =>
             \E k \in At : k < j /\ events[k].type \in Continues
    /\ \A i \in At : events[i].type \in Final => pi \in {"idle", "gone"} /\ NoneAfter(i)

\* While pi works, whatever ended is continued by an event in the channel;
\* when it has failed, the error is the last that matters.
ProgressInv ==
    /\ pi \in Running =>
          /\ \A i \in At : events[i].type \in Terminal =>
                \E k \in At : i < k /\ events[k].type \in Continues
          /\ cpc = "grace" => \E k \in At : events[k].type \in Continues
    /\ pi = "failing" =>
          \/ \E i \in At : events[i].type = "error" /\ NoneAfter(i)
          \/ cpc = "grace" /\ NoneAfter(0)

\* What the events say of the turn.
OutcomeInv ==
    /\ cpc = "grace" => reply = call
    /\ cpc = "grace" /\ NoneAfter(0) => ended[call] = "error"
    /\ \A i \in At : /\ events[i].type \in {"error", "retryFail"} /\ NoneAfter(i) =>
                           ended[call] = "error"
                     /\ events[i].type \in {"end", "compacted"} => ended[call] = "end"
                     /\ events[i].type \in Terminal => events[i].turn = call
                     /\ events[i].type \in {"error", "retryFail"} => kind = "prompt"
    /\ pi \in {"working", "asking", "backoff", "failing"} => kind = "prompt"

MineInv == Mine => InputInv /\ OrderInv /\ ProgressInv /\ OutcomeInv

\* A call that begins on a clean channel.
LEMMA SendMine ==
    ASSUME TypeInv, Book, UiInv, NEW k \in Kinds, Send(k)
    PROVE  MineInv'
<1> SUFFICES ASSUME Mine'
             PROVE  InputInv' /\ OrderInv' /\ ProgressInv' /\ OutcomeInv'
  BY DEF MineInv
<1>1. Quiet
  <2>1. call' \notin clean
    BY CallNumbers DEF Send, Book, TypeInv
  <2> QED
    BY <2>1 DEF Send, Mine, Regular
<1>2. \A i \in At : events[i].type \notin Terminal
  BY <1>1 DEF Quiet, TypesIn, At, TypeInv, TypeOK
<1>3. \A i \in At : events[i].type # "ui"
  BY <1>1, <1>2 DEF Quiet, UiInv
<1>4. cmds' = <<kind'>> /\ cpc' = "drain" /\ pi' = "idle" /\ events' = events
  BY <1>1 DEF Send, Quiet, piVars
<1>5. InputInv'
  BY <1>2, <1>3, <1>4 DEF InputInv, At
<1>6. {"error", "retryFail", "end", "compacted"} \subseteq Terminal /\ Final \subseteq Terminal
  BY DEF Terminal, Ends, Final
<1>7. OrderInv' /\ ProgressInv' /\ OutcomeInv'
  BY <1>2, <1>4, <1>6 DEF OrderInv, ProgressInv, OutcomeInv, At, Running
<1> QED
  BY <1>5, <1>7

\* pi reads the command, or the answer it waits for.
LEMMA ReadMine ==
    ASSUME TypeInv, Book, MineInv, PiReads
    PROVE  MineInv'
<1> SUFFICES ASSUME Mine
             PROVE  InputInv' /\ OrderInv' /\ ProgressInv' /\ OutcomeInv'
  BY ReadSteps DEF MineInv, Mine, TypeInv, callVars, history, Regular
<1>1. InputInv /\ OrderInv /\ ProgressInv /\ OutcomeInv
  BY DEF MineInv
<1>2. /\ UNCHANGED <<callVars, ended>>
      /\ cmds # <<>> /\ cmds' = Tail(cmds) /\ pi # "gone"
  BY ReadSteps DEF TypeInv
<1>3. "answer" \notin Kinds /\ "abort" \notin Kinds /\ kind \in Kinds
  BY DEF Kinds, TypeInv, TypeOK
<1>4. CASE pi = "idle" /\ cmds = <<kind>> /\ cpc = "drain"
             /\ \A i \in At : events[i].type \notin Terminal \cup {"ui"}
  <2>1. Head(cmds) = kind /\ cmds' = <<>>
    BY <1>2, <1>4
  <2>2. /\ pi' = (IF kind = "prompt" THEN "working" ELSE "compacting")
        /\ events' = events /\ turn' = call
    BY <1>3, <1>4, <2>1, ReadSteps DEF TypeInv
  <2>3. {"error", "retryFail", "end", "compacted"} \subseteq Terminal /\ Final \subseteq Terminal
    BY DEF Terminal, Ends, Final
  <2>4. InputInv'
    BY <1>2, <1>4, <2>1, <2>2 DEF InputInv, At, callVars
  <2>5. OrderInv' /\ ProgressInv' /\ OutcomeInv'
    BY <1>2, <1>4, <2>2, <2>3 DEF OrderInv, ProgressInv, OutcomeInv, At, Running, callVars
  <2> QED
    BY <2>4, <2>5
<1>5. CASE pi = "asking" /\ cmds = <<"answer">> /\ \A i \in At : events[i].type # "ui"
  <2>1. Head(cmds) = "answer" /\ cmds' = <<>>
    BY <1>2, <1>5
  <2>2. pi' = "working" /\ events' = events /\ turn' = turn
    BY <1>3, <1>5, <2>1, ReadSteps DEF TypeInv
  <2>3. turn = call
    BY <1>1, <1>5 DEF InputInv
  <2>4. InputInv'
    BY <1>2, <1>5, <2>1, <2>2, <2>3 DEF InputInv, At, callVars
  <2>5. OrderInv' /\ ProgressInv' /\ OutcomeInv'
    BY <1>1, <1>2, <1>5, <2>2 DEF OrderInv, ProgressInv, OutcomeInv, At, Running, NoneAfter,
                                  callVars
  <2> QED
    BY <2>4, <2>5
<1> QED
  BY <1>1, <1>2, <1>4, <1>5 DEF InputInv

\* The channel after an event of pi: what was there, and the event.
GrownBy(type) ==
    /\ Len(events) \in Nat /\ Len(events') \in Nat /\ Len(events) < Len(events')
    /\ events'[Len(events')].type = type /\ events'[Len(events')].turn = turn
    /\ \A i \in At : i \in At' /\ i < Len(events') /\ events'[i] = events[i]
    /\ \A i \in At' : i \in At \/ i = Len(events') \/ events'[i].type = "retryOK"
    /\ \A i \in At' : i < Len(events') /\ events'[i].type # "retryOK" => i \in At
    /\ \A i \in At : \A j \in At' : j \notin At => i < j

\* An event of pi leaves such a channel.
LEMMA SaysGrows ==
    ASSUME TypeOK, NEW from, NEW type, NEW to, Says(from, type, to)
    PROVE  GrownBy(type) /\ Len(events') \in At' /\ pi = from /\ pi' = to
<1>1. Len(events) \in Nat
  BY DEF TypeOK
<1>2. PICK x \in EventSet : x.type = type /\ x.turn = turn /\ Grown(x)
  BY DEF Says
<1>3. Len(events') \in Nat
  BY <1>2 DEF Grown
<1> QED
  BY <1>1, <1>2, <1>3 DEF Says, Grown, GrownBy, At

\* An event that ends nothing and continues nothing.
LEMMA TalkMine ==
    ASSUME TypeInv, MineInv, Mine, Mine', UNCHANGED <<callVars, cmds, turn, ended>>,
           Says("working", "ui", "asking") \/ Says("working", "other", "working")
    PROVE  MineInv'
<1> DEFINE type == IF pi' = "asking" THEN "ui" ELSE "other"
<1>1. InputInv /\ OrderInv /\ ProgressInv /\ OutcomeInv
  BY DEF MineInv
<1>2. GrownBy(type) /\ Len(events') \in At' /\ pi = "working" /\ pi' \in {"working", "asking"}
  BY SaysGrows DEF TypeInv
<1>3. type \notin Turning /\ "retryOK" \notin Turning /\ (pi' = "working" => type # "ui")
      /\ (pi' = "asking" => type = "ui")
      /\ Terminal \subseteq Turning /\ Continues \subseteq Turning
      /\ Final \subseteq Turning /\ {"error", "end", "compacted", "retryFail"} \subseteq Turning
  BY DEF Turning, Terminal, Ends, Continues, Final
<1> HIDE DEF type
<1>4. \A i \in At' : events'[i].type \in Turning => i \in At /\ events'[i] = events[i]
  BY <1>2, <1>3 DEF GrownBy
<1>5. \A i \in At : i \in At' /\ events'[i] = events[i]
  BY <1>2 DEF GrownBy
<1>6. InputInv'
  <2>1. turn = call /\ cmds = <<>> /\ \A i \in At : events[i].type # "ui"
    BY <1>1, <1>2 DEF InputInv
  <2>2. \A i \in At' : i < Len(events') => events'[i].type # "ui"
    BY <1>2, <2>1 DEF GrownBy
  <2>3. pi' = "working" => \A i \in At' : events'[i].type # "ui"
    BY <1>2, <1>3, <2>1 DEF GrownBy
  <2>4. events' # <<>>
    BY <1>2 DEF At
  <2> QED
    BY <1>2, <1>3, <2>1, <2>2, <2>3, <2>4 DEF InputInv, GrownBy, callVars
<1>7. OrderInv'
  BY <1>1, <1>2, <1>3, <1>4, <1>5 DEF OrderInv, callVars
<1>8. ProgressInv'
  BY <1>1, <1>2, <1>3, <1>4, <1>5 DEF ProgressInv, Running, callVars
<1>9. OutcomeInv'
  <2>1. \A i \in At : NoneAfter(i)' => NoneAfter(i)
    BY <1>5 DEF NoneAfter
  <2>2. NoneAfter(0)' => NoneAfter(0)
    BY <1>5 DEF NoneAfter
  <2> QED
    BY <1>1, <1>2, <1>3, <1>4, <1>5, <2>1, <2>2 DEF OutcomeInv, callVars
<1> QED
  BY <1>6, <1>7, <1>8, <1>9 DEF MineInv

\* What an event that matters leaves of the invariant, whatever it is.
LEMMA TellInput ==
    ASSUME TypeInv, InputInv, UNCHANGED <<callVars, cmds, turn>>, NEW type, GrownBy(type),
           type # "ui", pi \in {"working", "compacting", "failing"}, pi' # "asking"
    PROVE  InputInv'
<1>1. turn = call /\ cmds = <<>> /\ \A i \in At : events[i].type # "ui"
  BY DEF InputInv
<1>2. \A i \in At' : events'[i].type # "ui"
  BY <1>1 DEF GrownBy
<1> QED
  BY <1>1, <1>2 DEF InputInv, callVars

\* pi ends an attempt: with an error, after which it may go on, or for good.
LEMMA EndMine ==
    ASSUME TypeInv, MineInv, Mine, Mine', UNCHANGED <<callVars, cmds, turn>>,
           \/ /\ Says("working", "end", "idle") \/ Says("compacting", "compacted", "idle")
              /\ ended' = [ended EXCEPT ![turn] = "end"]
           \/ Says("working", "error", "failing") /\ ended' = [ended EXCEPT ![turn] = "error"]
           \/ Says("compacting", "reject", "idle") /\ ended' = ended
    PROVE  MineInv'
<1>1. InputInv /\ OrderInv /\ ProgressInv /\ OutcomeInv
  BY DEF MineInv
<1>2. PICK type \in {"end", "compacted", "reject", "error"} :
         /\ GrownBy(type) /\ Len(events') \in At'
         /\ pi' = IF type = "error" THEN "failing" ELSE "idle"
         /\ type = "error" => pi = "working"
         /\ ended' = IF type = "reject" THEN ended
                     ELSE [ended EXCEPT ![turn] = IF type = "error" THEN "error" ELSE "end"]
  BY SaysGrows DEF TypeInv
<1>3. pi \in {"working", "compacting"}
  BY DEF Says
<1> PICK n : n = Len(events')
  OBVIOUS
<1>4. /\ type \in Terminal \ {"retryFail"} /\ type \notin Continues /\ type \in Turning
      /\ type # "ui" /\ type # "retryOK" /\ (type \in Final <=> type # "error")
      /\ "retryOK" \notin Turning /\ Terminal \subseteq Turning /\ Continues \subseteq Turning
      /\ Final \subseteq Terminal /\ {"error", "end", "compacted", "retryFail"} \subseteq Terminal
      /\ Terminal \cap Continues = {}
  BY DEF Turning, Terminal, Ends, Continues, Final
<1>5. /\ n \in At' /\ events'[n].type = type /\ events'[n].turn = turn
      /\ \A i \in At' : events'[i].type \in Turning => i = n \/ (i \in At /\ events'[i] = events[i])
      /\ \A i \in At : i \in At' /\ i < n /\ events'[i] = events[i]
      /\ n \notin At /\ \A i \in At' : ~(n < i)
  BY <1>2, <1>4 DEF GrownBy, At
<1>6. InputInv'
  BY <1>1, <1>2, <1>3, <1>4, TellInput
<1>7. \A i \in At : events[i].type \notin Final
  BY <1>1, <1>3 DEF OrderInv
<1>8. /\ \A i \in At : events[i].type \in Terminal =>
            \E k \in At : i < k /\ events[k].type \in Continues
      /\ cpc = "grace" => \E k \in At : events[k].type \in Continues
  BY <1>1, <1>3 DEF ProgressInv, Running
<1>9. NoneAfter(n)' /\ (\A i \in At : ~NoneAfter(i)') /\ (cpc = "grace" => ~NoneAfter(0)')
  <2>1. \A i \in At : i > 0 /\ n > 0
    BY <1>5 DEF At
  <2>2. NoneAfter(n)'
    BY <1>5 DEF NoneAfter
  <2>3. \A i \in At : ~NoneAfter(i)'
    BY <1>4, <1>5 DEF NoneAfter
  <2>4. cpc = "grace" => ~NoneAfter(0)'
    BY <1>4, <1>5, <1>8, <2>1 DEF NoneAfter
  <2> QED
    BY <2>2, <2>3, <2>4
<1>10. OrderInv'
  <2>1. (\A i, j \in At :
          i < j /\ events[i].type \in Terminal /\ events[j].type \in Terminal \ {"retryFail"} =>
             \E k \in At : i < k /\ k < j /\ events[k].type \in Continues)'
    <3> SUFFICES ASSUME NEW i \in At', NEW j \in At', i < j, events'[i].type \in Terminal,
                        events'[j].type \in Terminal \ {"retryFail"}
                 PROVE  \E k \in At' : i < k /\ k < j /\ events'[k].type \in Continues
      OBVIOUS
    <3>1. i \in At /\ events[i] = events'[i]
      BY <1>4, <1>5
    <3>2. CASE j = n
      <4>1. PICK k \in At : i < k /\ events[k].type \in Continues
        BY <1>8, <3>1
      <4> QED
        BY <1>5, <3>2, <4>1
    <3>3. CASE j # n
      <4>1. j \in At /\ events[j] = events'[j]
        BY <1>4, <1>5, <3>3
      <4>2. PICK k \in At : i < k /\ k < j /\ events[k].type \in Continues
        BY <1>1, <3>1, <4>1 DEF OrderInv
      <4> QED
        BY <1>5, <4>2
    <3> QED
      BY <3>2, <3>3
  <2>2. (\A j \in At : events[j].type = "retryFail" =>
          \/ \E i \in At : /\ i < j /\ events[i].type = "error"
                           /\ \A k \in At : i < k /\ k < j => events[k].type \notin Turning
          \/ cpc = "grace" /\ \A k \in At : k < j => events[k].type \notin Turning)'
    BY <1>4, <1>5, <1>7 DEF Final
  <2>3. (cpc = "grace" =>
          \A j \in At : events[j].type \in Terminal \ {"retryFail"} =>
             \E k \in At : k < j /\ events[k].type \in Continues)'
    <3> SUFFICES ASSUME cpc = "grace", NEW j \in At', events'[j].type \in Terminal \ {"retryFail"}
                 PROVE  \E k \in At' : k < j /\ events'[k].type \in Continues
      BY DEF callVars
    <3>1. CASE j = n
      <4>1. PICK k \in At : events[k].type \in Continues
        BY <1>8
      <4> QED
        BY <1>5, <3>1, <4>1
    <3>2. CASE j # n
      <4>1. j \in At /\ events[j] = events'[j]
        BY <1>4, <1>5, <3>2
      <4>2. PICK k \in At : k < j /\ events[k].type \in Continues
        BY <1>1, <4>1 DEF OrderInv
      <4> QED
        BY <1>5, <4>2
    <3> QED
      BY <3>1, <3>2
  <2>4. (\A i \in At : events[i].type \in Final => pi \in {"idle", "gone"} /\ NoneAfter(i))'
    BY <1>2, <1>4, <1>5, <1>7, <1>9
  <2> QED
    BY <2>1, <2>2, <2>3, <2>4 DEF OrderInv
<1>11. ProgressInv'
  BY <1>2, <1>5, <1>9 DEF ProgressInv, Running
<1>12. turn = call /\ call \in 1..Calls
  BY <1>1, <1>3, CallNumbers DEF InputInv, TypeInv, TypeOK, Mine
<1>13. ended'[call] = IF type = "reject" THEN ended[call] ELSE IF type = "error" THEN "error"
                      ELSE "end"
  BY <1>2, <1>12 DEF TypeInv, TypeOK
<1>14. OutcomeInv'
  <2>1. /\ (cpc = "grace" => reply = call)'
        /\ (cpc = "grace" /\ NoneAfter(0) => ended[call] = "error")'
    BY <1>1, <1>9 DEF OutcomeInv, callVars
  <2>2. (\A i \in At : /\ events[i].type \in {"error", "retryFail"} /\ NoneAfter(i) =>
                           ended[call] = "error"
                       /\ events[i].type \in {"end", "compacted"} => ended[call] = "end")'
    BY <1>2, <1>4, <1>5, <1>7, <1>9, <1>13 DEF callVars, Final
  <2>3. (\A i \in At : /\ events[i].type \in Terminal => events[i].turn = call
                       /\ events[i].type \in {"error", "retryFail"} => kind = "prompt")'
    BY <1>1, <1>2, <1>4, <1>5, <1>12 DEF OutcomeInv, callVars
  <2>4. (pi \in {"working", "asking", "backoff", "failing"} => kind = "prompt")'
    BY <1>1, <1>2 DEF OutcomeInv, callVars
  <2> QED
    BY <2>1, <2>2, <2>3, <2>4 DEF OutcomeInv
<1> QED
  BY <1>6, <1>10, <1>11, <1>14 DEF MineInv

\* pi gives up after an error, or takes another attempt.
LEMMA FollowMine ==
    ASSUME TypeInv, MineInv, Mine, Mine', UNCHANGED <<callVars, cmds, turn, ended>>,
           \/ Says("failing", "retryFail", "idle") \/ Says("failing", "retry", "backoff")
           \/ Says("failing", "compaction", "working")
    PROVE  MineInv'
<1>1. InputInv /\ OrderInv /\ ProgressInv /\ OutcomeInv
  BY DEF MineInv
<1>2. PICK type \in {"retryFail", "retry", "compaction"} :
         /\ GrownBy(type) /\ Len(events') \in At' /\ pi = "failing"
         /\ pi' \in {"idle", "backoff", "working"} /\ (type = "retryFail" <=> pi' = "idle")
  BY SaysGrows DEF TypeInv
<1> PICK n : n = Len(events')
  OBVIOUS
<1>3. /\ type \in Turning /\ (type = "retryFail" \/ type \in Continues)
      /\ type # "ui" /\ type # "retryOK" /\ type \notin {"error", "end", "compacted"}
      /\ (type \in Final <=> type = "retryFail") /\ (type \in Terminal <=> type = "retryFail")
      /\ "retryOK" \notin Turning /\ Terminal \subseteq Turning /\ Continues \subseteq Turning
      /\ Final \subseteq Terminal /\ {"error", "end", "compacted", "retryFail"} \subseteq Terminal
      /\ Terminal \cap Continues = {}
  BY DEF Turning, Terminal, Ends, Continues, Final
<1>4. /\ n \in At' /\ events'[n].type = type /\ events'[n].turn = turn
      /\ \A i \in At' : events'[i].type \in Turning => i = n \/ (i \in At /\ events'[i] = events[i])
      /\ \A i \in At : i \in At' /\ i < n /\ events'[i] = events[i]
      /\ n \notin At /\ \A i \in At' : ~(n < i)
  BY <1>2, <1>3 DEF GrownBy, At
<1>5. InputInv'
  BY <1>1, <1>2, <1>3, TellInput
<1>6. \A i \in At : events[i].type \notin Final
  BY <1>1, <1>2 DEF OrderInv
<1>7. \/ \E i \in At : events[i].type = "error" /\ NoneAfter(i)
      \/ cpc = "grace" /\ NoneAfter(0)
  BY <1>1, <1>2 DEF ProgressInv
<1>8. ended[call] = "error"
  BY <1>1, <1>7 DEF OutcomeInv
<1>9. NoneAfter(n)' /\ (\A i \in At : ~NoneAfter(i)') /\ ~NoneAfter(0)'
  <2>1. \A i \in At' : i > 0
    BY DEF At
  <2>2. NoneAfter(n)'
    BY <1>4 DEF NoneAfter
  <2>3. \A i \in At : ~NoneAfter(i)'
    BY <1>3, <1>4 DEF NoneAfter
  <2>4. ~NoneAfter(0)'
    BY <1>3, <1>4, <2>1 DEF NoneAfter
  <2> QED
    BY <2>2, <2>3, <2>4
<1>10. OrderInv'
  <2>1. (\A i, j \in At :
          i < j /\ events[i].type \in Terminal /\ events[j].type \in Terminal \ {"retryFail"} =>
             \E k \in At : i < k /\ k < j /\ events[k].type \in Continues)'
    <3> SUFFICES ASSUME NEW i \in At', NEW j \in At', i < j, events'[i].type \in Terminal,
                        events'[j].type \in Terminal \ {"retryFail"}
                 PROVE  \E k \in At' : i < k /\ k < j /\ events'[k].type \in Continues
      OBVIOUS
    <3>1. j \in At /\ events[j] = events'[j]
      BY <1>3, <1>4
    <3>2. i \in At /\ events[i] = events'[i]
      BY <1>3, <1>4, <3>1
    <3>3. PICK k \in At : i < k /\ k < j /\ events[k].type \in Continues
      BY <1>1, <3>1, <3>2 DEF OrderInv
    <3> QED
      BY <1>4, <3>3
  <2>2. (\A j \in At : events[j].type = "retryFail" =>
          \/ \E i \in At : /\ i < j /\ events[i].type = "error"
                           /\ \A k \in At : i < k /\ k < j => events[k].type \notin Turning
          \/ cpc = "grace" /\ \A k \in At : k < j => events[k].type \notin Turning)'
    <3> SUFFICES ASSUME NEW j \in At', events'[j].type = "retryFail"
                 PROVE  \/ \E i \in At' :
                              /\ i < j /\ events'[i].type = "error"
                              /\ \A k \in At' : i < k /\ k < j => events'[k].type \notin Turning
                        \/ /\ cpc' = "grace"
                           /\ \A k \in At' : k < j => events'[k].type \notin Turning
      OBVIOUS
    <3>1. j = n
      BY <1>3, <1>4, <1>6 DEF Final
    <3>2. ASSUME NEW i \in At, events[i].type = "error", NoneAfter(i)
          PROVE  /\ i \in At' /\ i < j /\ events'[i].type = "error"
                 /\ \A k \in At' : i < k /\ k < j => events'[k].type \notin Turning
      BY <1>4, <3>1, <3>2 DEF NoneAfter
    <3>3. NoneAfter(0) => \A k \in At' : k < j => events'[k].type \notin Turning
      <4>1. \A k \in At : 0 < k
        BY DEF At
      <4> QED
        BY <1>4, <3>1, <4>1 DEF NoneAfter
    <3> QED
      BY <1>7, <3>2, <3>3 DEF callVars
  <2>3. (cpc = "grace" =>
          \A j \in At : events[j].type \in Terminal \ {"retryFail"} =>
             \E k \in At : k < j /\ events[k].type \in Continues)'
    <3> SUFFICES ASSUME cpc = "grace", NEW j \in At', events'[j].type \in Terminal \ {"retryFail"}
                 PROVE  \E k \in At' : k < j /\ events'[k].type \in Continues
      BY DEF callVars
    <3>1. j \in At /\ events[j] = events'[j]
      BY <1>3, <1>4
    <3>2. PICK k \in At : k < j /\ events[k].type \in Continues
      BY <1>1, <3>1 DEF OrderInv
    <3> QED
      BY <1>4, <3>2
  <2>4. (\A i \in At : events[i].type \in Final => pi \in {"idle", "gone"} /\ NoneAfter(i))'
    BY <1>2, <1>3, <1>4, <1>6, <1>9
  <2> QED
    BY <2>1, <2>2, <2>3, <2>4 DEF OrderInv
<1>11. ProgressInv'
  BY <1>2, <1>3, <1>4 DEF ProgressInv, Running
<1>12. turn = call
  BY <1>1, <1>2 DEF InputInv
<1>13. OutcomeInv'
  <2>1. /\ (cpc = "grace" => reply = call)'
        /\ (cpc = "grace" /\ NoneAfter(0) => ended[call] = "error")'
    BY <1>1, <1>9 DEF OutcomeInv, callVars
  <2>2. (\A i \in At : /\ events[i].type \in {"error", "retryFail"} /\ NoneAfter(i) =>
                           ended[call] = "error"
                       /\ events[i].type \in {"end", "compacted"} => ended[call] = "end")'
    BY <1>1, <1>3, <1>4, <1>8 DEF OutcomeInv, callVars
  <2>3. (\A i \in At : /\ events[i].type \in Terminal => events[i].turn = call
                       /\ events[i].type \in {"error", "retryFail"} => kind = "prompt")'
    BY <1>1, <1>2, <1>3, <1>4, <1>12 DEF OutcomeInv, callVars
  <2>4. (pi \in {"working", "asking", "backoff", "failing"} => kind = "prompt")'
    BY <1>1, <1>2 DEF OutcomeInv, callVars
  <2> QED
    BY <2>1, <2>2, <2>3, <2>4 DEF OutcomeInv
<1> QED
  BY <1>5, <1>10, <1>11, <1>13 DEF MineInv

\* Steps of pi that leave the channel as it is, its end included.
LEMMA SilentMine ==
    ASSUME TypeInv, MineInv, Mine, Mine', UNCHANGED <<callVars, cmds, turn, ended, events>>,
           \/ pi' = "gone" \/ pi' = pi
           \/ Silent("failing", "idle") \/ Silent("backoff", "working")
    PROVE  MineInv'
<1>1. InputInv /\ OrderInv /\ ProgressInv /\ OutcomeInv
  BY DEF MineInv
<1>2. InputInv'
  BY <1>1 DEF InputInv, Silent, At, callVars
<1>3. OrderInv'
  BY <1>1 DEF OrderInv, Silent, At, NoneAfter, callVars
<1>4. ProgressInv' /\ OutcomeInv'
  BY <1>1 DEF ProgressInv, OutcomeInv, Running, Silent, At, NoneAfter, callVars
<1> QED
  BY <1>2, <1>3, <1>4 DEF MineInv

\* Everything pi does in the turn keeps the invariant.
LEMMA TurnMine ==
    ASSUME TypeInv, MineInv, PiAsks \/ PiTalks \/ PiEnds \/ PiFollowsUp \/ PiRetries
    PROVE  MineInv'
<1>1. UNCHANGED <<callVars, cmds, turn, history>>
  BY TurnSteps DEF TypeInv
<1>2. Mine' => Mine
  BY <1>1 DEF Mine, callVars, history, Regular
<1> QED
  BY <1>1, <1>2, TurnSteps, TalkMine, EndMine, FollowMine, SilentMine
     DEF TypeInv, MineInv, Silent

Answering(e) == cmds' = cmds \o (IF e.type = "ui" THEN <<"answer">> ELSE <<>>)

\* The four ways in which the caller takes an event, h, and goes on.
Skips(h) ==
    /\ cpc = "drain" /\ cpc' = "drain" /\ Answering(h)
    /\ ~(kind = "prompt" /\ h.type \in {"error", "retryFail"})

Resolves(h) ==
    /\ cpc = "drain" /\ cpc' = "grace" /\ Answering(h)
    /\ h.type \in {"error", "retryFail"} /\ (h.type = "error" => reply' = h.turn)

Rescinds(h) == cpc = "grace" /\ cpc' = "drain" /\ cmds' = cmds /\ h.type \in Continues

Swallows(h) ==
    /\ cpc = "grace" /\ cpc' = "grace" /\ cmds' = cmds /\ reply' = reply
    /\ h.type \notin Continues

\* Without a cancellation these are the steps of a caller that does not
\* return.
LEMMA TakeSteps ==
    ASSUME TypeInv, ~cancelled, Caller, cpc' # "idle"
    PROVE  /\ Took /\ UNCHANGED <<call, kind, cancelled, piVars, clean, cut, mute>>
           /\ LET h == events[1] IN Skips(h) \/ Resolves(h) \/ Rescinds(h) \/ Swallows(h)
<1>1. CASE Handle
  <2> DEFINE e == Head(events)
  <2>1. Skip(e) \/ Commit(e)
    BY <1>1 DEF Handle, Answered, AnsweredBlank, Rejected, Return
  <2>2. Took
    BY <2>1 DEF Skip, Commit, Take, Took
  <2>3. e = events[1] /\ cmds \in Seq(Inputs)
    BY <2>2, TookEvents DEF TypeInv, TypeOK, Inputs
  <2> HIDE DEF e
  <2>4. Commands(e) = IF e.type = "ui" THEN <<"answer">> ELSE <<>>
    BY DEF Commands
  <2>5. CASE Skip(e)
    BY <2>2, <2>3, <2>4, <2>5 DEF Skip, Skips, Answering, Commits, Exhausted, Take,
                                     history
  <2>6. CASE Commit(e)
    BY <2>2, <2>3, <2>4, <2>6 DEF Commit, Resolves, Answering, Commits, Exhausted, Take,
                                     history
  <2> QED
    BY <2>1, <2>5, <2>6
<1>2. CASE Rescind \/ Swallow
  <2>1. Took
    BY <1>2 DEF Rescind, Swallow, Took
  <2>2. Head(events) = events[1]
    BY <2>1, TookEvents DEF TypeInv
  <2> QED
    BY <1>2, <2>1, <2>2 DEF Rescind, Swallow, Rescinds, Swallows, callVars, history
<1> QED
  BY <1>1, <1>2 DEF Caller, DrainFails, GraceEnds, Return

\* The caller takes an event and goes on.
LEMMA TakeMine ==
    ASSUME TypeInv, Book, MineInv, Mine, Caller, cpc' # "idle"
    PROVE  MineInv'
<1>0. ~cancelled
  BY DEF Book, Mine, Regular
<1>1. InputInv /\ OrderInv /\ ProgressInv /\ OutcomeInv
  BY DEF MineInv
<1> PICK h : h = events[1]
  OBVIOUS
<1>2. /\ Took /\ UNCHANGED <<call, kind, cancelled, piVars, clean, cut, mute>>
      /\ Skips(h) \/ Resolves(h) \/ Rescinds(h) \/ Swallows(h)
  BY <1>0, TakeSteps
<1>3. /\ Len(events) \in Nat \ {0} /\ Len(events') = Len(events) - 1
      /\ \A i \in At' : i + 1 \in At /\ 1 < i + 1 /\ events'[i] = events[i + 1]
      /\ 1 \in At /\ \A i \in At : i # 1 => 1 < i /\ i - 1 \in At' /\ events'[i - 1] = events[i]
  BY <1>2, TookEvents DEF At, TypeInv
<1>4. /\ Terminal \subseteq Turning /\ Continues \subseteq Turning /\ Terminal \cap Continues = {}
      /\ {"error", "retryFail"} \subseteq Terminal /\ Final = Terminal \ {"error"}
      /\ Turning = Terminal \cup Continues /\ "ui" \notin Turning
  BY DEF Turning, Terminal, Ends, Continues, Final
<1>5. cpc \in {"drain", "grace"} /\ cpc' \in {"drain", "grace"}
  BY <1>2 DEF Skips, Resolves, Rescinds, Swallows
\* What the caller can find at the head of the channel.
<1>6. cpc = "grace" => h.type \notin Terminal \ {"retryFail"}
  BY <1>1, <1>3 DEF OrderInv, At
<1>7. cpc = "drain" => h.type # "retryFail"
  BY <1>1, <1>3 DEF OrderInv, At
<1>8. h.type = "error" => cpc = "drain" /\ cpc' = "grace" /\ reply' = call
  <2> SUFFICES ASSUME h.type = "error"
               PROVE  cpc = "drain" /\ cpc' = "grace" /\ reply' = call
    OBVIOUS
  <2>1. kind = "prompt" /\ h.turn = call
    BY <1>1, <1>3, <1>4 DEF OutcomeInv
  <2> QED
    BY <1>2, <1>4, <1>6, <2>1 DEF Skips, Resolves, Rescinds, Swallows
<1>9. cpc = "drain" /\ cpc' = "grace" => h.type = "error"
  BY <1>2, <1>7 DEF Skips, Resolves, Rescinds, Swallows
<1>10. cpc = "grace" /\ cpc' = "grace" => h.type \notin Continues /\ reply' = reply
  BY <1>2 DEF Skips, Resolves, Rescinds, Swallows
<1>11. cpc = "grace" /\ cpc' = "drain" => h.type \in Continues
  BY <1>2 DEF Skips, Resolves, Rescinds, Swallows
<1>12. \A i \in At' : NoneAfter(i)' => NoneAfter(i + 1)
  <2> SUFFICES ASSUME NEW i \in At', NoneAfter(i)', NEW k \in At, i + 1 < k
               PROVE  events[k].type \notin Turning
    BY DEF NoneAfter
  <2>1. k - 1 \in At' /\ i < k - 1 /\ events'[k - 1] = events[k]
    BY <1>3 DEF At
  <2> QED
    BY <2>1 DEF NoneAfter
<1>13. NoneAfter(0)' <=> NoneAfter(1)
  <2>1. ASSUME NoneAfter(0)', NEW k \in At, 1 < k
        PROVE  events[k].type \notin Turning
    <3>1. k - 1 \in At' /\ 0 < k - 1 /\ events'[k - 1] = events[k]
      BY <1>3, <2>1 DEF At
    <3> QED
      BY <2>1, <3>1 DEF NoneAfter
  <2>2. ASSUME NoneAfter(1), NEW k \in At'
        PROVE  events'[k].type \notin Turning
    BY <1>3, <2>2 DEF NoneAfter
  <2> QED
    BY <2>1, <2>2 DEF NoneAfter
<1>14. NoneAfter(1) /\ h.type \notin Turning => NoneAfter(0)
  BY <1>3 DEF NoneAfter
<1>15. \A i \in At' : NoneAfter(i + 1) => NoneAfter(i)'
  BY <1>3 DEF NoneAfter, At
<1>16. InputInv'
  <2>1. CASE /\ cmds = <<kind>> /\ pi \in {"idle", "gone"} /\ cpc = "drain"
             /\ \A i \in At : events[i].type \notin Terminal \cup {"ui"}
    <3>1. h.type \notin Terminal \cup {"ui"}
      BY <1>3, <2>1
    <3>2. cmds' = <<kind>> /\ cpc' = "drain"
      <4>1. Skips(h)
        BY <1>2, <1>4, <2>1, <3>1 DEF Resolves, Rescinds, Swallows
      <4>2. cmds \o <<>> = cmds
        BY ConcatEmptySeq DEF TypeInv, TypeOK
      <4> QED
        BY <2>1, <3>1, <4>1, <4>2 DEF Skips, Answering
    <3> QED
      BY <1>2, <1>3, <2>1, <3>2 DEF InputInv, piVars
  <2>2. CASE /\ turn = call
             /\ pi \notin {"asking", "gone"} => cmds = <<>> /\ \A i \in At : events[i].type # "ui"
             /\ pi = "asking" => cmds \in {<<>>, <<"answer">>}
             /\ pi = "asking" /\ cmds = <<"answer">> => \A i \in At : events[i].type # "ui"
             /\ h.type # "ui"
             /\ pi = "asking" /\ cmds = <<>> =>
                    /\ events[Len(events)].type = "ui"
                    /\ \A i \in At : i < Len(events) => events[i].type # "ui"
    <3>1. pi # "gone" => cmds' = cmds
      <4>1. pi # "gone" => cmds \in {<<>>, <<"answer">>}
        BY <2>2
      <4> QED
        BY <1>2, <2>2, <4>1 DEF Skips, Resolves, Rescinds, Swallows, Answering
    <3>2. (\A i \in At : events[i].type # "ui") => \A i \in At' : events'[i].type # "ui"
      BY <1>3
    <3>3. events[Len(events)].type = "ui" => /\ events' # <<>>
                                             /\ events'[Len(events')].type = "ui"
      <4> SUFFICES ASSUME events[Len(events)].type = "ui"
                   PROVE  events' # <<>> /\ events'[Len(events')].type = "ui"
        OBVIOUS
      <4>1. Len(events) # 1
        BY <2>2
      <4>2. Len(events') \in At' /\ Len(events') + 1 = Len(events)
        BY <1>3, <4>1 DEF At
      <4>3. events'[Len(events')] = events[Len(events)]
        BY <1>3, <4>2
      <4> QED
        BY <4>2, <4>3 DEF At
    <3>4. (\A i \in At : i < Len(events) => events[i].type # "ui") =>
             \A i \in At' : i < Len(events') => events'[i].type # "ui"
      BY <1>3 DEF At
    <3> QED
      BY <1>2, <2>2, <3>1, <3>2, <3>3, <3>4 DEF InputInv, piVars
  <2>3. CASE turn = call /\ h.type = "ui" /\ pi = "asking"
    <3>1. cmds = <<>> /\ Len(events) = 1
      BY <1>1, <1>3, <2>3 DEF InputInv, At, Kinds, TypeInv, TypeOK
    <3>2. \A i \in At' : FALSE
      BY <1>3, <3>1 DEF At
    <3>3. cpc = "drain"
      <4>1. \A k \in At : k = 1
        BY <3>1 DEF At
      <4>2. \A k \in At : events[k].type \notin Continues
        BY <1>4, <2>3, <4>1
      <4> QED
        BY <1>1, <1>5, <2>3, <4>2 DEF ProgressInv, Running
    <3>4. cmds' = <<"answer">>
      BY <1>2, <1>4, <2>3, <3>1, <3>3 DEF Skips, Resolves, Rescinds, Swallows, Answering
    <3> QED
      BY <1>2, <2>3, <3>2, <3>4 DEF InputInv, piVars
  <2>4. CASE turn = call /\ pi = "gone"
    BY <1>2, <2>4 DEF InputInv, piVars
  <2>5. pi # "asking" /\ pi # "gone" /\ turn = call /\ (\A i \in At : events[i].type # "ui") =>
           h.type # "ui"
    BY <1>3
  <2> QED
    BY <1>1, <1>3, <2>1, <2>2, <2>3, <2>4, <2>5 DEF InputInv
<1>17. OrderInv'
  <2>1. (\A i, j \in At :
          i < j /\ events[i].type \in Terminal /\ events[j].type \in Terminal \ {"retryFail"} =>
             \E k \in At : i < k /\ k < j /\ events[k].type \in Continues)'
    <3> SUFFICES ASSUME NEW i \in At', NEW j \in At', i < j, events'[i].type \in Terminal,
                        events'[j].type \in Terminal \ {"retryFail"}
                 PROVE  \E k \in At' : i < k /\ k < j /\ events'[k].type \in Continues
      OBVIOUS
    <3>1. /\ i + 1 \in At /\ j + 1 \in At /\ i + 1 < j + 1 /\ 1 < i + 1
          /\ events[i + 1] = events'[i] /\ events[j + 1] = events'[j]
      BY <1>3 DEF At
    <3>2. PICK k \in At : i + 1 < k /\ k < j + 1 /\ events[k].type \in Continues
      BY <1>1, <3>1 DEF OrderInv
    <3>3. k - 1 \in At' /\ i < k - 1 /\ k - 1 < j /\ events'[k - 1] = events[k]
      BY <1>3, <3>1, <3>2 DEF At
    <3> QED
      BY <3>2, <3>3
  <2>2. (\A j \in At : events[j].type = "retryFail" =>
          \/ \E i \in At : /\ i < j /\ events[i].type = "error"
                           /\ \A k \in At : i < k /\ k < j => events[k].type \notin Turning
          \/ cpc = "grace" /\ \A k \in At : k < j => events[k].type \notin Turning)'
    <3> SUFFICES ASSUME NEW j \in At', events'[j].type = "retryFail"
                 PROVE  \/ \E i \in At' :
                              /\ i < j /\ events'[i].type = "error"
                              /\ \A k \in At' : i < k /\ k < j => events'[k].type \notin Turning
                        \/ /\ cpc' = "grace"
                           /\ \A k \in At' : k < j => events'[k].type \notin Turning
      OBVIOUS
    <3>1. j + 1 \in At /\ 1 < j + 1 /\ events[j + 1].type = "retryFail"
      BY <1>3
    <3>2. CASE cpc = "grace" /\ \A k \in At : k < j + 1 => events[k].type \notin Turning
      <4>1. h.type \notin Turning
        BY <1>3, <3>1, <3>2
      <4>2. cpc' = "grace"
        BY <1>4, <1>5, <1>11, <3>2, <4>1
      <4>3. ASSUME NEW k \in At', k < j
            PROVE  events'[k].type \notin Turning
        <5>1. k + 1 \in At /\ k + 1 < j + 1 /\ events'[k] = events[k + 1]
          BY <1>3, <4>3 DEF At
        <5> QED
          BY <3>2, <5>1
      <4> QED
        BY <4>2, <4>3
    <3>3. CASE \E i \in At :
                  /\ i < j + 1 /\ events[i].type = "error"
                  /\ \A k \in At : i < k /\ k < j + 1 => events[k].type \notin Turning
      <4>1. PICK i \in At : /\ i < j + 1 /\ events[i].type = "error"
                            /\ \A k \in At : i < k /\ k < j + 1 => events[k].type \notin Turning
        BY <3>3
      <4>2. CASE i = 1
        <5>1. cpc' = "grace"
          BY <1>8, <4>1, <4>2
        <5>2. \A k \in At' : k < j => events'[k].type \notin Turning
          BY <1>3, <4>1, <4>2 DEF At
        <5> QED
          BY <5>1, <5>2
      <4>3. CASE i # 1
        <5>1. i - 1 \in At' /\ i - 1 < j /\ events'[i - 1].type = "error"
          BY <1>3, <4>1, <4>3 DEF At
        <5>2. \A k \in At' : i - 1 < k /\ k < j => events'[k].type \notin Turning
          BY <1>3, <4>1, <4>3 DEF At
        <5> QED
          BY <5>1, <5>2
      <4> QED
        BY <4>2, <4>3
    <3> QED
      BY <1>1, <3>1, <3>2, <3>3 DEF OrderInv
  <2>3. (cpc = "grace" =>
          \A j \in At : events[j].type \in Terminal \ {"retryFail"} =>
             \E k \in At : k < j /\ events[k].type \in Continues)'
    <3> SUFFICES ASSUME cpc' = "grace", NEW j \in At',
                        events'[j].type \in Terminal \ {"retryFail"}
                 PROVE  \E k \in At' : k < j /\ events'[k].type \in Continues
      OBVIOUS
    <3>1. j + 1 \in At /\ 1 < j + 1 /\ events[j + 1].type \in Terminal \ {"retryFail"}
      BY <1>3
    <3>2. \E k \in At : 1 < k /\ k < j + 1 /\ events[k].type \in Continues
      <4>1. CASE cpc = "drain"
        BY <1>1, <1>3, <1>4, <1>9, <3>1, <4>1 DEF OrderInv
      <4>2. CASE cpc = "grace"
        <5>1. PICK k \in At : k < j + 1 /\ events[k].type \in Continues
          BY <1>1, <3>1, <4>2 DEF OrderInv
        <5>2. k # 1
          BY <1>10, <4>2, <5>1
        <5> QED
          BY <1>3, <5>1, <5>2
      <4> QED
        BY <1>5, <4>1, <4>2
    <3>3. PICK k \in At : 1 < k /\ k < j + 1 /\ events[k].type \in Continues
      BY <3>2
    <3>4. k - 1 \in At' /\ k - 1 < j /\ events'[k - 1] = events[k]
      BY <1>3, <3>1, <3>3 DEF At
    <3> QED
      BY <3>3, <3>4
  <2>4. (\A i \in At : events[i].type \in Final => pi \in {"idle", "gone"} /\ NoneAfter(i))'
    <3> SUFFICES ASSUME NEW i \in At', events'[i].type \in Final
                 PROVE  pi' \in {"idle", "gone"} /\ NoneAfter(i)'
      OBVIOUS
    <3>1. i + 1 \in At /\ events[i + 1].type \in Final
      BY <1>3
    <3>2. pi \in {"idle", "gone"} /\ NoneAfter(i + 1)
      BY <1>1, <3>1 DEF OrderInv
    <3> QED
      BY <1>2, <1>15, <3>2 DEF piVars
  <2> QED
    BY <2>1, <2>2, <2>3, <2>4 DEF OrderInv
<1>18. ProgressInv'
  <2>1. ASSUME pi \in Running, NEW i \in At', events'[i].type \in Terminal
        PROVE  \E k \in At' : i < k /\ events'[k].type \in Continues
    <3>1. i + 1 \in At /\ events[i + 1].type \in Terminal
      BY <1>3, <2>1
    <3>2. PICK k \in At : i + 1 < k /\ events[k].type \in Continues
      BY <1>1, <2>1, <3>1 DEF ProgressInv
    <3>3. k - 1 \in At' /\ i < k - 1 /\ events'[k - 1] = events[k]
      BY <1>3, <3>2 DEF At
    <3> QED
      BY <3>2, <3>3
  <2>2. ASSUME pi \in Running, cpc' = "grace"
        PROVE  \E k \in At' : events'[k].type \in Continues
    <3>1. \E k \in At : k # 1 /\ events[k].type \in Continues
      <4>1. CASE cpc = "drain"
        <5>1. h.type \in Terminal
          BY <1>4, <1>9, <2>2, <4>1
        <5>2. PICK k \in At : 1 < k /\ events[k].type \in Continues
          BY <1>1, <1>3, <2>2, <5>1 DEF ProgressInv
        <5> QED
          BY <5>2
      <4>2. CASE cpc = "grace"
        BY <1>1, <1>10, <2>2, <4>2 DEF ProgressInv
      <4> QED
        BY <1>5, <4>1, <4>2
    <3> QED
      BY <1>3, <3>1
  <2>3. ASSUME pi = "failing"
        PROVE  \/ \E i \in At' : events'[i].type = "error" /\ NoneAfter(i)'
               \/ cpc' = "grace" /\ NoneAfter(0)'
    <3>1. CASE \E i \in At : events[i].type = "error" /\ NoneAfter(i)
      <4>1. PICK i \in At : events[i].type = "error" /\ NoneAfter(i)
        BY <3>1
      <4>2. CASE i = 1
        BY <1>8, <1>13, <4>1, <4>2
      <4>3. CASE i # 1
        <5>1. PICK k \in At' : k = i - 1
          BY <1>3, <4>3
        <5>2. k + 1 = i /\ events'[k] = events[i]
          BY <1>3, <5>1 DEF At
        <5> QED
          BY <1>15, <4>1, <5>2
      <4> QED
        BY <4>2, <4>3
    <3>2. CASE cpc = "grace" /\ NoneAfter(0)
      <4>1. h.type \notin Turning /\ NoneAfter(1)
        BY <1>3, <3>2 DEF NoneAfter, At
      <4> QED
        BY <1>4, <1>5, <1>11, <1>13, <3>2, <4>1
    <3> QED
      BY <1>1, <2>3, <3>1, <3>2 DEF ProgressInv
  <2> QED
    BY <1>2, <2>1, <2>2, <2>3 DEF ProgressInv, piVars
<1>19. OutcomeInv'
  <2>1. cpc' = "grace" => reply' = call
    BY <1>1, <1>5, <1>8, <1>9, <1>10 DEF OutcomeInv
  <2>2. cpc' = "grace" /\ NoneAfter(0)' => ended[call] = "error"
    <3> SUFFICES ASSUME cpc' = "grace", NoneAfter(1)
                 PROVE  ended[call] = "error"
      BY <1>13
    <3>1. CASE h.type \in {"error", "retryFail"}
      BY <1>1, <1>3, <3>1 DEF OutcomeInv
    <3>2. CASE h.type \notin {"error", "retryFail"}
      <4>1. cpc = "grace" /\ h.type \notin Turning
        BY <1>4, <1>5, <1>6, <1>9, <1>10, <3>2
      <4> QED
        BY <1>1, <1>14, <4>1 DEF OutcomeInv
    <3> QED
      BY <3>1, <3>2
  <2>3. \A i \in At' :
           /\ events'[i].type \in {"error", "retryFail"} /\ NoneAfter(i)' => ended[call] = "error"
           /\ events'[i].type \in {"end", "compacted"} => ended[call] = "end"
           /\ events'[i].type \in Terminal => events'[i].turn = call
           /\ events'[i].type \in {"error", "retryFail"} => kind = "prompt"
    BY <1>1, <1>3, <1>12 DEF OutcomeInv
  <2> QED
    BY <1>1, <1>2, <2>1, <2>2, <2>3 DEF OutcomeInv, piVars
<1> QED
  BY <1>16, <1>17, <1>18, <1>19 DEF MineInv

\* A call of which the invariant speaks stays one, or is over, or is another.
LEMMA MineStep ==
    ASSUME TypeInv, Book, UiInv, MineInv, [Next]_vars
    PROVE  MineInv'
<1>1. CASE \E k \in Kinds : Send(k)
  BY <1>1, SendMine
<1>2. CASE Cancel
  <2>1. call' \in cut'
    BY <1>2 DEF Cancel
  <2> QED
    BY <2>1 DEF MineInv, Mine, Regular
<1>3. CASE Caller
  <2>1. call' = call /\ cpc # "idle" /\ UNCHANGED <<clean, cut, mute>>
    BY <1>3, CallerSteps DEF TypeInv
  <2>2. Mine' => Mine /\ cpc' # "idle"
    BY <2>1 DEF Mine, Regular
  <2> QED
    BY <1>3, <2>2, TakeMine DEF MineInv
<1>4. CASE Pi
  BY <1>4, ReadMine, TurnMine DEF Pi
<1>5. CASE PiExits \/ StreamBreaks \/ UNCHANGED vars
  <2>1. /\ UNCHANGED <<callVars, cmds, turn, ended, events, history>>
        /\ pi' = "gone" \/ pi' = pi
    BY <1>5 DEF PiExits, StreamBreaks, vars, piVars
  <2>2. Mine' => Mine
    BY <2>1 DEF Mine, Regular, callVars, history
  <2> QED
    BY <2>1, <2>2, SilentMine DEF MineInv
<1>6. CASE PiFailsMutely
  <2>1. /\ pi = "working" /\ mute' = mute \cup {turn}
        /\ UNCHANGED <<callVars, clean, cut, cmds>>
    BY <1>6 DEF PiFailsMutely
  <2>2. Mine' => Mine
    BY <2>1 DEF Mine, Regular, callVars
  <2>3. Mine => turn = call
    BY <2>1 DEF MineInv, InputInv
  <2>4. ~Mine'
    BY <2>1, <2>2, <2>3 DEF Mine, Regular, callVars
  <2> QED
    BY <2>4 DEF MineInv
<1> QED
  BY <1>1, <1>2, <1>3, <1>4, <1>5, <1>6 DEF Next
-----------------------------------------------------------------------------
(* Calls that have returned.                                               *)

\* What OwnAnswer says of call n.
Own(n) ==
    /\ result[n].turn = n
    /\ result[n].how = "reply" => ended[n] = "end"
    /\ result[n].how = "refused" => ended[n] # "end" \/ (n = call /\ exited)

\* It stays true because pi is through with that turn.
PastInv ==
    \A n \in Regular : Settled(n) => Own(n) /\ (turn = n => pi \in {"idle", "gone"})

\* The call returns with the event that ends its turn: it is the last that
\* matters, and pi has nothing left to read.
LEMMA AnswerOwn ==
    ASSUME TypeInv, Book, MineInv, Mine, NEW e, e = Head(events), Answered(e)
    PROVE  /\ e.turn = call /\ ended[call] = "end" /\ pi \in {"idle", "gone"}
           /\ Unheard \/ (cmds' = <<>> /\ TypesIn(events') \cap Terminal = {})
<1>1. InputInv /\ OrderInv /\ OutcomeInv
  BY DEF MineInv
<1>2. Took
  BY DEF Answered, Take, Took
<1>3. /\ 1 \in At /\ e = events[1]
      /\ \A i \in At' : i + 1 \in At /\ 1 < i + 1 /\ events'[i] = events[i + 1]
  BY <1>2, TookEvents DEF At, TypeInv
<1>4. e.type \in {"end", "compacted"}
  BY DEF Answered, Answers
<1>5. {"end", "compacted"} \subseteq Final /\ Final \subseteq Terminal
      /\ Terminal \subseteq Turning
  BY DEF Final, Terminal, Ends, Turning
<1>6. e.turn = call /\ ended[call] = "end"
  BY <1>1, <1>3, <1>4, <1>5 DEF OutcomeInv
<1>7. pi \in {"idle", "gone"} /\ NoneAfter(1)
  BY <1>1, <1>3, <1>4, <1>5 DEF OrderInv
<1>8. CASE pi = "idle"
  <2>1. cmds = <<>>
    BY <1>1, <1>3, <1>4, <1>5, <1>8 DEF InputInv
  <2>2. Commands(e) = <<>>
    <3>1. <<>> \o <<>> = <<>>
      OBVIOUS
    <3>2. ~cancelled /\ e.type # "ui"
      BY <1>4 DEF Book, Mine, Regular
    <3> QED
      BY <3>1, <3>2 DEF Commands
  <2>3. cmds' = <<>>
    BY <2>1, <2>2 DEF Answered
  <2>4. \A i \in At' : events'[i].type \notin Terminal
    BY <1>3, <1>5, <1>7 DEF NoneAfter
  <2>5. DOMAIN events' = At'
    BY <1>2, TookEvents DEF At, TypeInv
  <2>6. TypesIn(events') \cap Terminal = {}
    BY <2>4, <2>5 DEF TypesIn
  <2> QED
    BY <1>6, <1>7, <2>3, <2>6
<1>9. CASE pi = "gone"
  BY <1>6, <1>9 DEF Book
<1> QED
  BY <1>7, <1>8, <1>9

\* The call returns with the error when the window is over: nothing can make
\* up for it any more; or when the process has exited.
LEMMA RefusalOwn ==
    ASSUME TypeInv, Book, MineInv, Mine, GraceEnds
    PROVE  /\ reply = call /\ (ended[call] = "error" \/ exited)
           /\ pi \in {"idle", "gone"}
           /\ Unheard \/ (cmds' = <<>> /\ TypesIn(events') \cap Terminal = {})
<1>1. InputInv /\ ProgressInv /\ OutcomeInv
  BY DEF MineInv
<1>2. cpc = "grace" /\ cmds' = cmds /\ events' = events /\ reply = call
  BY <1>1 DEF GraceEnds, OutcomeInv
<1>3. exited \/ (closed /\ events = <<>>) \/ (pi # "failing" /\ events = <<>>)
  BY DEF GraceEnds, WindowOver, NoMore, Book, Mine, Regular
<1>4. CASE exited
  BY <1>2, <1>4 DEF Book, Unheard
<1>6. CASE closed /\ events = <<>>
  <2>1. \A i \in At : FALSE
    BY <1>6 DEF At
  <2>2. ended[call] = "error"
    BY <1>1, <1>2, <2>1 DEF OutcomeInv, NoneAfter
  <2> QED
    BY <1>2, <1>6, <2>2 DEF Book, Unheard
<1>5. CASE ~Unheard /\ pi # "failing" /\ events = <<>>
  <2>1. \A i \in At : FALSE
    BY <1>5 DEF At
  <2>2. ended[call] = "error"
    BY <1>1, <1>2, <2>1 DEF OutcomeInv, NoneAfter
  <2>3. pi = "idle"
    BY <1>1, <1>2, <1>5, <2>1 DEF ProgressInv, Running, Book, TypeInv, TypeOK
  <2>4. cmds' = <<>>
    BY <1>1, <1>2, <2>3 DEF InputInv
  <2>5. TypesIn(events') = {}
    BY <1>2, <1>5 DEF TypesIn
  <2> QED
    BY <1>2, <2>2, <2>3, <2>4, <2>5
<1> QED
  BY <1>3, <1>4, <1>5, <1>6 DEF Unheard

\* A call that returns with an answer or an error has its own.
LEMMA ReturnOwn ==
    ASSUME TypeInv, Book, MineInv, Mine, Caller, Settled(call)'
    PROVE  /\ Own(call)' /\ pi' \in {"idle", "gone"}
           /\ cpc' = "idle" /\ (Quiet' \/ Unheard')
<1>1. call \in 1..Calls /\ result \in [1..Calls -> Results]
  BY CallNumbers DEF Mine, TypeInv, TypeOK, Results
<1>2. UNCHANGED <<call, exited, closed, piVars>>
  BY CallerSteps DEF TypeInv
<1>3. ~Settled(call)
  BY DEF Book, Mine, Regular
<1>4. \A how, t : Return(how, t) =>
         /\ cpc' = "idle" /\ result'[call].how = how /\ result'[call].turn = t
         /\ how \in {"reply", "refused"}
  BY <1>1, <1>2 DEF Return, Settled
<1>5. CASE Handle
  <2> DEFINE e == Head(events)
  <2>1. Answered(e)
    <3>1. Took /\ cpc = "drain" => e.type # "retryFail"
      <4> SUFFICES ASSUME Took, cpc = "drain"
                   PROVE  e.type # "retryFail"
        OBVIOUS
      <4>1. e = events[1] /\ 1 \in At /\ \A i \in At : ~(i < 1)
        BY TookEvents DEF TypeInv, At
      <4> QED
        BY <4>1 DEF MineInv, OrderInv
    <3>2. AnsweredBlank(e) => Took /\ cpc = "drain" /\ e.type = "retryFail"
      BY DEF AnsweredBlank, Exhausted, Take, Took
    <3> QED
      BY <1>2, <1>3, <1>4, <1>5, <3>1, <3>2 DEF Handle, Skip, Commit, Rejected, history, Settled
  <2> HIDE DEF e
  <2>2. e = Head(events) /\ Return("reply", e.turn)
    BY <2>1 DEF Answered, e
  <2>3. /\ e.turn = call /\ ended[call] = "end" /\ pi \in {"idle", "gone"}
        /\ Unheard \/ (cmds' = <<>> /\ TypesIn(events') \cap Terminal = {})
    BY <2>1, <2>2, AnswerOwn
  <2> QED
    BY <1>2, <1>4, <2>2, <2>3 DEF Own, Quiet, Book, piVars, Regular, Unheard
<1>6. CASE GraceEnds
  <2>1. Return("refused", reply)
    BY <1>6 DEF GraceEnds
  <2> QED
    BY <1>2, <1>4, <1>6, <2>1, RefusalOwn DEF Own, Quiet, Book, piVars, Regular, Unheard
<1>7. CASE DrainFails
  BY <1>4, <1>7 DEF DrainFails
<1>8. CASE Rescind \/ Swallow
  BY <1>2, <1>3, <1>8 DEF Rescind, Swallow, history, Settled
<1> QED
  BY <1>5, <1>6, <1>7, <1>8 DEF Caller

\* What has returned stays true, and the channel stays clean between calls.
LEMMA PastStep ==
    ASSUME TypeInv, Book, MineInv, PastInv, TurnOver, [Next]_vars
    PROVE  PastInv' /\ TurnOver'
<1>0. call \in Nat /\ Calls \in Nat /\ result \in [1..Calls -> Results]
      /\ (call # 0 => call \in 1..Calls)
  BY CallNumbers DEF TypeInv, TypeOK, Results
<1>1. CASE \E k \in Kinds : Send(k)
  <2>1. /\ call' = call + 1 /\ call' \in 1..Calls /\ ~exited /\ cpc' = "drain"
        /\ clean' \subseteq clean \cup {call'}
        /\ UNCHANGED <<result, cut, mute, exited, pi, turn, ended>>
    BY <1>0, <1>1 DEF Send, piVars
  <2>2. ~Settled(call)'
    BY <1>0, <2>1 DEF Book, Settled
  <2>3. \A n \in Regular' : Settled(n)' => n \in Regular /\ Settled(n)
    BY <2>1, <2>2 DEF Settled, Regular
  <2>4. ASSUME NEW n \in Regular', Settled(n)'
        PROVE  Own(n)' /\ (turn' = n => pi' \in {"idle", "gone"})
    BY <2>1, <2>3, <2>4 DEF PastInv, Own
  <2> QED
    BY <2>1, <2>4 DEF PastInv, TurnOver
<1>2. CASE Cancel
  BY <1>2 DEF Cancel, PastInv, Own, Settled, TurnOver, piVars, Regular, Unheard
<1>3. CASE Caller
  <2>1. /\ UNCHANGED <<call, exited, closed, clean, cut, mute, pi, turn, ended>> /\ cpc # "idle"
        /\ \A n \in 1..Calls : n # call => result'[n] = result[n]
    <3>1. /\ UNCHANGED <<call, exited, closed, clean, cut, mute, piVars>> /\ cpc # "idle"
          /\ \/ \E how \in Outcomes : \E t \in 0..Calls : Returns(how, t)
             \/ UNCHANGED result
      BY <1>3, CallerSteps DEF TypeInv
    <3> QED
      BY <1>0, <3>1 DEF Returns, piVars
  <2>2. clean \subseteq 1..Calls
    BY DEF TypeInv, TypeOK
  <2>3. call \in Regular /\ Settled(call)' =>
           Own(call)' /\ pi' \in {"idle", "gone"} /\ (Quiet' \/ Unheard')
    BY <1>3, <2>1, ReturnOwn DEF Mine
  <2>4. ASSUME NEW n \in Regular, Settled(n)'
        PROVE  Own(n)' /\ (turn' = n => pi' \in {"idle", "gone"})
    <3>1. CASE n = call
      BY <2>1, <2>3, <2>4, <3>1 DEF Settled, Own
    <3>2. CASE n # call
      <4>1. result'[n] = result[n]
        BY <2>1, <2>2, <2>4, <3>2 DEF Regular
      <4>2. Settled(n)
        BY <2>4, <4>1 DEF Settled
      <4>3. Own(n) /\ (turn = n => pi \in {"idle", "gone"})
        BY <4>2 DEF PastInv
      <4> QED
        BY <2>1, <4>1, <4>3 DEF Own
    <3> QED
      BY <3>1, <3>2
  <2>5. PastInv'
    BY <2>1, <2>4 DEF PastInv, Regular, Unheard
  <2>6. TurnOver'
    BY <2>1, <2>3 DEF TurnOver, Regular, Unheard
  <2> QED
    BY <2>5, <2>6
<1>4. CASE Pi
  <2>1. UNCHANGED <<callVars, exited, closed, history>>
    BY <1>4, PiLeaves
  <2>2. ASSUME call \in Regular, Settled(call)
        PROVE  Unheard
    <3>1. Quiet \/ Unheard
      BY <2>2 DEF Book, TurnOver
    <3>2. ASSUME Quiet
          PROVE  FALSE
      <4>1. CASE PiReads
        BY <3>2, <4>1, ReadSteps DEF TypeInv, Quiet
      <4>2. CASE PiAsks \/ PiTalks \/ PiEnds \/ PiFollowsUp \/ PiRetries
        BY <3>2, <4>2, TurnSteps DEF TypeInv, Quiet, Says, Silent
      <4> QED
        BY <1>4, <4>1, <4>2 DEF Pi
    <3> QED
      BY <3>1, <3>2
  <2>3. pi # "gone"
    <3>1. CASE PiReads
      BY <3>1, ReadSteps DEF TypeInv
    <3>2. CASE PiAsks \/ PiTalks \/ PiEnds \/ PiFollowsUp \/ PiRetries
      BY <3>2, TurnSteps DEF TypeInv, Says, Silent
    <3> QED
      BY <1>4, <3>1, <3>2 DEF Pi
  <2>4. ~(call \in Regular /\ Settled(call))
    BY <2>2, <2>3 DEF Book
  <2>5. ASSUME NEW n \in Regular, Settled(n)
        PROVE  ended'[n] = ended[n] /\ (turn' = n => pi' \in {"idle", "gone"})
    <3>1. n # call /\ (turn = n => pi = "idle")
      BY <2>3, <2>4, <2>5 DEF PastInv
    <3>2. CASE PiReads
      BY <3>1, <3>2, ReadSteps DEF TypeInv, Says
    <3>3. CASE PiAsks \/ PiTalks \/ PiEnds \/ PiFollowsUp \/ PiRetries
      <4>1. turn' = turn /\ pi # "idle"
        BY <3>3, TurnSteps DEF TypeInv, Says, Silent
      <4>2. turn # n /\ turn' # n
        BY <3>1, <4>1
      <4>3. ended' = ended \/ \E f : ended' = [ended EXCEPT ![turn] = f]
        BY <3>3, TurnSteps DEF TypeInv
      <4>4. n \in 1..Calls /\ ended \in [1..Calls -> Ends \cup {"none"}]
        BY DEF TypeInv, TypeOK, Regular
      <4>5. ended'[n] = ended[n]
        BY <4>2, <4>3, <4>4
      <4> QED
        BY <4>2, <4>5
    <3> QED
      BY <1>4, <3>2, <3>3 DEF Pi
  <2>6. PastInv'
    BY <2>1, <2>5 DEF PastInv, Own, Settled, callVars, history, Regular, Unheard
  <2>7. TurnOver'
    BY <2>1, <2>4 DEF TurnOver, Settled, callVars, history, Regular, Unheard
  <2> QED
    BY <2>6, <2>7
<1>5. CASE PiExits \/ StreamBreaks
  BY <1>5 DEF PiExits, StreamBreaks, PastInv, Own, Settled, TurnOver, Unheard, Regular,
              callVars, history
<1>7. CASE PiFailsMutely
  <2>1. /\ pi = "working" /\ pi' = "failing" /\ ended' = [ended EXCEPT ![turn] = "error"]
        /\ mute' = mute \cup {turn} /\ UNCHANGED <<callVars, exited, turn, result, clean, cut>>
    BY <1>7 DEF PiFailsMutely
  <2>2. Regular' = Regular \ {turn}
    BY <2>1 DEF Regular
  <2>3. ~(cpc = "idle" /\ call \in Regular /\ Settled(call))
    BY <2>1 DEF TurnOver, Quiet, Book
  <2>4. ASSUME NEW n \in Regular', Settled(n)'
        PROVE  Own(n)' /\ (turn' = n => pi' \in {"idle", "gone"})
    <3>1. n \in Regular /\ Settled(n) /\ n # turn
      BY <2>1, <2>2, <2>4 DEF Settled
    <3>2. ended'[n] = ended[n]
      BY <2>1, <3>1 DEF TypeInv, TypeOK, Regular
    <3> QED
      BY <2>1, <3>1, <3>2 DEF PastInv, Own, callVars
  <2> QED
    BY <2>1, <2>2, <2>3, <2>4 DEF PastInv, TurnOver, Settled, callVars
<1>6. CASE UNCHANGED vars
  BY <1>6 DEF PastInv, Own, Settled, TurnOver, Quiet, TypesIn, Regular, Unheard, vars, callVars,
              piVars, history
<1> QED
  BY <1>1, <1>2, <1>3, <1>4, <1>5, <1>6, <1>7 DEF Next

\* Together they are inductive: what a call returns depends on the order
\* of the events (MineInv), a clean channel on what pi asks (UiInv).
Inv == TypeInv /\ Book /\ UiInv /\ MineInv /\ PastInv /\ TurnOver

\* It holds in every state the dialogue can reach.
LEMMA Invariant == Spec => []Inv
<1>1. Init => Book /\ UiInv /\ MineInv /\ PastInv /\ TurnOver
  <2> SUFFICES ASSUME Init
               PROVE  Book /\ UiInv /\ MineInv /\ PastInv /\ TurnOver
    OBVIOUS
  <2>1. clean = {} /\ cut = {} /\ Regular = {} /\ cpc = "idle" /\ call = 0 /\ turn = 0
    BY DEF Init, Regular
  <2>2. Book
    BY <2>1, CallNumbers, RpcAssumption DEF Init, Book, Unheard
  <2>3. UiInv
    BY DEF Init, UiInv, At
  <2> QED
    BY <2>1, <2>2, <2>3 DEF MineInv, Mine, PastInv, TurnOver
<1>2. TypeInv /\ TypeInv' /\ Book /\ UiInv /\ MineInv /\ PastInv /\ TurnOver /\ [Next]_vars
         => Book' /\ UiInv' /\ MineInv' /\ PastInv' /\ TurnOver'
  BY BookStep, UiStep, MineStep, PastStep
<1> QED
  BY <1>1, <1>2, TypeInvariant, PTL DEF Spec, Inv

\* A call that finds the channel clean and is not cancelled, and whose errors
\* have a message, reports how its own turn ended, however often it is retried
\* or compacted, whatever pi asks meanwhile, and however full the channel is.
THEOREM AnswersAreOwn == Spec => []OwnAnswer
<1>1. Inv => OwnAnswer
  BY DEF Inv, PastInv, Own, OwnAnswer
<1> QED
  BY <1>1, Invariant, PTL

\* When it has returned, pi is through with it, and nothing it left behind
\* can end the next call.
THEOREM TurnsAreOver == Spec => []TurnOver
<1>1. Inv => TurnOver
  BY DEF Inv
<1> QED
  BY <1>1, Invariant, PTL
=============================================================================
