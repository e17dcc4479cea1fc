------------------------------- MODULE PiRpc --------------------------------
(***************************************************************************)
(* The dialogue with one pi process (pi_rpc.go): sendAndWait and Compact   *)
(* write a command and read events until the one that ends it.  All calls  *)
(* read from one channel, so that what a call leaves there the next one    *)
(* finds.  pi is the environment; it behaves as the comments of pi_rpc.go  *)
(* say: a turn that ends in an error may be followed, at once, by a retry, *)
(* by a compaction and another attempt, or by nothing.                     *)
(*                                                                         *)
(* An event carries the number of the call whose turn it belongs to.       *)
(***************************************************************************)
EXTENDS Naturals, Sequences, FiniteSets

CONSTANTS
    Calls,      \* how many calls the worker makes
    Capacity,   \* of the events channel
    MaxTries    \* attempts of one turn

ASSUME RpcAssumption ==
    /\ Calls \in Nat \ {0} /\ Capacity \in Nat \ {0} /\ MaxTries \in Nat \ {0}

VARIABLES
    call, kind,     \* the last call, and whether it is a prompt
    cpc,            \* "idle", in drainEvents, or in graceDrain
    cancelled,      \* the context of the call
    aborted,        \* drainEvents sent the abort
    reply,          \* the turn that w.reply is of, or 0
    finalErr,       \* w.finalErr is set
    cmds,           \* pi's standard input
    events, closed, \* the events channel
    exited,         \* p.done
    pi, turn, tries,    \* what pi is doing ("gone": it is not heard any more), for
                        \* which call, in which attempt
    ended,          \* how the last attempt of each turn ended (history)
    result,         \* what each call returned (history)
    clean,          \* calls that found pi idle and nothing left over (history)
    cut,            \* calls that were cancelled (history)
    mute            \* calls in whose turn pi reported an error without saying
                    \* which (history)

callVars == <<call, kind, cpc, cancelled, aborted, reply, finalErr>>
piVars == <<pi, turn, tries, ended>>
history == <<result, clean, cut, mute>>
vars == <<callVars, cmds, events, closed, exited, piVars, history>>

Kinds == {"prompt", "compact"}
Ends == {"end", "error"}
Terminal == Ends \cup {"retryFail", "reject", "compacted"}
Continues == {"retry", "compaction"}
Types == Terminal \cup Continues \cup {"retryOK", "ui", "other"}

\* says: the end of the retries says why; the other types are divided by that.
Event(type, says) == [type |-> type, turn |-> turn, says |-> says]
Plain(type) == Event(type, TRUE)
Outcomes == {"none", "reply", "refused", "rejected", "failed", "cancelled"}

TypeOK ==
    /\ call \in 0..Calls /\ kind \in Kinds
    /\ cpc \in {"idle", "drain", "grace"}
    /\ cancelled \in BOOLEAN /\ aborted \in BOOLEAN /\ finalErr \in BOOLEAN
    /\ finalErr <=> cpc = "grace"
    /\ reply \in 0..Calls
    /\ cmds \in Seq(Kinds \cup {"abort", "answer"})
    /\ events \in Seq([type : Types, turn : 0..Calls, says : BOOLEAN])
    /\ Len(events) <= Capacity
    /\ closed \in BOOLEAN /\ exited \in BOOLEAN
    /\ pi \in {"idle", "working", "asking", "failing", "backoff", "compacting", "gone"}
    /\ turn \in 0..Calls /\ tries \in 0..MaxTries
    /\ ended \in [1..Calls -> Ends \cup {"none"}]
    /\ result \in [1..Calls -> [how : Outcomes, turn : 0..Calls]]
    /\ clean \subseteq 1..Calls /\ cut \subseteq 1..Calls /\ mute \subseteq 0..Calls

Init ==
    /\ call = 0 /\ kind = "prompt" /\ cpc = "idle" /\ cancelled = FALSE /\ aborted = FALSE
    /\ reply = 0 /\ finalErr = FALSE
    /\ cmds = <<>> /\ events = <<>> /\ closed = FALSE /\ exited = FALSE
    /\ pi = "idle" /\ turn = 0 /\ tries = 0
    /\ ended = [n \in 1..Calls |-> "none"]
    /\ result = [n \in 1..Calls |-> [how |-> "none", turn |-> 0]]
    /\ clean = {} /\ cut = {} /\ mute = {}
-----------------------------------------------------------------------------
(* The caller.                                                             *)

TypesIn(s) == {s[i].type : i \in DOMAIN s}

Quiet == pi = "idle" /\ cmds = <<>> /\ TypesIn(events) \cap Terminal = {}

\* sendPromptCommand, or the compact command.
Send(k) ==
    /\ cpc = "idle" /\ call < Calls /\ ~exited
    /\ call' = call + 1 /\ kind' = k /\ cpc' = "drain"
    /\ cmds' = Append(cmds, k)
    /\ clean' = IF Quiet THEN clean \cup {call'} ELSE clean
    /\ UNCHANGED <<cancelled, aborted, reply, finalErr, events, closed, exited, piVars,
                   result, cut, mute>>

Cancel ==
    /\ cpc # "idle" /\ ~cancelled
    /\ cancelled' = TRUE
    /\ cut' = cut \cup {call}
    /\ UNCHANGED <<call, kind, cpc, aborted, reply, finalErr, cmds, events, closed, exited,
                   piVars, result, clean, mute>>

Return(how, t) ==
    /\ cpc' = "idle"
    /\ result' = [result EXCEPT ![call] = [how |-> how, turn |-> t]]
    /\ cancelled' = FALSE /\ aborted' = FALSE /\ reply' = 0 /\ finalErr' = FALSE
    /\ UNCHANGED <<call, kind, closed, exited, piVars, clean, cut, mute>>

\* drainEvents takes an event; the abort goes out before it is looked at, and
\* a request of an extension is answered.
Take == cpc = "drain" /\ events # <<>> /\ events' = Tail(events)

\* Mutant: requests of extensions are left unanswered.
CommandsMute(e) == IF cancelled /\ ~aborted THEN <<"abort">> ELSE <<>>

Commands(e) ==
    (IF cancelled /\ ~aborted THEN <<"abort">> ELSE <<>>)
        \o (IF e.type = "ui" THEN <<"answer">> ELSE <<>>)

\* resultWaiter.handle: the event ends a prompt, tentatively when it commits
\* an error.  What commits an error is its text: an error agent_end without a
\* message passes for an answer, and so does the end of the retries, with what
\* an earlier attempt said.  Compact ends with its response.
Exhausted(e) == kind = "prompt" /\ e.type = "retryFail"

Commits(e) == (kind = "prompt" /\ e.type = "error") \/ (Exhausted(e) /\ e.says)

\* Mutant: the end of the retries is an answer, whatever came of them.
AnswersOnRetry(e) == kind = "prompt" /\ e.type \in {"end", "retryOK"}

Answers(e) ==
    \/ kind = "prompt" /\ e.type = "end"
    \/ kind = "compact" /\ e.type = "compacted"

Rejects(e) == e.type = "reject"

Skip(e) ==
    /\ Take
    /\ ~Commits(e) /\ ~Answers(e) /\ ~Rejects(e) /\ ~Exhausted(e)
    /\ cmds' = cmds \o Commands(e)
    /\ aborted' = (aborted \/ cancelled)
    /\ UNCHANGED <<call, kind, cpc, cancelled, reply, finalErr, closed, exited, piVars,
                   history>>

Answered(e) ==
    /\ Take /\ Answers(e)
    /\ cmds' = cmds \o Commands(e)
    /\ Return("reply", e.turn)

AnsweredBlank(e) ==
    /\ Take /\ Exhausted(e) /\ ~e.says /\ ~Answers(e)
    /\ cmds' = cmds \o Commands(e)
    /\ Return("reply", reply)

\* Reported as an error, whatever cancelled the call.
Rejected(e) ==
    /\ Take /\ Rejects(e)
    /\ cmds' = cmds \o Commands(e)
    /\ Return(IF cancelled THEN "cancelled" ELSE "rejected", 0)

\* handleAgentEnd with an error, or the end of the retries.
Commit(e) ==
    /\ Take /\ Commits(e) /\ ~Answers(e)
    /\ cmds' = cmds \o Commands(e)
    /\ aborted' = (aborted \/ cancelled)
    /\ reply' = IF e.type = "error" THEN e.turn ELSE reply
    /\ finalErr' = TRUE
    /\ cpc' = "grace"
    /\ UNCHANGED <<call, kind, cancelled, closed, exited, piVars, history>>

\* Mutant: only the end of the channel is an end.
NoMoreByEOF == closed /\ events = <<>>

\* nextEvent: the process has exited, whether or not there are events left
\* (select picks either); a grandchild may keep the channel open.
NoMore == exited \/ (closed /\ events = <<>>)

DrainFails ==
    /\ cpc = "drain" /\ NoMore
    /\ Return(IF cancelled THEN "cancelled" ELSE "failed", 0)
    /\ UNCHANGED <<cmds, events>>

\* Mutant: the error is not forgotten.
RescindKeeping ==
    /\ cpc = "grace" /\ events # <<>> /\ Head(events).type \in Continues
    /\ events' = Tail(events)
    /\ cpc' = "drain" /\ aborted' = FALSE
    /\ UNCHANGED <<call, kind, cancelled, reply, finalErr, cmds, closed, exited,
                   piVars, history>>

\* graceDrain: a retry or compaction rescinds the error, and drainEvents starts
\* anew; the rest is swallowed.
Rescind ==
    /\ cpc = "grace" /\ events # <<>> /\ Head(events).type \in Continues
    /\ events' = Tail(events)
    /\ finalErr' = FALSE
    /\ cpc' = "drain" /\ aborted' = FALSE
    /\ UNCHANGED <<call, kind, cancelled, reply, cmds, closed, exited, piVars,
                   history>>

Swallow ==
    /\ cpc = "grace" /\ events # <<>> /\ Head(events).type \notin Continues
    /\ events' = Tail(events)
    /\ UNCHANGED <<callVars, cmds, closed, exited, piVars, history>>

\* Mutant: the window is no longer than a step.
WindowOverEarly == TRUE

\* "Pi emits the follow-up within milliseconds": not before that.
WindowOver == pi # "failing" /\ events = <<>>

\* The error stands: the partial reply is returned, or "Request failed".
GraceEnds ==
    /\ cpc = "grace"
    /\ cancelled \/ WindowOver \/ NoMore
    /\ Return("refused", reply)
    /\ UNCHANGED <<cmds, events>>

Handle ==
    /\ events # <<>>
    /\ LET e == Head(events) IN
       Skip(e) \/ Answered(e) \/ AnsweredBlank(e) \/ Rejected(e) \/ Commit(e)

Caller ==
    \/ Handle \/ DrainFails \/ Rescind \/ Swallow \/ GraceEnds
-----------------------------------------------------------------------------
(* pi.                                                                     *)

Emit(es) ==
    /\ Len(events) + Len(es) <= Capacity
    /\ events' = events \o es

PiKeeps == UNCHANGED <<callVars, closed, exited, history>>

Reading == cmds # <<>> /\ pi # "gone"
Busy == pi \notin {"idle", "gone"}

Starts ==
    /\ Reading /\ Head(cmds) \in Kinds /\ pi = "idle"
    /\ cmds' = Tail(cmds)
    /\ pi' = IF Head(cmds) = "prompt" THEN "working" ELSE "compacting"
    /\ turn' = call /\ tries' = 1
    /\ PiKeeps /\ UNCHANGED <<events, ended>>

\* "bounces with 'already processing'"
Bounces ==
    /\ Reading /\ Head(cmds) \in Kinds /\ Busy
    /\ cmds' = Tail(cmds)
    /\ Emit(<<Plain("reject")>>)
    /\ PiKeeps /\ UNCHANGED piVars

\* An abort ends the attempt; waiting for the next one, it ends the retries.
IsAborted ==
    /\ Reading /\ Head(cmds) = "abort"
    /\ cmds' = Tail(cmds)
    /\ IF pi \in {"idle", "failing"} THEN UNCHANGED <<events, piVars>>
       ELSE /\ \/ pi \in {"working", "asking"} /\ Emit(<<Plain("end")>>)
               \/ pi = "backoff" /\ \E t \in BOOLEAN : Emit(<<Event("retryFail", t)>>)
               \/ pi = "compacting" /\ Emit(<<Plain("reject")>>)
            /\ pi' = "idle" /\ UNCHANGED <<turn, tries, ended>>
    /\ PiKeeps

IsAnswered ==
    /\ Reading /\ Head(cmds) = "answer"
    /\ cmds' = Tail(cmds)
    /\ pi' = IF pi = "asking" THEN "working" ELSE pi
    /\ PiKeeps /\ UNCHANGED <<events, turn, tries, ended>>

PiReads == Starts \/ Bounces \/ IsAborted \/ IsAnswered

\* A step from one state to another that emits some events.
PiMoves(from, es, to) ==
    /\ pi = from /\ Emit(es)
    /\ pi' = to
    /\ PiKeeps /\ UNCHANGED <<cmds, turn>>

PiAsks == PiMoves("working", <<Plain("ui")>>, "asking") /\ UNCHANGED <<tries, ended>>

PiTalks == PiMoves("working", <<Plain("other")>>, "working") /\ UNCHANGED <<tries, ended>>

Recovered == IF tries > 1 THEN <<Plain("retryOK")>> ELSE <<>>

PiEnds ==
    /\ \/ /\ PiMoves("working", Recovered \o <<Plain("end")>>, "idle")
          /\ ended' = [ended EXCEPT ![turn] = "end"]
       \/ /\ PiMoves("working", <<Plain("error")>>, "failing")
          /\ ended' = [ended EXCEPT ![turn] = "error"]
       \/ /\ PiMoves("compacting", <<Plain("compacted")>>, "idle")
          /\ ended' = [ended EXCEPT ![turn] = "end"]
       \/ PiMoves("compacting", <<Plain("reject")>>, "idle") /\ UNCHANGED ended
    /\ UNCHANGED tries

PiFollowsUp ==
    /\ \/ PiMoves("failing", <<>>, "idle") /\ UNCHANGED tries
       \/ /\ \E t \in BOOLEAN : PiMoves("failing", <<Event("retryFail", t)>>, "idle")
          /\ UNCHANGED tries
       \/ /\ tries < MaxTries /\ tries' = tries + 1
          /\ \/ PiMoves("failing", <<Plain("retry")>>, "backoff")
             \/ PiMoves("failing", <<Plain("compaction")>>, "working")
    /\ UNCHANGED ended

PiRetries == PiMoves("backoff", <<>>, "working") /\ UNCHANGED <<tries, ended>>

\* An error agent_end without errorMessage, a field pi may omit.
PiFailsMutely ==
    /\ pi = "working" /\ pi' = "failing"
    /\ Emit(<<Plain("end")>>)
    /\ ended' = [ended EXCEPT ![turn] = "error"]
    /\ mute' = mute \cup {turn}
    /\ UNCHANGED <<callVars, cmds, closed, exited, turn, tries, result, clean, cut>>

PiExits ==
    /\ ~exited
    /\ exited' = TRUE /\ pi' = "gone" /\ closed' \in {closed, TRUE}
    /\ UNCHANGED <<callVars, cmds, events, turn, tries, ended, history>>

\* readEvents ends with an error while the process lives: a line that is too
\* long, or a failing read.  Nobody hears pi any more.
StreamBreaks ==
    /\ ~exited /\ ~closed
    /\ closed' = TRUE /\ pi' = "gone"
    /\ UNCHANGED <<callVars, cmds, events, exited, turn, tries, ended, history>>

Pi == PiReads \/ PiAsks \/ PiTalks \/ PiEnds \/ PiFollowsUp \/ PiRetries

Next == (\E k \in Kinds : Send(k)) \/ Cancel \/ Caller \/ Pi \/ PiFailsMutely
            \/ PiExits \/ StreamBreaks

Spec == Init /\ [][Next]_vars

\* The worker reads; pi reads its input, ends what it begins, and decides at
\* once what follows an error.
Fairness ==
    /\ WF_vars(Caller) /\ WF_vars(PiReads) /\ SF_vars(PiEnds)
    /\ WF_vars(PiFollowsUp) /\ WF_vars(PiRetries)

FairSpec == Spec /\ Fairness
-----------------------------------------------------------------------------
(* Properties.                                                             *)

Settled(n) == result[n].how \in {"reply", "refused"}

\* Calls that found the channel clean and were not cancelled, and whose errors
\* said what they are.
Regular == clean \ (cut \cup mute)

\* Such a call reports how its own turn ended, through retries, compactions
\* and what is swallowed meanwhile: an error only if no later attempt made up
\* for it, or if the process has exited, which graceDrain may see before the
\* retry.
OwnAnswer ==
    \A n \in 1..Calls : Settled(n) /\ n \in Regular =>
        /\ result[n].turn = n
        /\ result[n].how = "reply" => ended[n] = "end"
        /\ result[n].how = "refused" => ended[n] # "end" \/ (n = call /\ exited)

\* pi has exited, or its output is not read any more.
Unheard == exited \/ closed

\* "Returning on the first error agent_end is wrong twice over": when such a
\* call has returned, pi is through with it and left nothing on the channel
\* that would end the next call.
TurnOver ==
    cpc = "idle" /\ call \in Regular /\ Settled(call) => Quiet \/ Unheard

\* A call returns: also after an error that nothing follows, when pi asks for
\* something, and when it is dead but its channel stays open.
CallReturns == cpc # "idle" ~> cpc = "idle"
=============================================================================
