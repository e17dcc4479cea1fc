------------------------------ MODULE Opencrow ------------------------------
(***************************************************************************)
(* The bot: the worker goroutine together with every goroutine that talks  *)
(* to it.  Message handlers of the chat backend (app.go) enqueue prompts,  *)
(* abort, restart and compact; the trigger pipe and the reminder loop      *)
(* enqueue triggers; the heartbeat ticker enqueues its marker; the idle    *)
(* reaper and the shutdown signal stop pi.                                 *)
(*                                                                         *)
(* A critical section, an SQL statement and a channel operation is a step  *)
(* each, so that two goroutines interleave wherever they do in Go.         *)
(***************************************************************************)
EXTENDS Worker

CONSTANTS
    Stops,              \* !stop messages
    Reminders,          \* the triggers that come from the reminders table; the
                        \* others come through the trigger pipe
    Ticker,             \* the heartbeat goroutine
    SequentialBackend   \* the backend runs one message handler at a time
                        \* (Signal, Nostr, a socket client), or one goroutine
                        \* per message (Matrix)

ASSUME RemindersAssumption == Reminders \subseteq Triggers
ASSUME ThreadsAssumption ==
    /\ SequentialBackend \in BOOLEAN
    /\ Messages \cap (Stops \cup Restarts \cup Compacts \cup {Ticker, Reaper}) = {}
    /\ Stops \cap (Restarts \cup Compacts \cup {Ticker, Reaper}) = {}
    /\ Restarts \cap (Compacts \cup {Ticker, Reaper}) = {}
    /\ Compacts \cap {Ticker, Reaper} = {}
    /\ Ticker # Reaper

VARIABLES
    hpc,        \* where each of the other goroutines is
    holds,      \* the !stop handlers holding the cancel function of the
                \* operation in progress, read under the lock
    order       \* the prompts in the order Enqueue accepted them

handlerVars == <<hpc, holds, order>>
vars == <<inboxVars, slotVars, idle, budget, workerVars, handlerVars>>

Commands == Prompts \cup Stops \cup Restarts \cup Compacts
Threads == Commands \cup Triggers \cup {Ticker, Reaper}
Notifiers == Prompts \cup Triggers \cup Compacts \cup {Ticker}

HandlerPcs == {"new", "prepared", "queued", "waking", "done", "aborting",
               "cancelling", "stopping", "killing", "checked", "slotted", "waiting"}

TypeOK ==
    /\ InboxTypeOK
    /\ PiSlotTypeOK
    /\ WorkerTypeOK
    /\ hpc \in [Threads -> HandlerPcs]
    /\ holds \subseteq Stops
    /\ order \in Seq(Prompts)

Init ==
    /\ InboxInit
    /\ PiSlotInit
    /\ WorkerInit
    /\ hpc = [t \in Threads |-> "new"]
    /\ holds = {}
    /\ order = <<>>
-----------------------------------------------------------------------------
\* Goroutine t, at `from`, goes on to `to`.
Step(t, from, to) ==
    /\ hpc[t] = from
    /\ hpc' = [hpc EXCEPT ![t] = to]

\* None of these goroutines is in the middle of its work.
AllIdle(threads) == \A t \in threads : hpc[t] \in {"new", "done"}

\* The backend hands over a message.
Begin(h, to) ==
    /\ SequentialBackend => AllIdle(Commands)
    /\ Step(h, "new", to)

\* Notify, called with the priority of what was enqueued.
NotifyPriority(t) ==
    IF t \in Triggers THEN PriorityOf["trigger"]
    ELSE IF t = Ticker THEN PriorityOf["heartbeat"] ELSE PriorityOf["user"]

AfterNotify(t) ==
    IF t = Ticker THEN "new" ELSE IF t \in Compacts THEN "waiting" ELSE "done"

Notify(t) ==
    /\ Step(t, "queued", "waking")
    /\ NotifyLock(NotifyPriority(t))
    /\ UNCHANGED <<inboxVars, slotVars, idle, budget, holds, order>>

Wake(t) ==
    /\ Step(t, "waking", AfterNotify(t))
    /\ NotifyWake
    /\ UNCHANGED <<inboxVars, slotVars, idle, budget, holds, order>>
-----------------------------------------------------------------------------
(* handlePrompt.                                                           *)

SetRoomID(p) ==
    /\ Begin(p, "prepared")
    /\ roomKnown' = TRUE
    /\ UNCHANGED <<inboxVars, slotVars, idle, budget, holds, order,
                   wpc, op, extra, current, wake, slot, answered, fate, shutdown>>

\* Enqueue succeeds.
EnqueuePrompt(p) ==
    /\ Step(p, "prepared", "queued")
    /\ Insert("user", <<p>>)
    /\ order' = Append(order, p)
    /\ UNCHANGED <<slotVars, idle, budget, workerVars, holds>>

\* Enqueue fails: the user is told and nobody is notified.
RefusePrompt(p) ==
    /\ Step(p, "prepared", "done")
    /\ CtxDbFault
    /\ fate' = [fate EXCEPT ![p] = "refused"]
    /\ UNCHANGED <<inboxVars, slotVars, idle, holds, order,
                   wpc, op, extra, current, wake, slot, answered, roomKnown, shutdown>>

(* The trigger pipe takes one line after the other, the dispatcher one due *)
(* reminder after the other: two goroutines that know nothing of each      *)
(* other.                                                                  *)

SameSource(t) == IF t \in Reminders THEN Reminders ELSE Triggers \ Reminders

EnqueueTrigger(t) ==
    /\ ~shutdown /\ AllIdle(SameSource(t))
    /\ Step(t, "new", "queued")
    /\ Insert("trigger", <<t>>)
    /\ UNCHANGED <<slotVars, idle, budget, workerVars, holds, order>>

\* Enqueue fails: the line is logged and skipped.
RefuseTrigger(t) ==
    /\ ~shutdown /\ AllIdle(SameSource(t))
    /\ Step(t, "new", "done")
    /\ CtxDbFault
    /\ fate' = [fate EXCEPT ![t] = "refused"]
    /\ UNCHANGED <<inboxVars, slotVars, idle, holds, order,
                   wpc, op, extra, current, wake, slot, answered, roomKnown, shutdown>>

(* The heartbeat ticker; a tick that finds a pending marker does nothing.  *)

Tick ==
    /\ ~shutdown /\ ~HeartbeatPending
    /\ Step(Ticker, "new", "queued")
    /\ Spend("tick")
    /\ Insert("heartbeat", <<>>)
    /\ UNCHANGED <<slotVars, idle, workerVars, holds, order>>
-----------------------------------------------------------------------------
(* handleStop.                                                             *)

CheckActive(s) ==
    /\ Begin(s, IF IsActive THEN "aborting" ELSE "done")
    /\ UNCHANGED <<inboxVars, slotVars, idle, budget, workerVars, holds, order>>

\* Abort reads currentCancel under the lock ...
ReadCancel(s) ==
    /\ Step(s, "aborting", IF current = -1 THEN "done" ELSE "cancelling")
    /\ holds' = IF current = -1 THEN holds ELSE holds \cup {s}
    /\ UNCHANGED <<inboxVars, slotVars, idle, budget, workerVars, order>>

\* ... and calls it outside; by then its operation may be over.
CallCancel(s) ==
    /\ Step(s, "cancelling", "done")
    /\ IF s \in holds THEN Cancel ELSE UNCHANGED op
    /\ holds' = holds \ {s}
    /\ UNCHANGED <<inboxVars, slotVars, idle, budget, order, wpc, extra, current,
                   wake, slot, answered, fate, roomKnown, shutdown>>

(* handleRestart and the clean-up of a left room: Worker.Restart.          *)

RestartFlag(h) ==
    /\ Begin(h, "stopping")
    /\ SetFreshStart(h)
    /\ UNCHANGED <<inboxVars, idle, budget, workerVars, holds, order>>

RestartStop(h) ==
    /\ Step(h, "stopping", "killing")
    /\ StopPi(h)
    /\ UNCHANGED <<inboxVars, idle, budget, workerVars, holds, order>>

\* "Session restarted. Next message starts a fresh session."
RestartDone(h) ==
    /\ Step(h, "killing", "done")
    /\ Killed(h)
    /\ UNCHANGED <<inboxVars, slotVars, idle, budget, workerVars, holds, order>>

(* handleCompact and Worker.Compact.                                       *)

CompactActive(c) ==
    /\ Begin(c, IF IsActive THEN "checked" ELSE "done")
    /\ UNCHANGED <<inboxVars, slotVars, idle, budget, workerVars, holds, order>>

\* "compact already in progress", or the slot is taken.
ClaimSlot(c) ==
    /\ Step(c, "checked", IF slot = NoCaller THEN "slotted" ELSE "done")
    /\ slot' = IF slot = NoCaller THEN c ELSE slot
    /\ UNCHANGED <<inboxVars, slotVars, idle, budget, holds, order,
                   wpc, op, extra, current, wake, answered, fate, roomKnown, shutdown>>

EnqueueCompact(c) ==
    /\ Step(c, "slotted", "queued")
    /\ Insert("compact", <<>>)
    /\ UNCHANGED <<slotVars, idle, budget, workerVars, holds, order>>

RefuseCompact(c) ==
    /\ Step(c, "slotted", "done")
    /\ CtxDbFault
    /\ slot' = NoCaller
    /\ UNCHANGED <<inboxVars, slotVars, idle, holds, order,
                   wpc, op, extra, current, wake, answered, fate, roomKnown, shutdown>>

\* The outcome arrives, or the handler's context ends at shutdown.
CompactReturns(c) ==
    /\ Step(c, "waiting", "done")
    /\ c \in answered \/ shutdown
    /\ UNCHANGED <<inboxVars, slotVars, idle, budget, workerVars, holds, order>>
-----------------------------------------------------------------------------
(* StartIdleReaper: the check under the lock, the stop outside it.         *)

\* Mutant: an operation in progress does not keep the reaper away.
ReaperCheckBusy ==
    /\ ~shutdown
    /\ Step(Reaper, "new", "stopping")
    /\ IsActive /\ idle
    /\ UNCHANGED <<inboxVars, slotVars, idle, budget, workerVars, holds, order>>

ReaperCheck ==
    /\ ~shutdown
    /\ Step(Reaper, "new", "stopping")
    /\ current = -1 /\ IsActive /\ idle
    /\ UNCHANGED <<inboxVars, slotVars, idle, budget, workerVars, holds, order>>

ReaperStop ==
    /\ Step(Reaper, "stopping", "killing")
    /\ StopPi(Reaper)
    /\ UNCHANGED <<inboxVars, idle, budget, workerVars, holds, order>>

ReaperDone ==
    /\ Step(Reaper, "killing", "new")
    /\ Killed(Reaper)
    /\ UNCHANGED <<inboxVars, slotVars, idle, budget, workerVars, holds, order>>

(* The environment.                                                        *)

\* IdleTimeout passes without a prompt.
TimePasses ==
    /\ ~idle
    /\ Spend("idle")
    /\ idle' = TRUE
    /\ UNCHANGED <<inboxVars, slotVars, workerVars, handlerVars>>

PiExits ==
    /\ \E p \in DOMAIN procs : ExitPi(p)
    /\ UNCHANGED <<inboxVars, idle, workerVars, handlerVars>>

\* setupShutdown, or the return of the backend.
Shutdown ==
    /\ ~shutdown
    /\ Spend("shutdown")
    /\ shutdown' = TRUE
    /\ UNCHANGED <<inboxVars, slotVars, idle, handlerVars, wpc, op, extra, current,
                   wake, slot, answered, fate, roomKnown>>
-----------------------------------------------------------------------------
\* The end of an operation outdates the cancel functions read before.
Forget == holds' = IF current = -1 \/ current' # -1 THEN holds ELSE {}

Work == WorkerStep /\ Forget /\ UNCHANGED <<hpc, order>>

\* A goroutine in the middle of its work takes its next step.
Continue(t) ==
    \/ t \in Notifiers /\ (Notify(t) \/ Wake(t))
    \/ t \in Prompts /\ (EnqueuePrompt(t) \/ RefusePrompt(t))
    \/ t \in Stops /\ (ReadCancel(t) \/ CallCancel(t))
    \/ t \in Restarts /\ (RestartStop(t) \/ RestartDone(t))
    \/ t \in Compacts /\ (ClaimSlot(t) \/ EnqueueCompact(t) \/ RefuseCompact(t)
                            \/ CompactReturns(t))
    \/ t = Reaper /\ (ReaperStop \/ ReaperDone)

\* Something happens that nothing forces to happen.
Arrive ==
    \/ \E p \in Prompts : SetRoomID(p)
    \/ \E t \in Triggers : EnqueueTrigger(t) \/ RefuseTrigger(t)
    \/ \E s \in Stops : CheckActive(s)
    \/ \E h \in Restarts : RestartFlag(h)
    \/ \E c \in Compacts : CompactActive(c)
    \/ Tick \/ ReaperCheck \/ TimePasses \/ PiExits \/ Shutdown

\* Every goroutine rests: what may still come is up to the environment.
Rest ==
    /\ wpc = "stopped" \/ (wpc = "wait" /\ ~wake)
    /\ AllIdle(Threads)
    /\ UNCHANGED vars

Next == Work \/ (\E t \in Threads : Continue(t)) \/ Arrive \/ Rest

Spec == Init /\ [][Next]_vars
-----------------------------------------------------------------------------
(* Fairness.  The Go scheduler runs every goroutine that can run, and the  *)
(* SIGKILL of Kill makes a signalled process exit.                         *)

KilledExits ==
    /\ \E p \in DOMAIN procs : procs[p].state = "signalled" /\ ExitPi(p)
    /\ UNCHANGED <<inboxVars, idle, workerVars, handlerVars>>

\* A call to pi whose process is gone ends without pi.
LoopAlone == LoopStep \/ (PiStep /\ ~Alive(op.proc))

SchedulerFairness ==
    /\ WF_vars(LoopAlone /\ Forget /\ UNCHANGED <<hpc, order>>)
    /\ \A t \in Threads : WF_vars(Continue(t))
    /\ WF_vars(KilledExits)

\* Every turn of pi ends.
TurnFairness == WF_vars(PiStep /\ Forget /\ UNCHANGED <<hpc, order>>)

\* Weaker: a turn may go on for ever, but pi keeps emitting events while it
\* does, and ends a turn it was told to abort.
AbortFairness ==
    /\ WF_vars(SendAbort /\ Forget /\ UNCHANGED <<hpc, order>>)
    /\ WF_vars(op.aborted /\ PiStep /\ Forget /\ UNCHANGED <<hpc, order>>)

SilentSpec == Spec /\ SchedulerFairness
TurnSpec == SilentSpec /\ TurnFairness
AbortSpec == SilentSpec /\ AbortFairness
-----------------------------------------------------------------------------
(* Messages.                                                               *)

\* The rows whose messages are not settled yet, in the table or in memory.
Live == inbox \cup extra \cup (IF wpc \in HoldingPcs THEN {op.row} ELSE {})

\* Enqueue has accepted m and nothing has become of it yet.
Pending(m) == hpc[m] \in {"queued", "waking", "done"} /\ fate[m] = "none"

\* Through merging, preemption, retries and requeues, every message that was
\* accepted and not settled is in exactly one row, once: nothing is lost on
\* the way and nothing can be prompted or answered twice.
Conservation ==
    /\ \A m \in Messages : Pending(m) <=> \E r \in Live : m \in Carries(r)
    /\ \A r, s \in Live : r = s \/ Carries(r) \cap Carries(s) = {}
    /\ \A r \in Live : \A i, j \in DOMAIN r.body : r.body[i] = r.body[j] => i = j

\* A message is settled once: no second reply, no error after a reply, no
\* reply to a message whose sender was told that it was refused.
SettledOnce == [][\A m \in Messages : fate[m] # "none" => fate'[m] = fate[m]]_vars

Position(p) == CHOOSE i \in DOMAIN order : order[i] = p

Earlier(r, s) == r = op.row \/ (s # op.row /\ r.id < s.id)

\* The conversation reaches pi in the order it was accepted, whatever was
\* merged, retried or queued in between.  (Not so once !stop makes the worker
\* requeue a prompt behind later ones.)
UserOrder ==
    LET users == {r \in Live : r.src = "user"} IN
    /\ \A r \in users : \A i, j \in DOMAIN r.body :
           i < j => Position(r.body[i]) < Position(r.body[j])
    /\ \A r, s \in users : r # s /\ Earlier(r, s) =>
           \A p \in Carries(r), q \in Carries(s) : Position(p) < Position(q)
-----------------------------------------------------------------------------
(* Notify.                                                                 *)

\* Whoever enqueued r has been through Notify's critical section.
Notified(r) ==
    CASE r.src = "heartbeat" -> hpc[Ticker] # "queued"
      [] r.src = "compact" -> slot # NoCaller /\ hpc[slot] \in {"waking", "waiting", "done"}
      [] OTHER -> \A m \in Carries(r) : hpc[m] \in {"waking", "done"}

\* "If the new item has strictly higher priority than the running one, the
\* running operation is preempted", for every row enqueued since the running
\* operation registered its cancel function.
PreemptionDelivered ==
    current # -1 =>
        \A r \in inbox :
            r.id >= op.since /\ Priority(r) < current /\ Notified(r) => CtxDone

\* Somebody is on the way to send the wake token.
NotifyPending ==
    \/ \E t \in Notifiers : hpc[t] \in {"queued", "waking"}
    \/ \E p \in Prompts : hpc[p] = "prepared"

\* The worker never sleeps on a row it could work on: in its select with rows
\* in the table and a room to answer in, the token is there or is coming.
NoLostWakeup ==
    wpc = "wait" /\ inbox # {} /\ roomKnown /\ ~shutdown => wake \/ NotifyPending

\* "Preempted items are requeued": a trigger whose turn was aborted is not
\* settled with its reply suppressed.
PreemptedTriggerKept ==
    [][\A t \in Triggers : fate[t] = "none" /\ fate'[t] = "muted" => ~op.aborted]_vars

\* Every accepted message comes to something, once there is a room to answer
\* in; until then triggers wait in the table.
EveryMessageSettles ==
    \A m \in Messages : Pending(m) /\ roomKnown ~> fate[m] # "none"

\* A cancelled operation makes room for what preempted it even if pi would
\* never have finished the turn.
CancelReleases == op.cancelled ~> current = -1
-----------------------------------------------------------------------------
(* Compact.                                                                *)

CompactRows ==
    {r \in inbox : r.src = "compact"} \cup
    {r \in {op.row} : wpc \in {"register", "compact"} /\ r.src = "compact"}

\* The result channel in w.compactResult and the compact row, two things in
\* two places, stay together; and a caller that waits has its outcome, or the
\* worker holds its channel, or it is still in the slot.
CompactCallerServed ==
    /\ Cardinality(CompactRows) <= 1
    /\ CompactRows # {} => slot # NoCaller
    /\ slot # NoCaller => CompactRows # {} \/ hpc[slot] = "slotted"
    /\ \A c \in Compacts : hpc[c] = "waiting" =>
           c \in answered \/ slot = c \/ (wpc = "compacting" /\ op.caller = c)

\* !compact is answered.
CompactAnswered == \A c \in Compacts : hpc[c] = "waiting" ~> hpc[c] = "done"
-----------------------------------------------------------------------------
(* The pi process.                                                         *)

\* No pi is leaked: one that was not told to exit is in the slot or about to
\* be stored there, one that was has somebody waiting for its exit, and once
\* the worker is shutting down the slot stays empty.
NoLeak ==
    /\ \A p \in DOMAIN procs : Owned(p, IF wpc = "store" THEN op.proc ELSE 0)
    /\ wpc \in {"exiting", "stopped"} => pi = 0

\* The idle reaper decides under the lock and kills after releasing it, but
\* where nothing else fails no message pays for that: the retry with a fresh
\* process is enough.
ReaperHarmless == \A m \in Messages : fate[m] \notin {"failed", "dropped"}

\* "Next message starts a fresh session (previous context discarded)": once
\* Restart has returned and the worker rests, the process the next message
\* will meet, or start, has a session younger than that Restart.
NextMessageFresh ==
    \A h \in Restarts : hpc[h] = "done" /\ wpc = "wait" =>
        IF IsActive THEN h \in procs[pi].session ELSE freshStart \/ h \in session

\* "ensure the worker sees ctx.Done so the join below cannot hang".
ShutdownStops == shutdown ~> wpc = "stopped"
=============================================================================
