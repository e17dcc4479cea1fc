------------------------------- MODULE Worker -------------------------------
(***************************************************************************)
(* The worker goroutine (worker.go): drainOnce takes rows from the inbox   *)
(* in priority order, merges user rows, registers the operation so that it *)
(* can be cancelled, prompts pi with one retry, and settles, requeues or   *)
(* drops the row.  Notify, Abort and the first half of Compact, which      *)
(* other goroutines run, are operators here and actions in Opencrow.       *)
(*                                                                         *)
(* pi is the environment: a prompt is answered with some text, with an     *)
(* empty text or with the HEARTBEAT_OK sentinel, is rejected, or fails     *)
(* because the process exits.  The locals of processItem are the record    *)
(* `op`, so that dropping them is one assignment.                          *)
(***************************************************************************)
EXTENDS Inbox, PiSlot

CONSTANTS
    Compacts,   \* !compact handlers: callers of Compact
    NoCaller    \* a nil compactResult

ASSUME CompactsAssumption == NoCaller \notin Compacts

VARIABLES
    wpc,        \* where the worker goroutine is
    op,         \* the locals of the operation in progress
    extra,      \* the rows mergeUserItems has still to fold into op.row
    current,    \* w.currentPriority; -1 iff w.currentCancel is nil
    wake,       \* a token in w.wake
    slot,       \* w.compactResult, as the caller that waits on it
    answered,   \* the callers whose result channel holds an outcome
    fate,       \* what became of each message
    roomKnown,  \* resolveRoomID finds a room
    shutdown    \* the root context is cancelled

workerVars ==
    <<wpc, op, extra, current, wake, slot, answered, fate, roomKnown, shutdown>>

\* The steps between Dequeue and the end of the operation's effect on its
\* messages.
HoldingPcs == {"merge", "fold", "register", "begin", "ensure", "spawn", "store",
               "send", "await", "retry", "retryKill", "failed", "failKill",
               "reprompt", "reply"}

\* Steps at which currentCancel is set.
RegisteredPcs == (HoldingPcs \ {"merge", "fold", "register"})
                    \cup {"compact", "compacting", "release", "park"}

Pcs == HoldingPcs \cup RegisteredPcs
          \cup {"drain", "wait", "exiting", "stopped"}

Replies == {"none", "text", "empty", "sentinel"}

\* "unsent" is a reply handed to a backend with a cancelled context: some
\* backends send it, some discard it.  "muted" is a suppressed reply.
Fates == {"none", "refused", "replied", "unsent", "muted", "failed", "dropped"}

NoRow == [id |-> 0, src |-> "compact", body |-> <<>>]

NoOp == [row |-> NoRow, since |-> 0, cancelled |-> FALSE, aborted |-> FALSE,
         retried |-> FALSE, fresh |-> FALSE, proc |-> 0, reply |-> "none",
         caller |-> NoCaller]

Ops == [row : Rows, since : Nat, cancelled : BOOLEAN, aborted : BOOLEAN,
        retried : BOOLEAN, fresh : BOOLEAN, proc : Nat, reply : Replies,
        caller : Compacts \cup {NoCaller}]

WorkerTypeOK ==
    /\ wpc \in Pcs
    /\ op \in Ops
    /\ op.proc <= Len(procs)
    /\ extra \subseteq Rows
    /\ current \in {-1, 0, 1, 2}
    /\ wake \in BOOLEAN
    /\ slot \in Compacts \cup {NoCaller}
    /\ answered \subseteq Compacts
    /\ fate \in [Messages -> Fates]
    /\ roomKnown \in BOOLEAN
    /\ shutdown \in BOOLEAN

\* NewWorker; Run goes to drainOnce first.  The room is known from the start
\* if a .room_id file was left by an earlier run.
WorkerInit ==
    /\ wpc = "drain"
    /\ op = NoOp
    /\ extra = {}
    /\ current = -1
    /\ wake = FALSE
    /\ slot = NoCaller
    /\ answered = {}
    /\ fate = [m \in Messages |-> "none"]
    /\ roomKnown \in BOOLEAN
    /\ shutdown = FALSE
-----------------------------------------------------------------------------
(* Operations other goroutines call.                                       *)

\* Mutants: the item context ignores its own cancel function; it is not
\* derived from the root context.
CtxDoneRootOnly == shutdown
CtxDoneItemOnly == op.cancelled

\* The item context is a child of the root context.
CtxDone == op.cancelled \/ shutdown

Cancel == op' = [op EXCEPT !.cancelled = TRUE]

\* Mutant: only a heartbeat can be preempted.
PreemptsHeartbeats(priority) == current = PriorityOf["heartbeat"] /\ priority < current

\* Notify's critical section; the send on w.wake follows it.
Preempts(priority) == current # -1 /\ priority < current

NotifyLock(priority) ==
    /\ IF Preempts(priority) THEN Cancel ELSE UNCHANGED op
    /\ UNCHANGED <<wpc, extra, current, wake, slot, answered, fate, roomKnown, shutdown>>

\* Mutant: a busy worker is not sent a token.
NotifyWakeIdle ==
    /\ wake' = (wake \/ current = -1)
    /\ UNCHANGED <<wpc, op, extra, current, slot, answered, fate, roomKnown, shutdown>>

NotifyWake ==
    /\ wake' = TRUE
    /\ UNCHANGED <<wpc, op, extra, current, slot, answered, fate, roomKnown, shutdown>>

\* An inbox statement fails: at any time with a bounded budget, and for free
\* once the context it runs under is cancelled.
DbFault == Spend("db")
CtxDbFault == (shutdown /\ UNCHANGED budget) \/ DbFault

\* What the operation's messages came to.
Settle(outcome) ==
    fate' = [m \in Messages |-> IF m \in Carries(op.row) THEN outcome ELSE fate[m]]

\* A step that only moves the worker on (op is given by the action).
Moves(to) ==
    /\ wpc' = to
    /\ UNCHANGED <<extra, current, wake, slot, answered, roomKnown, shutdown>>
-----------------------------------------------------------------------------
(* Run and drainOnce.                                                      *)

\* drainOnce returns: the context is done or the inbox is empty.
DrainEnds ==
    /\ wpc = "drain"
    /\ shutdown \/ inbox = {}
    /\ Moves("wait")
    /\ UNCHANGED <<op, fate, inboxVars, slotVars, idle, budget>>

\* Dequeue fails: drainOnce logs it and returns.
DequeueFails ==
    /\ wpc = "drain" /\ ~shutdown
    /\ DbFault
    /\ Moves("wait")
    /\ UNCHANGED <<op, fate, inboxVars, slotVars, idle>>

Dequeue(r) ==
    /\ wpc = "drain" /\ ~shutdown
    /\ Remove(r)
    /\ op' = [NoOp EXCEPT !.row = r]
    /\ Moves(IF r.src = "user" THEN "merge" ELSE "register")
    /\ UNCHANGED <<fate, slotVars, idle, budget>>

Woken ==
    /\ wpc = "wait" /\ wake
    /\ wake' = FALSE
    /\ wpc' = "drain"
    /\ UNCHANGED <<op, extra, current, slot, answered, fate, roomKnown, shutdown,
                   inboxVars, slotVars, idle, budget>>

\* <-ctx.Done() in Run: stop pi and return.
Exit ==
    /\ wpc = "wait" /\ shutdown
    /\ StopPi(Loop)
    /\ Moves("exiting")
    /\ UNCHANGED <<op, fate, inboxVars, idle, budget>>

Exited ==
    /\ wpc = "exiting" /\ Killed(Loop)
    /\ Moves("stopped")
    /\ UNCHANGED <<op, fate, inboxVars, slotVars, idle, budget>>
-----------------------------------------------------------------------------
(* mergeUserItems.                                                         *)

MergeUserItems ==
    /\ wpc = "merge"
    /\ extra' = UserRows
    /\ RemoveUserRows
    /\ wpc' = "fold"
    /\ UNCHANGED <<op, current, wake, slot, answered, fate, roomKnown, shutdown,
                   slotVars, idle, budget>>

MergeFails ==
    /\ wpc = "merge"
    /\ CtxDbFault
    /\ Moves("register")
    /\ UNCHANGED <<op, fate, inboxVars, slotVars, idle>>

\* Mutant: the merged text goes in front.
FoldInFront(r) ==
    /\ wpc = "fold" /\ LowestId(extra, r)
    /\ op' = [op EXCEPT !.row.body = r.body \o @]
    /\ extra' = extra \ {r}
    /\ UNCHANGED <<wpc, current, wake, slot, answered, fate, roomKnown, shutdown,
                   inboxVars, slotVars, idle, budget>>

\* One iteration of the loop that appends the rows in id order.
Fold(r) ==
    /\ wpc = "fold" /\ LowestId(extra, r)
    /\ op' = [op EXCEPT !.row.body = @ \o r.body]
    /\ extra' = extra \ {r}
    /\ UNCHANGED <<wpc, current, wake, slot, answered, fate, roomKnown, shutdown,
                   inboxVars, slotVars, idle, budget>>

Folded ==
    /\ wpc = "fold" /\ extra = {}
    /\ Moves("register")
    /\ UNCHANGED <<op, fate, inboxVars, slotVars, idle, budget>>
-----------------------------------------------------------------------------
(* processItem and processPrompt up to the call of pi.                     *)

\* The critical section that makes the operation cancellable.
Register ==
    /\ wpc = "register"
    /\ current' = Priority(op.row)
    /\ op' = [op EXCEPT !.since = nextId]
    /\ wpc' = IF op.row.src = "compact" THEN "compact" ELSE "begin"
    /\ UNCHANGED <<extra, wake, slot, answered, fate, roomKnown, shutdown,
                   inboxVars, slotVars, idle, budget>>

\* Mutant: drainOnce handles one row per wake-up.
ReleaseOnce ==
    /\ wpc \in {"release", "park"}
    /\ current' = -1
    /\ op' = NoOp
    /\ wpc' = "wait"
    /\ UNCHANGED <<extra, wake, slot, answered, fate, roomKnown, shutdown,
                   inboxVars, slotVars, idle, budget>>

\* The deferred reset, and what processItem returns to drainOnce: "release"
\* goes on with the next row, "park" leaves drainOnce.
Release ==
    /\ wpc \in {"release", "park"}
    /\ current' = -1
    /\ op' = NoOp
    /\ wpc' = IF wpc = "park" THEN "wait" ELSE "drain"
    /\ UNCHANGED <<extra, wake, slot, answered, fate, roomKnown, shutdown,
                   inboxVars, slotVars, idle, budget>>

\* buildPrompt finds no active item in HEARTBEAT.md.
SkipHeartbeat ==
    /\ wpc = "begin" /\ op.row.src = "heartbeat"
    /\ Moves("release")
    /\ UNCHANGED <<op, fate, inboxVars, slotVars, idle, budget>>

\* Requeue, or its failure, which loses the messages of the row.
RequeueRow ==
    \/ /\ Insert(op.row.src, op.row.body)
       /\ UNCHANGED <<fate, budget>>
    \/ /\ DbFault
       /\ Settle("dropped")
       /\ UNCHANGED inboxVars

\* handleNoRoomID.
NoRoom ==
    /\ wpc = "begin" /\ ~roomKnown
    /\ IF op.row.src = "trigger"
       THEN RequeueRow /\ Moves("park")
       ELSE /\ Settle("dropped")
            /\ Moves("release")
            /\ UNCHANGED <<inboxVars, budget>>
    /\ UNCHANGED <<op, slotVars, idle>>

BeginPrompt ==
    /\ wpc = "begin" /\ roomKnown
    /\ Moves("ensure")
    /\ UNCHANGED <<op, fate, inboxVars, slotVars, idle, budget>>
-----------------------------------------------------------------------------
(* ensurePi.                                                               *)

\* Its first critical section: use the process in the slot or take the flag.
EnsurePi ==
    /\ wpc = "ensure"
    /\ IF IsActive
       THEN /\ op' = [op EXCEPT !.proc = pi]
            /\ Moves("send")
            /\ UNCHANGED freshStart
       ELSE /\ op' = [op EXCEPT !.fresh = freshStart, !.proc = 0]
            /\ freshStart' = FALSE
            /\ Moves("spawn")
    /\ UNCHANGED <<fate, inboxVars, pi, procs, session, resets, victim, idle, budget>>

\* Mutant: the failed start returns a handle all the same.
SpawnFailsWithHandle ==
    /\ wpc = "spawn"
    /\ (CtxDone /\ UNCHANGED budget) \/ (~CtxDone /\ Spend("start"))
    /\ op' = [op EXCEPT !.proc = Len(procs) + 1]
    /\ Moves("failed")
    /\ UNCHANGED <<fate, inboxVars, slotVars, idle>>

\* The context is done, or StartPi fails.
SpawnFails ==
    /\ wpc = "spawn"
    /\ (CtxDone /\ UNCHANGED budget) \/ (~CtxDone /\ Spend("start"))
    /\ Moves("failed")
    /\ UNCHANGED <<op, fate, inboxVars, slotVars, idle>>

Spawn ==
    /\ wpc = "spawn" /\ ~CtxDone
    /\ StartPi(op.fresh)
    /\ op' = [op EXCEPT !.proc = Len(procs) + 1]
    /\ Moves("store")
    /\ UNCHANGED <<fate, inboxVars, idle, budget>>

\* Mutant: a !restart during the start keeps the process out of the slot.
StoreUnlessRestarted ==
    /\ wpc = "store"
    /\ pi' = IF freshStart THEN pi ELSE op.proc
    /\ Moves("send")
    /\ UNCHANGED <<op, fate, inboxVars, freshStart, procs, session, resets, victim,
                   idle, budget>>

Store ==
    /\ wpc = "store"
    /\ pi' = op.proc
    /\ Moves("send")
    /\ UNCHANGED <<op, fate, inboxVars, freshStart, procs, session, resets, victim,
                   idle, budget>>
-----------------------------------------------------------------------------
(* sendAndWait, sendWithRetry and retryEmptyResponse.                      *)

\* After an error: one retry, unless the context is done.
AfterSendError == IF CtxDone \/ op.retried THEN "failed" ELSE "retry"

Send ==
    /\ wpc = "send" /\ Alive(op.proc)
    /\ op' = [op EXCEPT !.aborted = FALSE]
    /\ Moves("await")
    /\ UNCHANGED <<fate, inboxVars, slotVars, idle, budget>>

\* The process is dead, or its stdin was closed by Kill.
SendFails ==
    /\ wpc = "send" /\ procs[op.proc].state # "alive"
    /\ Moves(AfterSendError)
    /\ UNCHANGED <<op, fate, inboxVars, slotVars, idle, budget>>

\* drainEvents gets an event that does not end the turn and finds the context
\* done: it sends the abort command once.
SendAbort ==
    /\ wpc \in {"await", "reprompt", "compacting"} /\ Alive(op.proc)
    /\ CtxDone /\ ~op.aborted
    /\ op' = [op EXCEPT !.aborted = TRUE]
    /\ Moves(wpc)
    /\ UNCHANGED <<fate, inboxVars, slotVars, idle, budget>>

\* retryEmptyResponse prompts once more.
AsksAgain(reply) == op.row.src = "user" /\ reply = "empty"

\* The turn ends with agent_end; lastUse is updated whatever the source.
Answer(reply) ==
    /\ wpc = "await" /\ Alive(op.proc)
    /\ reply = "sentinel" => op.row.src = "heartbeat"
    /\ op' = [op EXCEPT !.reply = reply, !.aborted = @ /\ ~AsksAgain(reply)]
    /\ idle' = FALSE
    /\ Moves(IF AsksAgain(reply) THEN "reprompt" ELSE "reply")
    /\ UNCHANGED <<fate, inboxVars, slotVars, budget>>

\* handleSideEffects: pi, alive, rejects the prompt.
Reject ==
    /\ wpc = "await" /\ Alive(op.proc)
    /\ Spend("reject")
    /\ Moves(AfterSendError)
    /\ UNCHANGED <<op, fate, inboxVars, slotVars, idle>>

\* nextEvent sees the end of the process.
AwaitFails ==
    /\ wpc = "await" /\ ~Alive(op.proc)
    /\ Moves(AfterSendError)
    /\ UNCHANGED <<op, fate, inboxVars, slotVars, idle, budget>>

\* sendWithRetry stops whatever process is in the slot and starts again.
Retry ==
    /\ wpc = "retry"
    /\ StopPi(Loop)
    /\ Moves("retryKill")
    /\ UNCHANGED <<op, fate, inboxVars, idle, budget>>

Retried ==
    /\ wpc = "retryKill" /\ Killed(Loop)
    /\ op' = [op EXCEPT !.retried = TRUE]
    /\ Moves("ensure")
    /\ UNCHANGED <<fate, inboxVars, slotVars, idle, budget>>

\* Whether the second prompt is answered or fails, the user gets some text.
RepromptEnds ==
    /\ wpc = "reprompt"
    /\ op' = [op EXCEPT !.reply = "text"]
    /\ Moves("reply")
    /\ UNCHANGED <<fate, inboxVars, slotVars, idle, budget>>
-----------------------------------------------------------------------------
(* The end of processPrompt.                                               *)

\* Mutant: nothing is requeued.
DropPreempted ==
    /\ wpc = "failed" /\ CtxDone
    /\ Moves("park")
    /\ UNCHANGED <<op, fate, inboxVars, budget, slotVars, idle>>

\* requeuePreempted: a heartbeat is dropped, anything else goes back.
RequeuePreempted ==
    /\ wpc = "failed" /\ CtxDone
    /\ IF op.row.src = "heartbeat"
       THEN UNCHANGED <<fate, inboxVars, budget>>
       ELSE RequeueRow
    /\ Moves("park")
    /\ UNCHANGED <<op, slotVars, idle>>

\* A terminal failure: only the sender of a user message is told.
Failure == IF op.row.src = "user" THEN "failed" ELSE "dropped"

FailWithoutPi ==
    /\ wpc = "failed" /\ ~CtxDone /\ op.proc = 0
    /\ Settle(Failure)
    /\ Moves("release")
    /\ UNCHANGED <<op, inboxVars, slotVars, idle, budget>>

FailAndKill ==
    /\ wpc = "failed" /\ ~CtxDone /\ op.proc # 0
    /\ StopPi(Loop)
    /\ Moves("failKill")
    /\ UNCHANGED <<op, fate, inboxVars, idle, budget>>

FailKilled ==
    /\ wpc = "failKill" /\ Killed(Loop)
    /\ Settle(Failure)
    /\ Moves("release")
    /\ UNCHANGED <<op, inboxVars, slotVars, idle, budget>>

ShouldSuppressReply == op.reply \in {"sentinel", "empty"}

\* Mutant: a reply under a cancelled context is sent and the row requeued too.
DeliverAndRequeue ==
    /\ wpc = "reply"
    /\ Settle(IF ShouldSuppressReply THEN "muted" ELSE "replied")
    /\ IF CtxDone THEN Insert(op.row.src, op.row.body) ELSE UNCHANGED inboxVars
    /\ Moves("release")
    /\ UNCHANGED <<op, slotVars, idle, budget>>

\* sendReplyWithFiles under the item context.
Deliver ==
    /\ wpc = "reply"
    /\ \/ ShouldSuppressReply /\ Settle("muted")
       \/ ~ShouldSuppressReply /\ Settle("replied")
       \/ ~ShouldSuppressReply /\ CtxDone /\ Settle("unsent")
    /\ Moves("release")
    /\ UNCHANGED <<op, inboxVars, slotVars, idle, budget>>
-----------------------------------------------------------------------------
(* processCompact.                                                         *)

\* Mutants: the channel stays in compactResult; a caller is not answered when
\* there is no process.
TakeCompactKeepingSlot ==
    /\ wpc = "compact"
    /\ wpc' = IF slot # NoCaller /\ IsActive THEN "compacting" ELSE "release"
    /\ answered' = IF slot # NoCaller /\ ~IsActive THEN answered \cup {slot} ELSE answered
    /\ op' = [op EXCEPT !.caller = slot, !.proc = pi]
    /\ UNCHANGED <<slot, extra, current, wake, fate, roomKnown, shutdown,
                   inboxVars, slotVars, idle, budget>>

TakeCompactSilently ==
    /\ wpc = "compact"
    /\ slot' = NoCaller
    /\ wpc' = IF slot # NoCaller /\ IsActive THEN "compacting" ELSE "release"
    /\ op' = [op EXCEPT !.caller = slot, !.proc = pi]
    /\ UNCHANGED <<answered, extra, current, wake, fate, roomKnown, shutdown,
                   inboxVars, slotVars, idle, budget>>

\* The critical section takes the channel and the process; without a process
\* the caller is answered at once.
TakeCompact ==
    /\ wpc = "compact"
    /\ slot' = NoCaller
    /\ wpc' = IF slot # NoCaller /\ IsActive THEN "compacting" ELSE "release"
    /\ answered' = IF slot # NoCaller /\ ~IsActive THEN answered \cup {slot} ELSE answered
    /\ op' = [op EXCEPT !.caller = slot, !.proc = pi]
    /\ UNCHANGED <<extra, current, wake, fate, roomKnown, shutdown,
                   inboxVars, slotVars, idle, budget>>

\* pi.Compact returns a result or an error.
CompactEnds ==
    /\ wpc = "compacting"
    /\ answered' = answered \cup {op.caller}
    /\ wpc' = "release"
    /\ UNCHANGED <<op, extra, current, wake, slot, fate, roomKnown, shutdown,
                   inboxVars, slotVars, idle, budget>>
-----------------------------------------------------------------------------
\* What ends a call to pi.
PiStep ==
    \/ \E reply \in Replies \ {"none"} : Answer(reply)
    \/ RepromptEnds
    \/ CompactEnds

\* What the worker does on its own or because a process has exited.
LoopStep ==
    \/ DrainEnds \/ DequeueFails \/ (\E r \in inbox : Dequeue(r))
    \/ Woken \/ Exit \/ Exited
    \/ MergeUserItems \/ MergeFails \/ (\E r \in extra : Fold(r)) \/ Folded
    \/ Register \/ Release \/ SkipHeartbeat \/ NoRoom \/ BeginPrompt
    \/ EnsurePi \/ SpawnFails \/ Spawn \/ Store
    \/ Send \/ SendFails \/ AwaitFails \/ Retry \/ Retried
    \/ RequeuePreempted \/ FailWithoutPi \/ FailAndKill \/ FailKilled \/ Deliver
    \/ TakeCompact

WorkerStep == LoopStep \/ PiStep \/ SendAbort \/ Reject
=============================================================================
