--------------------------- MODULE OpencrowProofs ---------------------------
(***************************************************************************)
(* Type correctness of the bot for every value of its constants; on top of *)
(* it what holds of the slot of pi, of the registration of an operation,   *)
(* of the wake token, and of the idle reaper.  The lemmas on types follow the modules: what    *)
(* the statements on the inbox table and the operations on the slot do to  *)
(* the types of their variables, then the steps of the worker, then those  *)
(* of the other goroutines.                                                *)
(***************************************************************************)
EXTENDS Opencrow, SequenceTheorems, TLAPS
-----------------------------------------------------------------------------
(* Types.                                                                  *)

\* A worker that waits for the outcome of compact has a caller to hand it to:
\* all that TypeOK lacks to be inductive.
TypeInv ==
    /\ TypeOK
    /\ wpc = "compacting" => op.caller \in Compacts
-----------------------------------------------------------------------------
(* The inbox.                                                              *)

LEMMA InsertType ==
    ASSUME InboxTypeOK, NEW src \in Sources, NEW body \in Seq(Messages),
           Insert(src, body)
    PROVE  InboxTypeOK'
BY DEF InboxTypeOK, Insert, Rows

LEMMA RemoveType ==
    ASSUME InboxTypeOK, NEW r \in inbox, Remove(r)
    PROVE  InboxTypeOK' /\ r \in Rows
BY DEF InboxTypeOK, Remove, Rows

LEMMA RemoveUserRowsType ==
    ASSUME InboxTypeOK, RemoveUserRows
    PROVE  InboxTypeOK' /\ UserRows \subseteq Rows
BY DEF InboxTypeOK, RemoveUserRows, UserRows, Rows

LEMMA InboxStutterType ==
    ASSUME InboxTypeOK, UNCHANGED inboxVars
    PROVE  InboxTypeOK'
BY DEF InboxTypeOK, inboxVars
-----------------------------------------------------------------------------
(* The slot.  A process, once started, keeps its index, so that a handle   *)
(* stays valid.                                                            *)

SpentOrNot == UNCHANGED budget \/ \E kind \in Faults : Spend(kind)

LEMMA BudgetType ==
    ASSUME PiSlotTypeOK, SpentOrNot
    PROVE  budget' \in [Faults -> Nat]
BY DEF PiSlotTypeOK, SpentOrNot, Spend

LEMMA SlotStutterType ==
    ASSUME PiSlotTypeOK, UNCHANGED slotVars, idle' \in BOOLEAN, SpentOrNot
    PROVE  PiSlotTypeOK' /\ Len(procs') = Len(procs)
<1>1. budget' \in [Faults -> Nat]
  BY BudgetType
<1> QED
  BY <1>1 DEF PiSlotTypeOK, slotVars

\* A new state of a process leaves it a process.
LEMMA StateType ==
    ASSUME PiSlotTypeOK, NEW p \in DOMAIN procs, NEW s \in PiStates,
           procs' = [procs EXCEPT ![p].state = s]
    PROVE  /\ procs' \in Seq([state : PiStates, session : SUBSET Restarts])
           /\ Len(procs') = Len(procs)
<1> DEFINE Process == [state : PiStates, session : SUBSET Restarts]
           q == [procs[p] EXCEPT !.state = s]
<1>1. procs \in Seq(Process) /\ p \in 1 .. Len(procs)
  BY LenProperties DEF PiSlotTypeOK
<1>2. procs[p] \in Process
  BY <1>1, ElementOfSeq
<1>3. q \in Process
  BY <1>2
<1>4. procs' = [procs EXCEPT ![p] = q]
  OBVIOUS
<1> HIDE DEF Process, q
<1>5. [procs EXCEPT ![p] = q] \in Seq(Process) /\ Len([procs EXCEPT ![p] = q]) = Len(procs)
  BY <1>1, <1>3, ExceptSeq
<1> QED
  BY <1>4, <1>5 DEF Process

LEMMA StopPiType ==
    ASSUME PiSlotTypeOK, NEW t \in Stoppers, StopPi(t), UNCHANGED <<idle, budget>>
    PROVE  PiSlotTypeOK' /\ Len(procs') = Len(procs)
<1>1. /\ procs' \in Seq([state : PiStates, session : SUBSET Restarts])
      /\ Len(procs') = Len(procs)
  <2>1. CASE Alive(pi)
    <3>1. pi \in DOMAIN procs
      BY <2>1, LenProperties DEF PiSlotTypeOK, Alive
    <3> QED
      BY <2>1, <3>1, StateType DEF StopPi, PiStates
  <2>2. CASE ~Alive(pi)
    BY <2>2 DEF StopPi, PiSlotTypeOK
  <2> QED
    BY <2>1, <2>2
<1>2. Len(procs) \in Nat
  BY LenProperties DEF PiSlotTypeOK
<1> QED
  BY <1>1, <1>2 DEF PiSlotTypeOK, StopPi

LEMMA ExitPiType ==
    ASSUME PiSlotTypeOK, NEW p \in DOMAIN procs, ExitPi(p), UNCHANGED idle
    PROVE  PiSlotTypeOK' /\ Len(procs') = Len(procs)
<1>1. /\ procs' \in Seq([state : PiStates, session : SUBSET Restarts])
      /\ Len(procs') = Len(procs)
  BY StateType DEF ExitPi, PiStates
<1>2. budget' \in [Faults -> Nat]
  BY BudgetType DEF ExitPi, SpentOrNot, Faults
<1> QED
  BY <1>1, <1>2 DEF PiSlotTypeOK, ExitPi

LEMMA StartPiType ==
    ASSUME PiSlotTypeOK, NEW fresh \in BOOLEAN, StartPi(fresh), UNCHANGED <<idle, budget>>
    PROVE  PiSlotTypeOK' /\ Len(procs') = Len(procs) + 1
<1> DEFINE Process == [state : PiStates, session : SUBSET Restarts]
           new == [state |-> "alive", session |-> session']
<1>1. procs \in Seq(Process) /\ new \in Process /\ Len(procs) \in Nat
  BY LenProperties DEF PiSlotTypeOK, StartPi, PiStates
<1>2. Append(procs, new) \in Seq(Process) /\ Len(Append(procs, new)) = Len(procs) + 1
  <2> HIDE DEF Process, new
  <2> QED
    BY <1>1, AppendProperties
<1> QED
  BY <1>1, <1>2 DEF PiSlotTypeOK, StartPi

LEMMA SetFreshStartType ==
    ASSUME PiSlotTypeOK, NEW h \in Restarts, SetFreshStart(h), UNCHANGED <<idle, budget>>
    PROVE  PiSlotTypeOK' /\ Len(procs') = Len(procs)
BY DEF PiSlotTypeOK, SetFreshStart
-----------------------------------------------------------------------------
(* The worker.                                                             *)

LEMMA NoOpType == NoOp \in Ops /\ NoOp.proc = 0
<1>1. NoRow \in Rows
  BY EmptySeq DEF NoRow, Rows, Sources
<1> QED
  BY <1>1 DEF NoOp, Ops, Replies

\* Steps that leave the table and the slot alone, up to a failing statement
\* and the clock of the reaper.
LEMMA WorkerAloneType ==
    ASSUME TypeOK, UNCHANGED <<inboxVars, slotVars>>, idle' \in BOOLEAN, SpentOrNot
    PROVE  InboxTypeOK' /\ PiSlotTypeOK' /\ Len(procs') = Len(procs)
BY InboxStutterType, SlotStutterType DEF TypeOK

LEMMA LoopType ==
    ASSUME TypeInv, Forget, UNCHANGED <<hpc, order>>,
           \/ DrainEnds \/ DequeueFails \/ (\E r \in inbox : Dequeue(r))
           \/ Woken \/ Exit \/ Exited
    PROVE  TypeInv'
<1> USE DEF TypeInv, TypeOK, WorkerTypeOK, Moves, Forget, Pcs, HoldingPcs, RegisteredPcs
<1>1. CASE DrainEnds
  BY <1>1, WorkerAloneType DEF DrainEnds, SpentOrNot, PiSlotTypeOK
<1>2. CASE DequeueFails
  <2>1. SpentOrNot
    BY <1>2 DEF DequeueFails, DbFault, SpentOrNot, Faults
  <2>2. InboxTypeOK' /\ PiSlotTypeOK' /\ Len(procs') = Len(procs)
    BY <1>2, <2>1, WorkerAloneType DEF DequeueFails, PiSlotTypeOK
  <2> QED
    BY <1>2, <2>2 DEF DequeueFails
<1>3. CASE \E r \in inbox : Dequeue(r)
  <2>1. PICK r \in inbox : Dequeue(r)
    BY <1>3
  <2>2. InboxTypeOK' /\ r \in Rows
    BY <2>1, RemoveType DEF Dequeue
  <2>3. PiSlotTypeOK' /\ Len(procs') = Len(procs)
    BY <2>1, SlotStutterType DEF Dequeue, SpentOrNot, PiSlotTypeOK
  <2>4. op' \in Ops /\ op'.proc = 0
    BY <2>1, <2>2, NoOpType DEF Dequeue, Ops
  <2>5. Len(procs) \in Nat
    BY LenProperties DEF PiSlotTypeOK
  <2> QED
    BY <2>1, <2>2, <2>3, <2>4, <2>5 DEF Dequeue
<1>4. CASE Woken
  BY <1>4, WorkerAloneType DEF Woken, SpentOrNot, PiSlotTypeOK
<1>5. CASE Exit
  <2>1. PiSlotTypeOK' /\ Len(procs') = Len(procs)
    BY <1>5, StopPiType DEF Exit, Stoppers
  <2>2. InboxTypeOK'
    BY <1>5, InboxStutterType DEF Exit
  <2> QED
    BY <1>5, <2>1, <2>2 DEF Exit
<1>6. CASE Exited
  BY <1>6, WorkerAloneType DEF Exited, SpentOrNot, PiSlotTypeOK
<1> QED
  BY <1>1, <1>2, <1>3, <1>4, <1>5, <1>6

LEMMA MergeType ==
    ASSUME TypeInv, Forget, UNCHANGED <<hpc, order>>,
           \/ MergeUserItems \/ MergeFails \/ (\E r \in extra : Fold(r)) \/ Folded
    PROVE  TypeInv'
<1> USE DEF TypeInv, TypeOK, WorkerTypeOK, Moves, Forget, Pcs, HoldingPcs, RegisteredPcs
<1>1. CASE MergeUserItems
  <2>1. InboxTypeOK' /\ extra' \subseteq Rows
    BY <1>1, RemoveUserRowsType DEF MergeUserItems
  <2>2. PiSlotTypeOK' /\ Len(procs') = Len(procs)
    BY <1>1, SlotStutterType DEF MergeUserItems, SpentOrNot, PiSlotTypeOK
  <2> QED
    BY <1>1, <2>1, <2>2 DEF MergeUserItems
<1>2. CASE MergeFails
  <2>1. SpentOrNot
    BY <1>2 DEF MergeFails, CtxDbFault, DbFault, SpentOrNot, Faults
  <2>2. InboxTypeOK' /\ PiSlotTypeOK' /\ Len(procs') = Len(procs)
    BY <1>2, <2>1, WorkerAloneType DEF MergeFails, PiSlotTypeOK
  <2> QED
    BY <1>2, <2>2 DEF MergeFails
<1>3. CASE \E r \in extra : Fold(r)
  <2>1. PICK r \in extra : Fold(r)
    BY <1>3
  <2>2. InboxTypeOK' /\ PiSlotTypeOK' /\ Len(procs') = Len(procs)
    BY <2>1, WorkerAloneType DEF Fold, SpentOrNot, PiSlotTypeOK
  <2>3. op.row.body \o r.body \in Seq(Messages)
    BY ConcatProperties DEF Ops, Rows
  <2>4. op' \in Ops /\ op'.proc = op.proc
    BY <2>1, <2>3 DEF Fold, Ops, Rows
  <2> QED
    BY <2>1, <2>2, <2>4 DEF Fold
<1>4. CASE Folded
  BY <1>4, WorkerAloneType DEF Folded, SpentOrNot, PiSlotTypeOK
<1> QED
  BY <1>1, <1>2, <1>3, <1>4

\* Settling a row changes the fate of its messages to an outcome.
LEMMA SettleType ==
    ASSUME TypeOK, NEW outcome \in Fates, Settle(outcome)
    PROVE  fate' \in [Messages -> Fates]
BY DEF TypeOK, WorkerTypeOK, Settle

LEMMA RequeueRowType ==
    ASSUME TypeOK, RequeueRow
    PROVE  InboxTypeOK' /\ fate' \in [Messages -> Fates] /\ SpentOrNot
<1>1. op.row.src \in Sources /\ op.row.body \in Seq(Messages)
  BY DEF TypeOK, WorkerTypeOK, Ops, Rows
<1>2. CASE Insert(op.row.src, op.row.body) /\ UNCHANGED <<fate, budget>>
  BY <1>1, <1>2, InsertType DEF TypeOK, WorkerTypeOK, SpentOrNot
<1>3. CASE DbFault /\ Settle("dropped") /\ UNCHANGED inboxVars
  BY <1>3, SettleType, InboxStutterType DEF DbFault, SpentOrNot, Faults, Fates, TypeOK
<1> QED
  BY <1>2, <1>3 DEF RequeueRow

LEMMA PreparationType ==
    ASSUME TypeInv, Forget, UNCHANGED <<hpc, order>>,
           Register \/ Release \/ SkipHeartbeat \/ NoRoom \/ BeginPrompt
    PROVE  TypeInv'
<1> USE DEF TypeInv, TypeOK, WorkerTypeOK, Moves, Forget, Pcs, HoldingPcs, RegisteredPcs
<1>1. CASE Register
  <2>1. InboxTypeOK' /\ PiSlotTypeOK' /\ Len(procs') = Len(procs)
    BY <1>1, WorkerAloneType DEF Register, SpentOrNot, PiSlotTypeOK
  <2>2. current' \in {0, 1, 2}
    BY <1>1 DEF Register, Priority, PriorityOf, Ops, Rows, Sources
  <2>3. op' \in Ops /\ op'.proc = op.proc
    BY <1>1 DEF Register, Ops, InboxTypeOK
  <2> QED
    BY <1>1, <2>1, <2>2, <2>3 DEF Register
<1>2. CASE Release
  <2>1. InboxTypeOK' /\ PiSlotTypeOK' /\ Len(procs') = Len(procs)
    BY <1>2, WorkerAloneType DEF Release, SpentOrNot, PiSlotTypeOK
  <2>2. Len(procs) \in Nat
    BY LenProperties DEF PiSlotTypeOK
  <2> QED
    BY <1>2, <2>1, <2>2, NoOpType DEF Release
<1>3. CASE SkipHeartbeat
  BY <1>3, WorkerAloneType DEF SkipHeartbeat, SpentOrNot, PiSlotTypeOK
<1>4. CASE NoRoom
  <2>1. InboxTypeOK' /\ fate' \in [Messages -> Fates] /\ SpentOrNot
    <3>1. CASE op.row.src = "trigger"
      BY <1>4, <3>1, RequeueRowType DEF NoRoom
    <3>2. CASE op.row.src # "trigger"
      BY <1>4, <3>2, SettleType, InboxStutterType DEF NoRoom, SpentOrNot, Fates
    <3> QED
      BY <3>1, <3>2
  <2>2. PiSlotTypeOK' /\ Len(procs') = Len(procs)
    BY <1>4, <2>1, SlotStutterType DEF NoRoom, PiSlotTypeOK
  <2> QED
    BY <1>4, <2>1, <2>2 DEF NoRoom
<1>5. CASE BeginPrompt
  BY <1>5, WorkerAloneType DEF BeginPrompt, SpentOrNot, PiSlotTypeOK
<1> QED
  BY <1>1, <1>2, <1>3, <1>4, <1>5

LEMMA FreshFlagType ==
    ASSUME op \in Ops, freshStart \in BOOLEAN,
           op' = [op EXCEPT !.fresh = freshStart, !.proc = 0]
    PROVE  op' \in Ops /\ op'.proc = 0
BY DEF Ops

LEMMA PromptType ==
    ASSUME TypeInv, Forget, UNCHANGED <<hpc, order>>,
           \/ EnsurePi \/ SpawnFails \/ Spawn \/ Store
           \/ Send \/ SendFails \/ AwaitFails \/ Reject \/ SendAbort
           \/ Retry \/ Retried
    PROVE  TypeInv'
<1> USE DEF TypeInv, TypeOK, WorkerTypeOK, Moves, Forget, Pcs, HoldingPcs, RegisteredPcs
<1>a. Len(procs) \in Nat
  BY LenProperties DEF PiSlotTypeOK
<1>1. CASE EnsurePi
  <2>1. PiSlotTypeOK' /\ Len(procs') = Len(procs)
    BY <1>1 DEF EnsurePi, PiSlotTypeOK
  <2>2. InboxTypeOK'
    BY <1>1, InboxStutterType DEF EnsurePi
  <2>3. pi \in Nat /\ pi <= Len(procs) /\ freshStart \in BOOLEAN
    BY <1>a DEF PiSlotTypeOK
  <2>4. op' \in Ops /\ op'.proc <= Len(procs)
    <3>1. CASE IsActive
      BY <1>1, <2>3, <3>1 DEF EnsurePi, Ops
    <3>2. CASE ~IsActive
      <4>1. op' = [op EXCEPT !.fresh = freshStart, !.proc = 0]
        BY <1>1, <3>2 DEF EnsurePi
      <4> QED
        BY <1>a, <2>3, <4>1, FreshFlagType
    <3> QED
      BY <3>1, <3>2
  <2> QED
    BY <1>1, <2>1, <2>2, <2>4 DEF EnsurePi
<1>2. CASE SpawnFails
  BY <1>2, WorkerAloneType DEF SpawnFails, SpentOrNot, Faults, PiSlotTypeOK
<1>3. CASE Spawn
  <2>1. PiSlotTypeOK' /\ Len(procs') = Len(procs) + 1
    BY <1>3, StartPiType DEF Spawn, Ops
  <2>2. InboxTypeOK'
    BY <1>3, InboxStutterType DEF Spawn
  <2>3. op' \in Ops /\ op'.proc = Len(procs) + 1
    BY <1>3, <1>a DEF Spawn, Ops
  <2> QED
    BY <1>3, <1>a, <2>1, <2>2, <2>3 DEF Spawn
<1>4. CASE Store
  <2>1. PiSlotTypeOK' /\ Len(procs') = Len(procs)
    BY <1>4, <1>a DEF Store, PiSlotTypeOK, Ops
  <2>2. InboxTypeOK'
    BY <1>4, InboxStutterType DEF Store
  <2> QED
    BY <1>4, <2>1, <2>2 DEF Store
<1>5. CASE Send
  <2>1. op' \in Ops /\ op'.proc = op.proc
    BY <1>5 DEF Send, Ops
  <2> QED
    BY <1>5, <2>1, WorkerAloneType DEF Send, SpentOrNot, PiSlotTypeOK
<1>6. CASE SendFails
  BY <1>6, WorkerAloneType DEF SendFails, AfterSendError, SpentOrNot, PiSlotTypeOK
<1>7. CASE AwaitFails
  BY <1>7, WorkerAloneType DEF AwaitFails, AfterSendError, SpentOrNot, PiSlotTypeOK
<1>8. CASE Reject
  BY <1>8, WorkerAloneType DEF Reject, AfterSendError, SpentOrNot, Faults, PiSlotTypeOK
<1>9. CASE SendAbort
  <2>1. op' \in Ops /\ op'.proc = op.proc /\ op'.caller = op.caller
    BY <1>9 DEF SendAbort, Ops
  <2> QED
    BY <1>9, <2>1, WorkerAloneType DEF SendAbort, SpentOrNot, PiSlotTypeOK
<1>10. CASE Retry
  <2>1. PiSlotTypeOK' /\ Len(procs') = Len(procs)
    BY <1>10, StopPiType DEF Retry, Stoppers
  <2> QED
    BY <1>10, <2>1, InboxStutterType DEF Retry
<1>11. CASE Retried
  <2>1. op' \in Ops /\ op'.proc = op.proc
    BY <1>11 DEF Retried, Ops
  <2> QED
    BY <1>11, <2>1, WorkerAloneType DEF Retried, SpentOrNot, PiSlotTypeOK
<1> QED
  BY <1>1, <1>2, <1>3, <1>4, <1>5, <1>6, <1>7, <1>8, <1>9, <1>10, <1>11

LEMMA AnswerType ==
    ASSUME TypeInv, Forget, UNCHANGED <<hpc, order>>,
           PiStep
    PROVE  TypeInv'
<1> USE DEF TypeInv, TypeOK, WorkerTypeOK, Moves, Forget, Pcs, HoldingPcs, RegisteredPcs
<1>1. ASSUME NEW reply \in Replies \ {"none"}, Answer(reply)
      PROVE  TypeInv'
  <2>1. op' \in Ops /\ op'.proc = op.proc
    BY <1>1 DEF Answer, Ops
  <2> QED
    BY <1>1, <2>1, WorkerAloneType DEF Answer, SpentOrNot
<1>2. CASE RepromptEnds
  <2>1. op' \in Ops /\ op'.proc = op.proc
    BY <1>2 DEF RepromptEnds, Ops, Replies
  <2> QED
    BY <1>2, <2>1, WorkerAloneType DEF RepromptEnds, SpentOrNot, PiSlotTypeOK
<1>3. CASE CompactEnds
  BY <1>3, WorkerAloneType DEF CompactEnds, SpentOrNot, PiSlotTypeOK
<1> QED
  BY <1>1, <1>2, <1>3 DEF PiStep

LEMMA OutcomeType ==
    ASSUME TypeInv, Forget, UNCHANGED <<hpc, order>>,
           \/ RequeuePreempted \/ FailWithoutPi \/ FailAndKill \/ FailKilled
           \/ Deliver \/ TakeCompact
    PROVE  TypeInv'
<1> USE DEF TypeInv, TypeOK, WorkerTypeOK, Moves, Forget, Pcs, HoldingPcs, RegisteredPcs
<1>1. CASE RequeuePreempted
  <2>1. InboxTypeOK' /\ fate' \in [Messages -> Fates] /\ SpentOrNot
    <3>1. CASE op.row.src = "heartbeat"
      BY <1>1, <3>1, InboxStutterType DEF RequeuePreempted, SpentOrNot
    <3>2. CASE op.row.src # "heartbeat"
      BY <1>1, <3>2, RequeueRowType DEF RequeuePreempted
    <3> QED
      BY <3>1, <3>2
  <2>2. PiSlotTypeOK' /\ Len(procs') = Len(procs)
    BY <1>1, <2>1, SlotStutterType DEF RequeuePreempted, PiSlotTypeOK
  <2> QED
    BY <1>1, <2>1, <2>2 DEF RequeuePreempted
<1>2. CASE FailWithoutPi
  <2>1. fate' \in [Messages -> Fates]
    BY <1>2, SettleType DEF FailWithoutPi, Failure, Fates
  <2> QED
    BY <1>2, <2>1, WorkerAloneType DEF FailWithoutPi, SpentOrNot, PiSlotTypeOK
<1>3. CASE FailAndKill
  <2>1. PiSlotTypeOK' /\ Len(procs') = Len(procs)
    BY <1>3, StopPiType DEF FailAndKill, Stoppers
  <2> QED
    BY <1>3, <2>1, InboxStutterType DEF FailAndKill
<1>4. CASE FailKilled
  <2>1. fate' \in [Messages -> Fates]
    BY <1>4, SettleType DEF FailKilled, Failure, Fates
  <2> QED
    BY <1>4, <2>1, WorkerAloneType DEF FailKilled, SpentOrNot, PiSlotTypeOK
<1>5. CASE Deliver
  <2>1. fate' \in [Messages -> Fates]
    BY <1>5, SettleType DEF Deliver, Fates
  <2> QED
    BY <1>5, <2>1, WorkerAloneType DEF Deliver, SpentOrNot, PiSlotTypeOK
<1>6. CASE TakeCompact
  <2>1. InboxTypeOK' /\ PiSlotTypeOK' /\ Len(procs') = Len(procs)
    BY <1>6, WorkerAloneType DEF TakeCompact, SpentOrNot, PiSlotTypeOK
  <2>2. pi \in Nat /\ pi <= Len(procs)
    BY LenProperties DEF PiSlotTypeOK
  <2>3. op' \in Ops /\ op'.proc <= Len(procs) /\ op'.caller = slot
    BY <1>6, <2>2 DEF TakeCompact, Ops
  <2> QED
    BY <1>6, <2>1, <2>3 DEF TakeCompact
<1> QED
  BY <1>1, <1>2, <1>3, <1>4, <1>5, <1>6

LEMMA WorkType ==
    ASSUME TypeInv, Work
    PROVE  TypeInv'
BY LoopType, MergeType, PreparationType, PromptType, AnswerType, OutcomeType
   DEF Work, WorkerStep, LoopStep
-----------------------------------------------------------------------------
(* The other goroutines.                                                   *)

\* Whatever a goroutine goes on to is one of its program counters.
LEMMA StepType ==
    ASSUME hpc \in [Threads -> HandlerPcs], NEW t \in Threads,
           NEW from, NEW to \in HandlerPcs, Step(t, from, to)
    PROVE  hpc' \in [Threads -> HandlerPcs]
BY DEF Step

\* Steps that leave the worker alone, but for what is said of it.
LEMMA WorkerStutterType ==
    ASSUME TypeInv, InboxTypeOK', PiSlotTypeOK', Len(procs') = Len(procs),
           UNCHANGED workerVars,
           hpc' \in [Threads -> HandlerPcs], holds' \subseteq Stops, order' \in Seq(Prompts)
    PROVE  TypeInv'
BY DEF TypeInv, TypeOK, WorkerTypeOK, workerVars

LEMMA CancelType ==
    ASSUME op \in Ops, Cancel
    PROVE  op' \in Ops /\ op'.proc = op.proc /\ op'.caller = op.caller
BY DEF Cancel, Ops

LEMMA NotifierType ==
    ASSUME TypeInv, NEW t \in Notifiers, Notify(t) \/ Wake(t)
    PROVE  TypeInv'
<1> USE DEF TypeInv, TypeOK, WorkerTypeOK
<1>a. t \in Threads
  BY DEF Notifiers, Threads, Commands
<1>b. InboxTypeOK' /\ PiSlotTypeOK' /\ Len(procs') = Len(procs)
  BY WorkerAloneType DEF Notify, Wake, SpentOrNot, PiSlotTypeOK
<1>1. CASE Notify(t)
  <2>1. hpc' \in [Threads -> HandlerPcs]
    BY <1>1, <1>a, StepType DEF Notify, HandlerPcs
  <2>2. op' \in Ops /\ op'.proc = op.proc /\ op'.caller = op.caller
    BY <1>1, CancelType DEF Notify, NotifyLock
  <2> QED
    BY <1>1, <1>b, <2>1, <2>2 DEF Notify, NotifyLock
<1>2. CASE Wake(t)
  <2>1. hpc' \in [Threads -> HandlerPcs]
    BY <1>2, <1>a, StepType DEF Wake, AfterNotify, HandlerPcs
  <2> QED
    BY <1>2, <1>b, <2>1 DEF Wake, NotifyWake
<1> QED
  BY <1>1, <1>2

LEMMA PromptHandlerType ==
    ASSUME TypeInv, NEW p \in Prompts, SetRoomID(p) \/ EnqueuePrompt(p) \/ RefusePrompt(p)
    PROVE  TypeInv'
<1> USE DEF TypeInv, TypeOK, WorkerTypeOK
<1>a. p \in Threads /\ p \in Messages
  BY DEF Threads, Commands, Messages
<1>b. hpc' \in [Threads -> HandlerPcs]
  BY <1>a, StepType DEF SetRoomID, EnqueuePrompt, RefusePrompt, Begin, HandlerPcs
<1>1. CASE SetRoomID(p)
  BY <1>1, <1>b, WorkerAloneType DEF SetRoomID, SpentOrNot, PiSlotTypeOK
<1>2. CASE EnqueuePrompt(p)
  <2>1. <<p>> \in Seq(Messages) /\ "user" \in Sources
    BY <1>a DEF Sources
  <2>2. InboxTypeOK'
    BY <1>2, <2>1, InsertType DEF EnqueuePrompt
  <2>3. order' \in Seq(Prompts)
    BY <1>2, AppendProperties DEF EnqueuePrompt
  <2>4. PiSlotTypeOK' /\ Len(procs') = Len(procs)
    BY <1>2, SlotStutterType DEF EnqueuePrompt, SpentOrNot, PiSlotTypeOK
  <2> QED
    BY <1>2, <1>b, <2>2, <2>3, <2>4, WorkerStutterType DEF EnqueuePrompt
<1>3. CASE RefusePrompt(p)
  <2>1. SpentOrNot
    BY <1>3 DEF RefusePrompt, CtxDbFault, DbFault, SpentOrNot, Faults
  <2>2. InboxTypeOK' /\ PiSlotTypeOK' /\ Len(procs') = Len(procs)
    BY <1>3, <2>1, WorkerAloneType DEF RefusePrompt, PiSlotTypeOK
  <2>3. fate' \in [Messages -> Fates]
    BY <1>3, <1>a DEF RefusePrompt, Fates
  <2> QED
    BY <1>3, <1>b, <2>2, <2>3 DEF RefusePrompt
<1> QED
  BY <1>1, <1>2, <1>3

LEMMA TriggerType ==
    ASSUME TypeInv,
           \/ \E t \in Triggers : EnqueueTrigger(t) \/ RefuseTrigger(t)
           \/ Tick
    PROVE  TypeInv'
<1> USE DEF TypeInv, TypeOK, WorkerTypeOK
<1>1. ASSUME NEW t \in Triggers, EnqueueTrigger(t)
      PROVE  TypeInv'
  <2>1. hpc' \in [Threads -> HandlerPcs]
    BY <1>1, StepType DEF EnqueueTrigger, Threads, HandlerPcs
  <2>2. <<t>> \in Seq(Messages) /\ "trigger" \in Sources
    BY DEF Sources, Messages
  <2>3. InboxTypeOK'
    BY <1>1, <2>2, InsertType DEF EnqueueTrigger
  <2>4. PiSlotTypeOK' /\ Len(procs') = Len(procs)
    BY <1>1, SlotStutterType DEF EnqueueTrigger, SpentOrNot, PiSlotTypeOK
  <2> QED
    BY <1>1, <2>1, <2>3, <2>4, WorkerStutterType DEF EnqueueTrigger
<1>2. ASSUME NEW t \in Triggers, RefuseTrigger(t)
      PROVE  TypeInv'
  <2>1. hpc' \in [Threads -> HandlerPcs]
    BY <1>2, StepType DEF RefuseTrigger, Threads, HandlerPcs
  <2>2. SpentOrNot
    BY <1>2 DEF RefuseTrigger, CtxDbFault, DbFault, SpentOrNot, Faults
  <2>3. InboxTypeOK' /\ PiSlotTypeOK' /\ Len(procs') = Len(procs)
    BY <1>2, <2>2, WorkerAloneType DEF RefuseTrigger, PiSlotTypeOK
  <2>4. fate' \in [Messages -> Fates]
    BY <1>2 DEF RefuseTrigger, Fates, Messages
  <2> QED
    BY <1>2, <2>1, <2>3, <2>4 DEF RefuseTrigger
<1>3. CASE Tick
  <2>1. hpc' \in [Threads -> HandlerPcs]
    BY <1>3, StepType DEF Tick, Threads, HandlerPcs
  <2>2. InboxTypeOK'
    BY <1>3, EmptySeq, InsertType DEF Tick, Sources
  <2>3. PiSlotTypeOK' /\ Len(procs') = Len(procs)
    BY <1>3, SlotStutterType DEF Tick, SpentOrNot, Faults, PiSlotTypeOK
  <2> QED
    BY <1>3, <2>1, <2>2, <2>3, WorkerStutterType DEF Tick
<1> QED
  BY <1>1, <1>2, <1>3

LEMMA StopType ==
    ASSUME TypeInv, NEW s \in Stops, CheckActive(s) \/ ReadCancel(s) \/ CallCancel(s)
    PROVE  TypeInv'
<1> USE DEF TypeInv, TypeOK, WorkerTypeOK
<1>a. s \in Threads
  BY DEF Threads, Commands
<1>b. hpc' \in [Threads -> HandlerPcs]
  BY <1>a, StepType DEF CheckActive, ReadCancel, CallCancel, Begin, HandlerPcs
<1>c. InboxTypeOK' /\ PiSlotTypeOK' /\ Len(procs') = Len(procs)
  BY WorkerAloneType DEF CheckActive, ReadCancel, CallCancel, SpentOrNot, PiSlotTypeOK
<1>1. CASE CheckActive(s)
  BY <1>1, <1>b, <1>c, WorkerStutterType DEF CheckActive
<1>2. CASE ReadCancel(s)
  BY <1>2, <1>b, <1>c, WorkerStutterType DEF ReadCancel
<1>3. CASE CallCancel(s)
  <2>1. op' \in Ops /\ op'.proc = op.proc /\ op'.caller = op.caller
    BY <1>3, CancelType DEF CallCancel
  <2> QED
    BY <1>3, <1>b, <1>c, <2>1 DEF CallCancel
<1> QED
  BY <1>1, <1>2, <1>3

LEMMA RestartType ==
    ASSUME TypeInv, NEW h \in Restarts, RestartFlag(h) \/ RestartStop(h) \/ RestartDone(h)
    PROVE  TypeInv'
<1> USE DEF TypeInv, TypeOK
<1>a. h \in Threads
  BY DEF Threads, Commands
<1>b. hpc' \in [Threads -> HandlerPcs]
  BY <1>a, StepType DEF RestartFlag, RestartStop, RestartDone, Begin, HandlerPcs
<1>c. PiSlotTypeOK' /\ Len(procs') = Len(procs)
  BY SetFreshStartType, StopPiType, SlotStutterType
     DEF RestartFlag, RestartStop, RestartDone, Stoppers, SpentOrNot, PiSlotTypeOK
<1>d. InboxTypeOK'
  BY InboxStutterType DEF RestartFlag, RestartStop, RestartDone
<1> QED
  BY <1>b, <1>c, <1>d, WorkerStutterType DEF RestartFlag, RestartStop, RestartDone

LEMMA CompactType ==
    ASSUME TypeInv, NEW c \in Compacts,
           CompactActive(c) \/ ClaimSlot(c) \/ EnqueueCompact(c) \/ RefuseCompact(c)
             \/ CompactReturns(c)
    PROVE  TypeInv'
<1> USE DEF TypeInv, TypeOK, WorkerTypeOK
<1>a. c \in Threads
  BY DEF Threads, Commands
<1>b. hpc' \in [Threads -> HandlerPcs]
  BY <1>a, StepType
     DEF CompactActive, ClaimSlot, EnqueueCompact, RefuseCompact, CompactReturns,
         Begin, HandlerPcs
<1>1. CASE CompactActive(c)
  BY <1>1, <1>b, WorkerAloneType, WorkerStutterType
     DEF CompactActive, SpentOrNot, PiSlotTypeOK
<1>2. CASE ClaimSlot(c)
  BY <1>2, <1>b, WorkerAloneType DEF ClaimSlot, SpentOrNot, PiSlotTypeOK
<1>3. CASE EnqueueCompact(c)
  <2>1. InboxTypeOK'
    BY <1>3, EmptySeq, InsertType DEF EnqueueCompact, Sources
  <2>2. PiSlotTypeOK' /\ Len(procs') = Len(procs)
    BY <1>3, SlotStutterType DEF EnqueueCompact, SpentOrNot, PiSlotTypeOK
  <2> QED
    BY <1>3, <1>b, <2>1, <2>2, WorkerStutterType DEF EnqueueCompact
<1>4. CASE RefuseCompact(c)
  <2>1. SpentOrNot
    BY <1>4 DEF RefuseCompact, CtxDbFault, DbFault, SpentOrNot, Faults
  <2>2. InboxTypeOK' /\ PiSlotTypeOK' /\ Len(procs') = Len(procs)
    BY <1>4, <2>1, WorkerAloneType DEF RefuseCompact, PiSlotTypeOK
  <2> QED
    BY <1>4, <1>b, <2>2 DEF RefuseCompact
<1>5. CASE CompactReturns(c)
  BY <1>5, <1>b, WorkerAloneType, WorkerStutterType
     DEF CompactReturns, SpentOrNot, PiSlotTypeOK
<1> QED
  BY <1>1, <1>2, <1>3, <1>4, <1>5

LEMMA ReaperType ==
    ASSUME TypeInv, ReaperCheck \/ ReaperStop \/ ReaperDone
    PROVE  TypeInv'
<1> USE DEF TypeInv, TypeOK
<1>a. Reaper \in Threads /\ Reaper \in Stoppers
  BY DEF Threads, Stoppers
<1>b. hpc' \in [Threads -> HandlerPcs]
  BY <1>a, StepType DEF ReaperCheck, ReaperStop, ReaperDone, HandlerPcs
<1>c. PiSlotTypeOK' /\ Len(procs') = Len(procs)
  BY <1>a, StopPiType, SlotStutterType
     DEF ReaperCheck, ReaperStop, ReaperDone, SpentOrNot, PiSlotTypeOK
<1>d. InboxTypeOK'
  BY InboxStutterType DEF ReaperCheck, ReaperStop, ReaperDone
<1> QED
  BY <1>b, <1>c, <1>d, WorkerStutterType DEF ReaperCheck, ReaperStop, ReaperDone

LEMMA EnvironmentType ==
    ASSUME TypeInv, TimePasses \/ PiExits \/ Shutdown \/ Rest
    PROVE  TypeInv'
<1> USE DEF TypeInv, TypeOK
<1>1. CASE TimePasses
  BY <1>1, WorkerAloneType, WorkerStutterType
     DEF TimePasses, handlerVars, SpentOrNot, Faults, PiSlotTypeOK
<1>2. CASE PiExits
  <2>1. PICK p \in DOMAIN procs : ExitPi(p)
    BY <1>2 DEF PiExits
  <2>2. PiSlotTypeOK' /\ Len(procs') = Len(procs)
    BY <1>2, <2>1, ExitPiType DEF PiExits
  <2> QED
    BY <1>2, <2>2, InboxStutterType, WorkerStutterType DEF PiExits, handlerVars
<1>3. CASE Shutdown
  BY <1>3, WorkerAloneType
     DEF Shutdown, WorkerTypeOK, handlerVars, SpentOrNot, Faults, PiSlotTypeOK
<1>4. CASE Rest
  BY <1>4, WorkerAloneType, WorkerStutterType
     DEF Rest, vars, handlerVars, SpentOrNot, PiSlotTypeOK
<1> QED
  BY <1>1, <1>2, <1>3, <1>4
-----------------------------------------------------------------------------
LEMMA InitType == Init => TypeInv
<1> SUFFICES ASSUME Init PROVE TypeInv
  OBVIOUS
<1>1. InboxTypeOK
  BY DEF Init, InboxInit, InboxTypeOK
<1>2. procs = <<>> /\ Len(procs) = 0
  BY EmptySeq DEF Init, PiSlotInit
<1>3. PiSlotTypeOK
  <2>1. procs \in Seq([state : PiStates, session : SUBSET Restarts])
    BY <1>2, EmptySeq
  <2>2. pi \in 0 .. Len(procs) /\ victim \in [Stoppers -> 0 .. Len(procs)]
    BY <1>2 DEF Init, PiSlotInit
  <2>3. budget \in [Faults -> Nat]
    BY BudgetAssumption DEF Init, PiSlotInit
  <2>4. freshStart \in BOOLEAN /\ idle \in BOOLEAN
        /\ session \subseteq Restarts /\ resets \subseteq Restarts
    BY DEF Init, PiSlotInit
  <2> QED
    BY <2>1, <2>2, <2>3, <2>4 DEF PiSlotTypeOK
<1>4. WorkerTypeOK /\ wpc = "drain"
  <2>1. op \in Ops /\ op.proc = 0
    BY NoOpType DEF Init, WorkerInit
  <2>2. wpc \in Pcs /\ wpc = "drain" /\ extra \subseteq Rows /\ current \in {-1, 0, 1, 2}
    BY DEF Init, WorkerInit, Pcs
  <2>3. wake \in BOOLEAN /\ roomKnown \in BOOLEAN /\ shutdown \in BOOLEAN
    BY DEF Init, WorkerInit
  <2>4. slot \in Compacts \cup {NoCaller} /\ answered \subseteq Compacts
    BY DEF Init, WorkerInit
  <2>5. fate \in [Messages -> Fates]
    BY DEF Init, WorkerInit, Fates
  <2> QED
    BY <1>2, <2>1, <2>2, <2>3, <2>4, <2>5 DEF WorkerTypeOK
<1>5. hpc \in [Threads -> HandlerPcs] /\ holds \subseteq Stops /\ order \in Seq(Prompts)
  BY EmptySeq DEF Init, HandlerPcs
<1> QED
  BY <1>1, <1>3, <1>4, <1>5 DEF TypeInv, TypeOK

LEMMA NextType == TypeInv /\ [Next]_vars => TypeInv'
<1> SUFFICES ASSUME TypeInv, [Next]_vars PROVE TypeInv'
  OBVIOUS
<1>1. CASE Work
  BY <1>1, WorkType
<1>2. ASSUME NEW t \in Threads, Continue(t)
      PROVE  TypeInv'
  BY <1>2, NotifierType, PromptHandlerType, StopType, RestartType, CompactType, ReaperType
     DEF Continue
<1>3. CASE Arrive
  BY <1>3, PromptHandlerType, TriggerType, StopType, RestartType, CompactType,
     ReaperType, EnvironmentType
     DEF Arrive
<1>4. CASE Rest
  BY <1>4, EnvironmentType
<1>5. CASE UNCHANGED vars
  BY <1>5, WorkerAloneType, WorkerStutterType
     DEF vars, handlerVars, TypeInv, TypeOK, SpentOrNot, PiSlotTypeOK
<1> QED
  BY <1>1, <1>2, <1>3, <1>4, <1>5 DEF Next

\* Every variable of the inbox, the slot of pi, the worker and the handlers
\* keeps its type, whatever the messages, handlers and fault budgets; in
\* particular the handle of an operation never points past the processes that
\* were started.
THEOREM TypeCorrect == Spec => []TypeOK
<1>1. TypeInv => TypeOK
  BY DEF TypeInv
<1> QED
  BY InitType, NextType, <1>1, PTL DEF Spec

THEOREM TypeInvariance == Spec => []TypeInv
BY InitType, NextType, PTL DEF Spec

-----------------------------------------------------------------------------
(* No process of pi is leaked: NoLeak for every value of the constants.    *)
(* stopPi empties the slot under the lock and kills outside it, while      *)
(* ensurePi starts outside the lock and fills the slot later, so that      *)
(* several processes may be on their way in or out at once.  SlotInv says  *)
(* where each of them is.                                                  *)

\* t waits in Kill for the process it has signalled.
Killing(t) == IF t = Loop THEN wpc \in {"retryKill", "failKill", "exiting"}
              ELSE hpc[t] = "killing"

\* The process ensurePi has started and not yet stored.
Starting == IF wpc = "store" THEN op.proc ELSE 0

SlotInv ==
    /\ \A t \in Stoppers : Alive(victim[t]) => Killing(t)
    /\ \A p \in DOMAIN procs : Owned(p, Starting)
    /\ pi # 0 => procs[pi].state # "signalled"
    /\ wpc = "store" => op.proc # 0 /\ procs[op.proc].state # "signalled"
    /\ wpc \in {"spawn", "store"} => ~Alive(pi)
    /\ wpc \in {"exiting", "stopped"} => pi = 0
-----------------------------------------------------------------------------
(* What the operations on the slot do to the state of each process.        *)

LEMMA Handles ==
    ASSUME TypeInv
    PROVE  /\ Len(procs) \in Nat /\ DOMAIN procs = 1 .. Len(procs)
           /\ pi \in Nat /\ pi <= Len(procs)
           /\ op.proc \in Nat /\ op.proc <= Len(procs)
           /\ \A t \in Stoppers : victim[t] \in Nat /\ victim[t] <= Len(procs)
           /\ \A p \in 1 .. Len(procs) : procs[p] \in [state : PiStates, session : SUBSET Restarts]
<1>1. Len(procs) \in Nat /\ DOMAIN procs = 1 .. Len(procs)
  BY LenProperties DEF TypeInv, TypeOK, PiSlotTypeOK
<1>2. \A p \in 1 .. Len(procs) : procs[p] \in [state : PiStates, session : SUBSET Restarts]
  BY ElementOfSeq DEF TypeInv, TypeOK, PiSlotTypeOK
<1>3. op.proc \in Nat /\ op.proc <= Len(procs)
  BY DEF TypeInv, TypeOK, WorkerTypeOK, Ops
<1> QED
  BY <1>1, <1>2, <1>3 DEF TypeInv, TypeOK, PiSlotTypeOK

LEMMA StateSet ==
    ASSUME TypeInv, NEW p \in 1 .. Len(procs), NEW s,
           procs' = [procs EXCEPT ![p].state = s]
    PROVE  /\ DOMAIN procs' = DOMAIN procs
           /\ \A q \in DOMAIN procs :
                  procs'[q].state = IF q = p THEN s ELSE procs[q].state
BY Handles

LEMMA StopPiStates ==
    ASSUME TypeInv, NEW t, StopPi(t)
    PROVE  /\ DOMAIN procs' = DOMAIN procs
           /\ \A p \in DOMAIN procs : procs'[p].state =
                  IF p = pi /\ procs[p].state # "dead" THEN "signalled" ELSE procs[p].state
<1>1. CASE Alive(pi)
  <2>1. pi \in 1 .. Len(procs) /\ procs[pi].state # "dead"
    BY <1>1, Handles DEF Alive
  <2> QED
    BY <1>1, <2>1, StateSet DEF StopPi
<1>2. CASE ~Alive(pi)
  BY <1>2, Handles DEF StopPi, Alive
<1> QED
  BY <1>1, <1>2

LEMMA ExitPiStates ==
    ASSUME TypeInv, NEW e \in DOMAIN procs, ExitPi(e)
    PROVE  /\ DOMAIN procs' = DOMAIN procs
           /\ \A p \in DOMAIN procs : procs'[p].state =
                  IF p = e THEN "dead" ELSE procs[p].state
<1>1. e \in 1 .. Len(procs)
  BY Handles
<1> QED
  BY <1>1, StateSet DEF ExitPi

LEMMA StartPiStates ==
    ASSUME TypeInv, NEW fresh \in BOOLEAN, StartPi(fresh)
    PROVE  /\ DOMAIN procs' = DOMAIN procs \cup {Len(procs) + 1}
           /\ procs'[Len(procs) + 1].state = "alive"
           /\ \A p \in DOMAIN procs : procs'[p] = procs[p]
<1> DEFINE Process == [state : PiStates, session : SUBSET Restarts]
           new == [state |-> "alive", session |-> session']
<1>1. procs \in Seq(Process) /\ new \in Process /\ procs' = Append(procs, new)
  BY DEF TypeInv, TypeOK, PiSlotTypeOK, StartPi, PiStates
<1>2. new.state = "alive"
  OBVIOUS
<1> HIDE DEF Process, new
<1>3. /\ procs' \in Seq(Process) /\ Len(procs') = Len(procs) + 1
      /\ \A i \in 1 .. Len(procs) : procs'[i] = procs[i]
      /\ procs'[Len(procs) + 1] = new
  BY <1>1, AppendProperties
<1>4. DOMAIN procs' = 1 .. Len(procs) + 1
  BY <1>3, LenProperties
<1> QED
  BY <1>2, <1>3, <1>4, Handles
-----------------------------------------------------------------------------
\* Nothing happens to the processes, and whoever leaves Kill has seen its
\* victim exit.
LEMMA SlotStays ==
    ASSUME TypeInv, SlotInv, UNCHANGED <<pi, procs, victim>>, Starting' = Starting,
           \A t \in Stoppers : Killing(t) => Killing(t)' \/ ~Alive(victim[t]),
           wpc' = "store" => wpc = "store" /\ op'.proc = op.proc,
           wpc' = "spawn" => wpc = "spawn" \/ ~Alive(pi),
           wpc' \in {"exiting", "stopped"} => wpc \in {"exiting", "stopped"}
    PROVE  SlotInv'
<1>1. \A p \in DOMAIN procs' : Owned(p, Starting)'
  BY DEF SlotInv, Owned
<1>2. \A t \in Stoppers : Alive(victim[t])' => Killing(t)'
  BY DEF SlotInv, Alive
<1> QED
  BY <1>1, <1>2 DEF SlotInv, Alive

\* t takes the process out of the slot and waits for its exit.
LEMMA SlotStops ==
    ASSUME TypeInv, SlotInv, NEW t \in Stoppers, StopPi(t), ~Killing(t), Killing(t)',
           \A s \in Stoppers \ {t} : Killing(s)' <=> Killing(s),
           \/ UNCHANGED <<wpc, op>>
           \/ wpc # "store" /\ wpc' \notin {"store", "spawn", "stopped"}
    PROVE  SlotInv'
<1>1. /\ DOMAIN procs' = DOMAIN procs
      /\ \A p \in DOMAIN procs : procs'[p].state =
             IF p = pi /\ procs[p].state # "dead" THEN "signalled" ELSE procs[p].state
  BY StopPiStates
<1>2. pi' = 0 /\ victim' = [victim EXCEPT ![t] = pi] /\ Starting' = Starting
  BY DEF StopPi, Starting
<1>3. victim'[t] = pi /\ \A s \in Stoppers \ {t} : victim'[s] = victim[s]
  BY <1>2 DEF TypeInv, TypeOK, PiSlotTypeOK
<1>4. ~Alive(victim[t])
  BY DEF SlotInv
<1>5. ASSUME NEW p \in DOMAIN procs
      PROVE  Owned(p, Starting)'
  <2>1. Owned(p, Starting) /\ procs[p].state \in PiStates /\ p # 0
    BY <1>5, Handles DEF SlotInv
  <2>2. CASE p = pi /\ procs[p].state # "dead"
    BY <1>1, <1>3, <1>5, <2>2 DEF Owned
  <2>3. CASE ~(p = pi /\ procs[p].state # "dead")
    <3>1. procs'[p].state = procs[p].state
      BY <1>1, <2>3
    <3>2. CASE procs[p].state = "alive"
      BY <1>2, <2>1, <2>3, <3>1, <3>2 DEF Owned
    <3>3. CASE procs[p].state = "signalled"
      <4>1. PICK s \in Stoppers : victim[s] = p
        BY <2>1, <3>3 DEF Owned
      <4>2. s # t
        BY <1>4, <2>1, <3>3, <4>1 DEF Alive
      <4> QED
        BY <1>3, <3>1, <3>3, <4>1, <4>2 DEF Owned
    <3> QED
      BY <2>1, <3>1, <3>2, <3>3 DEF Owned, PiStates
  <2> QED
    BY <2>2, <2>3
<1>6. ASSUME NEW s \in Stoppers, Alive(victim[s])'
      PROVE  Killing(s)'
  <2>1. CASE s = t
    BY <2>1
  <2>2. CASE s # t
    <3>1. victim'[s] = victim[s] /\ victim[s] \in DOMAIN procs
      BY <1>3, <1>6, <2>2, Handles DEF Alive
    <3>2. Alive(victim[s])
      BY <1>1, <1>6, <3>1 DEF Alive
    <3> QED
      BY <2>2, <3>2 DEF SlotInv
  <2> QED
    BY <2>1, <2>2
<1>7. wpc' = "store" => op'.proc # 0 /\ procs'[op'.proc].state # "signalled"
  <2> SUFFICES ASSUME wpc' = "store" PROVE op'.proc # 0 /\ procs'[op'.proc].state # "signalled"
    OBVIOUS
  <2>1. wpc = "store" /\ op' = op
    OBVIOUS
  <2>2. op.proc \in DOMAIN procs /\ procs[op.proc].state # "signalled" /\ ~Alive(pi)
    BY <2>1, Handles DEF SlotInv
  <2>3. ~(op.proc = pi /\ procs[op.proc].state # "dead")
    BY <2>2, Handles DEF Alive
  <2> QED
    BY <1>1, <2>1, <2>2, <2>3, Handles
<1> QED
  BY <1>1, <1>2, <1>5, <1>6, <1>7 DEF SlotInv, Alive

LEMMA SlotExits ==
    ASSUME TypeInv, SlotInv, PiExits
    PROVE  SlotInv'
<1>1. PICK e \in DOMAIN procs : ExitPi(e)
  BY DEF PiExits
<1>2. /\ DOMAIN procs' = DOMAIN procs
      /\ \A p \in DOMAIN procs : procs'[p].state = IF p = e THEN "dead" ELSE procs[p].state
  BY <1>1, ExitPiStates
<1>3. UNCHANGED <<pi, victim, wpc, op, hpc>>
  BY <1>1 DEF PiExits, ExitPi, workerVars, handlerVars
<1>4. ASSUME NEW p \in DOMAIN procs
      PROVE  Owned(p, Starting)'
  BY <1>2, <1>3 DEF Owned, Starting, SlotInv
<1>5. ASSUME NEW t \in Stoppers, Alive(victim[t])'
      PROVE  Killing(t)'
  <2>1. Alive(victim[t])
    BY <1>2, <1>3, <1>5, Handles DEF Alive
  <2> QED
    BY <1>3, <2>1 DEF SlotInv, Killing
<1>6. /\ pi' # 0 => procs'[pi'].state # "signalled"
      /\ wpc' = "store" => op'.proc # 0 /\ procs'[op'.proc].state # "signalled"
      /\ Alive(pi)' => Alive(pi)
  BY <1>2, <1>3, Handles DEF SlotInv, Alive
<1> QED
  BY <1>2, <1>3, <1>4, <1>5, <1>6 DEF SlotInv

\* The new process belongs to the worker until Store.
LEMMA SlotStarts ==
    ASSUME TypeInv, SlotInv, Spawn, UNCHANGED hpc
    PROVE  SlotInv'
<1>1. /\ wpc = "spawn" /\ wpc' = "store" /\ ~Alive(pi)
      /\ UNCHANGED <<pi, victim>>
  BY DEF Spawn, Moves, StartPi, SlotInv
<1>2. op.fresh \in BOOLEAN /\ op \in Ops
  BY DEF TypeInv, TypeOK, WorkerTypeOK, Ops
<1>3. /\ DOMAIN procs' = DOMAIN procs \cup {Len(procs) + 1}
      /\ procs'[Len(procs) + 1].state = "alive"
      /\ \A p \in DOMAIN procs : procs'[p] = procs[p]
  BY <1>2, StartPiStates DEF Spawn
<1>4. op'.proc = Len(procs) + 1
  BY <1>2 DEF Spawn, Ops
<1>5. \A p \in DOMAIN procs' : Owned(p, Starting)'
  BY <1>1, <1>3, <1>4 DEF Owned, Starting, SlotInv, Alive
<1>6. ASSUME NEW t \in Stoppers
      PROVE  ~Alive(victim[t])'  \/ Killing(t)'
  <2>1. Alive(victim[t])' => Alive(victim[t])
    BY <1>1, <1>3, Handles DEF Alive
  <2>2. Killing(t) => Killing(t)'
    BY <1>1 DEF Killing
  <2> QED
    BY <2>1, <2>2 DEF SlotInv
<1> QED
  BY <1>1, <1>3, <1>4, <1>5, <1>6, Handles DEF SlotInv, Alive

\* From here on the slot holds it; what was there before is dead.
LEMMA SlotStores ==
    ASSUME TypeInv, SlotInv, Store, UNCHANGED hpc
    PROVE  SlotInv'
<1>1. /\ pi' = op.proc /\ UNCHANGED <<procs, victim, op>>
      /\ wpc = "store" /\ wpc' = "send"
  BY DEF Store, Moves
<1>2. op.proc # 0 /\ procs[op.proc].state # "signalled" /\ ~Alive(pi)
  BY <1>1 DEF SlotInv
<1>3. ASSUME NEW p \in DOMAIN procs
      PROVE  Owned(p, Starting)'
  <2>1. Owned(p, op.proc)
    BY <1>1 DEF SlotInv, Starting
  <2>2. procs[p].state = "alive" => p = op.proc
    BY <1>2, <2>1, Handles DEF Owned, Alive
  <2> QED
    BY <1>1, <2>1, <2>2 DEF Owned
<1>4. ASSUME NEW t \in Stoppers, Alive(victim[t])'
      PROVE  Killing(t)'
  BY <1>1, <1>4 DEF SlotInv, Alive, Killing
<1> QED
  BY <1>1, <1>2, <1>3, <1>4 DEF SlotInv

LEMMA WorkSlot ==
    ASSUME TypeInv, SlotInv, Work
    PROVE  SlotInv'
<1> USE DEF Moves, Work, slotVars, Starting, Killing
<1>a. op \in Ops /\ Loop \in Stoppers
  BY DEF TypeInv, TypeOK, WorkerTypeOK, Stoppers
<1>1. CASE DrainEnds \/ DequeueFails \/ (\E r \in inbox : Dequeue(r)) \/ Woken
  BY <1>1, SlotStays DEF DrainEnds, DequeueFails, Dequeue, Woken
<1>2. CASE Exit
  <2>1. wpc = "wait" /\ wpc' = "exiting" /\ StopPi(Loop) /\ UNCHANGED op
    BY <1>2 DEF Exit
  <2> QED
    BY <1>a, <2>1, SlotStops
<1>3. CASE Exited
  BY <1>3, <1>a, SlotStays DEF Exited, Killed
<1>4. CASE MergeUserItems \/ MergeFails \/ (\E r \in extra : Fold(r)) \/ Folded
  BY <1>4, SlotStays DEF MergeUserItems, MergeFails, Fold, Folded
<1>5. CASE Register \/ Release \/ SkipHeartbeat \/ NoRoom \/ BeginPrompt
  BY <1>5, SlotStays DEF Register, Release, SkipHeartbeat, NoRoom, BeginPrompt
<1>6. CASE EnsurePi
  BY <1>6, SlotStays DEF EnsurePi, IsActive
<1>7. CASE SpawnFails
  BY <1>7, SlotStays DEF SpawnFails
<1>8. CASE Spawn
  BY <1>8, SlotStarts
<1>9. CASE Store
  BY <1>9, SlotStores
<1>10. CASE Send \/ SendFails \/ AwaitFails \/ Reject
  BY <1>10, SlotStays DEF Send, SendFails, AwaitFails, Reject, AfterSendError
<1>11. CASE SendAbort
  BY <1>11, SlotStays DEF SendAbort
<1>12. CASE PiStep
  BY <1>12, SlotStays DEF PiStep, Answer, RepromptEnds, CompactEnds
<1>13. CASE Retry \/ FailAndKill
  <2>1. /\ wpc \in {"retry", "failed"} /\ wpc' \in {"retryKill", "failKill"}
        /\ StopPi(Loop) /\ UNCHANGED op
    BY <1>13 DEF Retry, FailAndKill
  <2> QED
    BY <1>a, <2>1, SlotStops
<1>14. CASE Retried \/ FailKilled
  BY <1>14, <1>a, SlotStays DEF Retried, FailKilled, Killed
<1>15. CASE RequeuePreempted \/ FailWithoutPi \/ Deliver \/ TakeCompact
  BY <1>15, SlotStays DEF RequeuePreempted, FailWithoutPi, Deliver, TakeCompact
<1> QED
  BY <1>1, <1>2, <1>3, <1>4, <1>5, <1>6, <1>7, <1>8, <1>9, <1>10, <1>11, <1>12, <1>13,
     <1>14, <1>15
     DEF WorkerStep, LoopStep

\* Steps of other goroutines that leave the slot alone.
LEMMA SlotUntouched ==
    ASSUME TypeInv, SlotInv, UNCHANGED <<slotVars, wpc>>, op'.proc = op.proc,
           \A t \in Stoppers \ {Loop} :
               hpc[t] = "killing" => hpc'[t] = "killing" \/ ~Alive(victim[t])
    PROVE  SlotInv'
BY SlotStays DEF slotVars, Starting, Killing

\* A goroutine that is not in Kill goes on.
LEMMA StepKeepsKilling ==
    ASSUME NEW t, NEW from, NEW to, Step(t, from, to), from # "killing"
    PROVE  \A s \in Stoppers \ {Loop} : hpc[s] = "killing" => hpc'[s] = "killing"
BY DEF Step

LEMMA HandlerSlot ==
    ASSUME TypeInv, SlotInv, NEW t \in Threads, Continue(t)
    PROVE  SlotInv'
<1> USE DEF workerVars
<1>a. op \in Ops /\ hpc \in [Threads -> HandlerPcs]
  BY DEF TypeInv, TypeOK, WorkerTypeOK
<1>1. CASE t \in Notifiers /\ (Notify(t) \/ Wake(t))
  <2>1. op'.proc = op.proc
    BY <1>1, <1>a, CancelType DEF Notify, NotifyLock, Wake, NotifyWake
  <2> QED
    BY <1>1, <2>1, StepKeepsKilling, SlotUntouched DEF Notify, NotifyLock, Wake, NotifyWake
<1>2. CASE t \in Prompts /\ (EnqueuePrompt(t) \/ RefusePrompt(t))
  BY <1>2, StepKeepsKilling, SlotUntouched DEF EnqueuePrompt, RefusePrompt
<1>3. CASE t \in Stops /\ (ReadCancel(t) \/ CallCancel(t))
  <2>1. op'.proc = op.proc
    BY <1>3, <1>a, CancelType DEF ReadCancel, CallCancel
  <2> QED
    BY <1>3, <2>1, StepKeepsKilling, SlotUntouched DEF ReadCancel, CallCancel
<1>4. CASE t \in Compacts /\ (ClaimSlot(t) \/ EnqueueCompact(t) \/ RefuseCompact(t) \/ CompactReturns(t))
  BY <1>4, StepKeepsKilling, SlotUntouched
     DEF ClaimSlot, EnqueueCompact, RefuseCompact, CompactReturns
<1>5. CASE \/ t \in Restarts /\ RestartStop(t)
           \/ t = Reaper /\ ReaperStop
  <2>1. /\ t \in Stoppers /\ t # Loop /\ StopPi(t) /\ Step(t, "stopping", "killing")
        /\ UNCHANGED <<wpc, op>>
    BY <1>5, StoppersAssumption DEF Stoppers, RestartStop, ReaperStop
  <2>2. ~Killing(t) /\ Killing(t)'
    BY <1>a, <2>1 DEF Killing, Step
  <2>3. \A s \in Stoppers \ {t} : Killing(s)' <=> Killing(s)
    BY <1>a, <2>1 DEF Killing, Step
  <2> QED
    BY <2>1, <2>2, <2>3, SlotStops
<1>6. CASE \/ t \in Restarts /\ RestartDone(t)
           \/ t = Reaper /\ ReaperDone
  <2>1. \A s \in Stoppers \ {Loop} :
            hpc[s] = "killing" => hpc'[s] = "killing" \/ ~Alive(victim[s])
    <3>1. ~Alive(victim[t]) /\ \E to : hpc' = [hpc EXCEPT ![t] = to]
      BY <1>6 DEF RestartDone, ReaperDone, Step, Killed
    <3>2. \A s \in Threads \ {t} : hpc'[s] = hpc[s]
      BY <1>a, <3>1
    <3> QED
      BY <3>1, <3>2 DEF Stoppers, Threads, Commands
  <2> QED
    BY <1>6, <2>1, SlotUntouched DEF RestartDone, ReaperDone
<1> QED
  BY <1>1, <1>2, <1>3, <1>4, <1>5, <1>6 DEF Continue

LEMMA ArriveSlot ==
    ASSUME TypeInv, SlotInv, Arrive \/ Rest \/ UNCHANGED vars
    PROVE  SlotInv'
<1> USE DEF workerVars, handlerVars
<1>1. CASE \/ \E p \in Prompts : SetRoomID(p)
           \/ \E t \in Triggers : EnqueueTrigger(t) \/ RefuseTrigger(t)
           \/ \E s \in Stops : CheckActive(s)
           \/ \E c \in Compacts : CompactActive(c)
           \/ Tick \/ ReaperCheck
  BY <1>1, StepKeepsKilling, SlotUntouched
     DEF SetRoomID, EnqueueTrigger, RefuseTrigger, CheckActive, CompactActive, Tick,
         ReaperCheck, Begin
<1>2. CASE \E h \in Restarts : RestartFlag(h)
  <2>1. PICK h \in Restarts : RestartFlag(h)
    BY <1>2
  <2>2. \A s \in Stoppers \ {Loop} : hpc[s] = "killing" => hpc'[s] = "killing"
    BY <2>1, StepKeepsKilling DEF RestartFlag, Begin
  <2> QED
    BY <2>1, <2>2, SlotStays DEF RestartFlag, SetFreshStart, Starting, Killing
<1>3. CASE PiExits
  BY <1>3, SlotExits
<1>4. CASE TimePasses \/ Shutdown \/ Rest \/ UNCHANGED vars
  BY <1>4, SlotUntouched DEF TimePasses, Shutdown, Rest, vars
<1> QED
  BY <1>1, <1>2, <1>3, <1>4 DEF Arrive
-----------------------------------------------------------------------------
LEMMA InitSlot == Init => SlotInv
<1> SUFFICES ASSUME Init PROVE SlotInv
  OBVIOUS
<1>1. procs = <<>> /\ DOMAIN procs = {}
  BY DEF Init, PiSlotInit
<1> QED
  BY <1>1 DEF Init, PiSlotInit, WorkerInit, SlotInv, Alive

\* Where the processes are, at every moment.
THEOREM SlotInvariance == Spec => []SlotInv
<1>1. TypeInv /\ SlotInv /\ [Next]_vars => SlotInv'
  BY WorkSlot, HandlerSlot, ArriveSlot DEF Next
<1> QED
  BY InitSlot, <1>1, TypeInvariance, PTL DEF Spec

\* Whatever Restart, the reaper, failing prompts, crashes and the shutdown do
\* to the slot while the worker starts processes: a process that runs is in
\* the slot or about to be stored, one that was told to exit is waited for,
\* and the slot is empty when the worker has left.
THEOREM NoProcessLeaked == Spec => []NoLeak
<1>1. SlotInv => NoLeak
  BY DEF SlotInv, NoLeak, Starting
<1> QED
  BY <1>1, SlotInvariance, PTL

-----------------------------------------------------------------------------
(* The registration of an operation and the wake token.  Registered holds  *)
(* for every value of the constants.  NoLostWakeup does not: the runs show *)
(* that !stop and a failing SQL statement each leave the worker asleep on  *)
(* a row.  What is proved here is that nothing else does.                  *)

\* currentCancel is set exactly at the steps between the two critical
\* sections of processItem; an operation can be cancelled, and its cancel
\* function be held by a !stop handler, only there.
Registered ==
    /\ current # -1 <=> wpc \in RegisteredPcs
    /\ op.cancelled => current # -1
    /\ holds # {} => current # -1

RegisteredInv == TypeInv /\ Registered

LEMMA WorkRegistered ==
    ASSUME RegisteredInv, Work
    PROVE  Registered'
<1> USE DEF RegisteredInv, Registered, TypeInv, TypeOK, WorkerTypeOK, Moves, Work, Forget,
            RegisteredPcs, HoldingPcs
<1>a. op \in Ops
  OBVIOUS
<1>1. CASE DrainEnds \/ DequeueFails \/ Woken \/ Exit \/ Exited
  BY <1>1 DEF DrainEnds, DequeueFails, Woken, Exit, Exited
<1>2. CASE \E r \in inbox : Dequeue(r)
  BY <1>2 DEF Dequeue, NoOp
<1>3. CASE MergeUserItems \/ MergeFails \/ Folded
  BY <1>3 DEF MergeUserItems, MergeFails, Folded
<1>4. CASE \E r \in extra : Fold(r)
  BY <1>4, <1>a DEF Fold, Ops
<1>5. CASE Register
  BY <1>5, <1>a DEF Register, Ops, Priority, PriorityOf, Rows, Sources
<1>6. CASE Release
  BY <1>6 DEF Release, NoOp
<1>7. CASE SkipHeartbeat \/ NoRoom \/ BeginPrompt
  BY <1>7 DEF SkipHeartbeat, NoRoom, BeginPrompt
<1>8. CASE EnsurePi
  BY <1>8, <1>a DEF EnsurePi, Ops
<1>9. CASE SpawnFails \/ Spawn \/ Store
  BY <1>9, <1>a DEF SpawnFails, Spawn, Store, Ops
<1>10. CASE Send \/ SendFails \/ AwaitFails \/ Reject \/ SendAbort \/ Retry \/ Retried
  BY <1>10, <1>a DEF Send, SendFails, AwaitFails, Reject, SendAbort, Retry, Retried, AfterSendError, Ops
<1>11. CASE \E reply \in Replies \ {"none"} : Answer(reply)
  BY <1>11, <1>a DEF Answer, Ops
<1>12. CASE RepromptEnds \/ CompactEnds
  BY <1>12, <1>a DEF RepromptEnds, CompactEnds, Ops
<1>13. CASE RequeuePreempted \/ FailWithoutPi \/ FailAndKill \/ FailKilled \/ Deliver
  BY <1>13 DEF RequeuePreempted, FailWithoutPi, FailAndKill, FailKilled, Deliver
<1>14. CASE TakeCompact
  BY <1>14, <1>a DEF TakeCompact, Ops
<1> QED
  BY <1>1, <1>2, <1>3, <1>4, <1>5, <1>6, <1>7, <1>8, <1>9, <1>10, <1>11, <1>12, <1>13, <1>14
     DEF WorkerStep, LoopStep, PiStep

LEMMA HandlerRegistered ==
    ASSUME RegisteredInv, NEW t \in Threads, Continue(t)
    PROVE  Registered'
<1> USE DEF RegisteredInv, Registered, TypeInv, TypeOK, WorkerTypeOK, workerVars
<1>1. CASE t \in Notifiers /\ Notify(t)
  BY <1>1 DEF Notify, NotifyLock, Preempts, Cancel, Ops
<1>2. CASE t \in Notifiers /\ Wake(t)
  BY <1>2 DEF Wake, NotifyWake
<1>3. CASE t \in Prompts /\ (EnqueuePrompt(t) \/ RefusePrompt(t))
  BY <1>3 DEF EnqueuePrompt, RefusePrompt
<1>4. CASE t \in Stops /\ ReadCancel(t)
  BY <1>4 DEF ReadCancel
<1>5. CASE t \in Stops /\ CallCancel(t)
  BY <1>5 DEF CallCancel, Cancel, Ops
<1>6. CASE t \in Restarts /\ (RestartStop(t) \/ RestartDone(t))
  BY <1>6 DEF RestartStop, RestartDone
<1>7. CASE t \in Compacts /\ (ClaimSlot(t) \/ EnqueueCompact(t) \/ RefuseCompact(t) \/ CompactReturns(t))
  BY <1>7 DEF ClaimSlot, EnqueueCompact, RefuseCompact, CompactReturns
<1>8. CASE t = Reaper /\ (ReaperStop \/ ReaperDone)
  BY <1>8 DEF ReaperStop, ReaperDone
<1> QED
  BY <1>1, <1>2, <1>3, <1>4, <1>5, <1>6, <1>7, <1>8 DEF Continue

LEMMA ArriveRegistered ==
    ASSUME RegisteredInv, Arrive \/ Rest \/ UNCHANGED vars
    PROVE  Registered'
BY DEF RegisteredInv, Registered, workerVars, handlerVars, vars, Rest, Arrive, SetRoomID,
       EnqueueTrigger, RefuseTrigger, CheckActive, RestartFlag, CompactActive, Tick,
       ReaperCheck, TimePasses, PiExits, Shutdown

\* Of an operation that is not registered there is no cancel function.
THEOREM RegistrationCorrect == Spec => []RegisteredInv
<1>1. Init => RegisteredInv
  BY InitType DEF Init, WorkerInit, RegisteredInv, Registered, RegisteredPcs, HoldingPcs, NoOp
<1>2. RegisteredInv /\ [Next]_vars => RegisteredInv'
  BY NextType, WorkRegistered, HandlerRegistered, ArriveRegistered DEF RegisteredInv, Next
<1> QED
  BY <1>1, <1>2, PTL DEF Spec
-----------------------------------------------------------------------------
\* The token is there or is coming.
Awake == wake \/ NotifyPending

\* An operation is cancelled by a Notify that goes on to send the token, and
\* a row is left in the table by "park" only when its operation was cancelled
\* or when there was no room, which the handler of a prompt, then on its way
\* to Notify, is the only one to change.
AwakeInv ==
    /\ budget["db"] = 0
    /\ op.cancelled /\ ~shutdown => Awake
    /\ wpc = "park" /\ roomKnown /\ ~shutdown => Awake
    /\ NoLostWakeup

\* The token is consumed by Woken alone, when no operation is registered.
LEMMA WorkAwake ==
    ASSUME RegisteredInv, AwakeInv, Work
    PROVE  AwakeInv'
<1> USE DEF RegisteredInv, Registered, AwakeInv, TypeInv, TypeOK, WorkerTypeOK, Moves, Work,
            Awake, NotifyPending, NoLostWakeup, inboxVars
<1>a. op \in Ops /\ UNCHANGED hpc
  OBVIOUS
<1>b. ~DbFault
  BY DEF DbFault, Spend
<1>c. budget \in [Faults -> Nat]
  BY DEF PiSlotTypeOK
<1>1. CASE DrainEnds
  BY <1>1 DEF DrainEnds
<1>2. CASE DequeueFails
  BY <1>2, <1>b DEF DequeueFails
<1>3. CASE \E r \in inbox : Dequeue(r)
  BY <1>3 DEF Dequeue, NoOp
<1>4. CASE Woken
  <2>1. ~op.cancelled
    BY <1>4 DEF Woken, RegisteredPcs, HoldingPcs
  <2> QED
    BY <1>4, <2>1 DEF Woken
<1>5. CASE Exit \/ Exited
  BY <1>5 DEF Exit, Exited
<1>6. CASE MergeUserItems \/ MergeFails \/ Folded
  BY <1>6, <1>b DEF MergeUserItems, MergeFails, Folded, CtxDbFault
<1>7. CASE \E r \in extra : Fold(r)
  BY <1>7, <1>a DEF Fold, Ops
<1>8. CASE Register
  BY <1>8, <1>a DEF Register, Ops
<1>9. CASE Release
  <2>1. wpc' = "wait" => wpc = "park"
    BY <1>9 DEF Release
  <2> QED
    BY <1>9, <2>1 DEF Release, NoOp
<1>10. CASE SkipHeartbeat \/ BeginPrompt
  BY <1>10 DEF SkipHeartbeat, BeginPrompt
<1>11. CASE NoRoom
  BY <1>11, <1>b DEF NoRoom, RequeueRow
<1>12. CASE EnsurePi
  BY <1>12, <1>a DEF EnsurePi, Ops
<1>13. CASE SpawnFails \/ Spawn \/ Store
  BY <1>13, <1>a, <1>c DEF SpawnFails, Spawn, Store, Spend, Ops, Faults
<1>14. CASE Send \/ SendFails \/ AwaitFails \/ Reject \/ SendAbort \/ Retry \/ Retried
  BY <1>14, <1>a, <1>c
     DEF Send, SendFails, AwaitFails, Reject, SendAbort, Retry, Retried, AfterSendError,
         Spend, Ops, Faults
<1>15. CASE \E reply \in Replies \ {"none"} : Answer(reply)
  BY <1>15, <1>a DEF Answer, Ops
<1>16. CASE RepromptEnds \/ CompactEnds
  BY <1>16, <1>a DEF RepromptEnds, CompactEnds, Ops
<1>17. CASE RequeuePreempted
  BY <1>17, <1>b DEF RequeuePreempted, RequeueRow, CtxDone
<1>18. CASE FailWithoutPi \/ FailAndKill \/ FailKilled \/ Deliver
  BY <1>18 DEF FailWithoutPi, FailAndKill, FailKilled, Deliver
<1>19. CASE TakeCompact
  BY <1>19, <1>a DEF TakeCompact, Ops
<1> QED
  BY <1>1, <1>2, <1>3, <1>4, <1>5, <1>6, <1>7, <1>8, <1>9, <1>10, <1>11, <1>12, <1>13,
     <1>14, <1>15, <1>16, <1>17, <1>18, <1>19
     DEF WorkerStep, LoopStep, PiStep

\* Only a goroutine about to send the token can stop being one.
LEMMA PendingStays ==
    ASSUME NEW t, NEW from, NEW to, Step(t, from, to),
           from \notin {"prepared", "queued", "waking"}, NotifyPending
    PROVE  NotifyPending'
BY DEF Step, NotifyPending

LEMMA PendingBegins ==
    ASSUME TypeOK, NEW t \in Notifiers, NEW from, NEW to \in {"queued", "waking"},
           Step(t, from, to)
    PROVE  NotifyPending'
BY DEF Step, NotifyPending, Notifiers, TypeOK, Threads, Commands

LEMMA HandlerAwake ==
    ASSUME RegisteredInv, AwakeInv, Stops = {}, NEW t \in Threads, Continue(t)
    PROVE  AwakeInv'
<1> USE DEF RegisteredInv, AwakeInv, TypeInv, TypeOK, WorkerTypeOK, workerVars,
            Awake, NoLostWakeup, inboxVars
<1>a. ~DbFault
  BY DEF DbFault, Spend
<1>1. CASE t \in Notifiers /\ Notify(t)
  <2>1. NotifyPending'
    BY <1>1, PendingBegins DEF Notify
  <2> QED
    BY <1>1, <2>1 DEF Notify, NotifyLock
<1>2. CASE t \in Notifiers /\ Wake(t)
  BY <1>2 DEF Wake, NotifyWake
<1>3. CASE t \in Prompts /\ EnqueuePrompt(t)
  <2>1. NotifyPending'
    BY <1>3, PendingBegins DEF EnqueuePrompt, Notifiers
  <2> QED
    BY <1>3, <2>1 DEF EnqueuePrompt
<1>4. CASE t \in Prompts /\ RefusePrompt(t)
  BY <1>4, <1>a DEF RefusePrompt, CtxDbFault
<1>5. CASE t \in Restarts /\ (RestartStop(t) \/ RestartDone(t))
  <2>1. NotifyPending => NotifyPending'
    BY <1>5, PendingStays DEF RestartStop, RestartDone
  <2> QED
    BY <1>5, <2>1 DEF RestartStop, RestartDone
<1>6. CASE t \in Compacts /\ EnqueueCompact(t)
  <2>1. NotifyPending'
    BY <1>6, PendingBegins DEF EnqueueCompact, Notifiers
  <2> QED
    BY <1>6, <2>1 DEF EnqueueCompact
<1>7. CASE t \in Compacts /\ (ClaimSlot(t) \/ RefuseCompact(t) \/ CompactReturns(t))
  <2>1. NotifyPending => NotifyPending'
    BY <1>7, PendingStays DEF ClaimSlot, RefuseCompact, CompactReturns
  <2> QED
    BY <1>7, <1>a, <2>1 DEF ClaimSlot, RefuseCompact, CompactReturns, CtxDbFault
<1>8. CASE t = Reaper /\ (ReaperStop \/ ReaperDone)
  <2>1. NotifyPending => NotifyPending'
    BY <1>8, PendingStays DEF ReaperStop, ReaperDone
  <2> QED
    BY <1>8, <2>1 DEF ReaperStop, ReaperDone
<1> QED
  BY <1>1, <1>2, <1>3, <1>4, <1>5, <1>6, <1>7, <1>8 DEF Continue

LEMMA ArriveAwake ==
    ASSUME RegisteredInv, AwakeInv, Stops = {}, Arrive \/ Rest \/ UNCHANGED vars
    PROVE  AwakeInv'
<1> USE DEF RegisteredInv, AwakeInv, TypeInv, TypeOK, WorkerTypeOK, workerVars, handlerVars,
            Awake, NoLostWakeup, inboxVars
<1>a. ~DbFault
  BY DEF DbFault, Spend
<1>b. budget \in [Faults -> Nat]
  BY DEF PiSlotTypeOK
<1>1. ASSUME NEW p \in Prompts, SetRoomID(p)
      PROVE  AwakeInv'
  <2>1. NotifyPending'
    BY <1>1 DEF SetRoomID, Begin, Step, NotifyPending, Threads, Commands
  <2> QED
    BY <1>1, <2>1 DEF SetRoomID
<1>2. ASSUME NEW t \in Triggers, EnqueueTrigger(t)
      PROVE  AwakeInv'
  <2>1. NotifyPending'
    BY <1>2, PendingBegins DEF EnqueueTrigger, Notifiers
  <2> QED
    BY <1>2, <2>1 DEF EnqueueTrigger
<1>3. ASSUME NEW t \in Triggers, RefuseTrigger(t)
      PROVE  AwakeInv'
  BY <1>3, <1>a DEF RefuseTrigger, CtxDbFault
<1>4. ASSUME NEW h \in Restarts, RestartFlag(h)
      PROVE  AwakeInv'
  <2>1. NotifyPending => NotifyPending'
    BY <1>4, PendingStays DEF RestartFlag, Begin
  <2> QED
    BY <1>4, <2>1 DEF RestartFlag
<1>5. ASSUME NEW c \in Compacts, CompactActive(c)
      PROVE  AwakeInv'
  <2>1. NotifyPending => NotifyPending'
    BY <1>5, PendingStays DEF CompactActive, Begin
  <2> QED
    BY <1>5, <2>1 DEF CompactActive
<1>6. CASE Tick
  <2>1. NotifyPending'
    BY <1>6, PendingBegins DEF Tick, Notifiers
  <2> QED
    BY <1>6, <1>b, <2>1 DEF Tick, Spend, Faults
<1>7. CASE ReaperCheck
  <2>1. NotifyPending => NotifyPending'
    BY <1>7, PendingStays DEF ReaperCheck
  <2> QED
    BY <1>7, <2>1 DEF ReaperCheck
<1>8. CASE TimePasses \/ PiExits \/ Shutdown
  BY <1>8, <1>b DEF TimePasses, PiExits, ExitPi, Shutdown, Spend, Faults, NotifyPending
<1>9. CASE Rest \/ UNCHANGED vars
  BY <1>9 DEF Rest, vars, NotifyPending
<1> QED
  BY <1>1, <1>2, <1>3, <1>4, <1>5, <1>6, <1>7, <1>8, <1>9 DEF Arrive

\* Where nobody sends !stop and no SQL statement fails, the worker never
\* sleeps on a row: whoever enqueues, preempts or makes the room known sends
\* the token after the worker can have missed the row.
THEOREM NoLostWakeupWithoutStop ==
    ASSUME Stops = {}, Budget["db"] = 0
    PROVE  Spec => []NoLostWakeup
<1>1. Init => AwakeInv
  BY DEF Init, PiSlotInit, WorkerInit, AwakeInv, NoLostWakeup, NoOp
<1>2. RegisteredInv /\ AwakeInv /\ [Next]_vars => AwakeInv'
  BY WorkAwake, HandlerAwake, ArriveAwake DEF Next
<1>3. AwakeInv => NoLostWakeup
  BY DEF AwakeInv
<1> QED
  BY <1>1, <1>2, <1>3, RegistrationCorrect, PTL DEF Spec
-----------------------------------------------------------------------------
(* The idle reaper.  It looks at the slot under the lock while no operation *)
(* is registered, and stops pi after releasing it, so that it may hit a     *)
(* process the next operation has meanwhile taken for its prompt.  What is  *)
(* proved here is that one retry makes up for it: ChanceInv says that a     *)
(* reaper between check and stop means that the retry is still to come.     *)

\* pi and the database do not fail by themselves.
Reliable == \A kind \in {"db", "start", "reject", "death"} : budget[kind] = 0

\* A user row is written after its handler has set the room, and markers
\* carry nothing.
Placed(r) ==
    /\ r.src = "user" => roomKnown
    /\ r.src \in {"heartbeat", "compact"} => r.body = <<>>

RoomInv ==
    /\ \A r \in inbox \cup extra : Placed(r)
    /\ wpc \in HoldingPcs => Placed(op.row)
    /\ wpc \in {"merge", "fold"} => op.row.src = "user"
    /\ \A p \in Prompts : hpc[p] = "prepared" => roomKnown

\* The operation is on its retry, or is about to lose the process it took.
LastTry ==
    \/ op.retried \/ wpc \in {"retry", "retryKill"}
    \/ wpc \in {"send", "await"} /\ procs[op.proc].state # "alive"

ChanceInv ==
    /\ wpc \notin RegisteredPcs => ~op.retried
    /\ wpc = "store" => procs[op.proc].state = "alive"
    /\ wpc \in {"send", "await"} =>
           op.proc # 0 /\ (op.retried => procs[op.proc].state = "alive")
    /\ wpc \in RegisteredPcs /\ LastTry => hpc[Reaper] # "stopping"
    /\ wpc = "failed" => CtxDone
    /\ wpc # "failKill"

ReaperInv == Reliable /\ RoomInv /\ ChanceInv /\ ReaperHarmless

\* No fault of theirs can happen ...
LEMMA ReliableSteps ==
    ASSUME Reliable
    PROVE  /\ ~Spend("db") /\ ~Spend("start") /\ ~Spend("reject") /\ ~Spend("death")
           /\ ~DbFault
BY DEF Reliable, Spend, DbFault

\* ... then or later.
LEMMA ReliableStays ==
    ASSUME TypeInv, Reliable, SpentOrNot
    PROVE  Reliable'
BY DEF Reliable, SpentOrNot, Spend, TypeInv, TypeOK, PiSlotTypeOK, Faults

\* The ways in which a step pays for a fault.
LEMMA SpentIsSpending ==
    /\ \A kind \in Faults : Spend(kind) => SpentOrNot
    /\ CtxDbFault \/ DbFault => SpentOrNot
    /\ UNCHANGED budget => SpentOrNot
    /\ \A p \in DOMAIN procs : ExitPi(p) => SpentOrNot
BY DEF SpentOrNot, CtxDbFault, DbFault, ExitPi, Faults

\* A step of the worker spends at most one fault, and leaves the other
\* goroutines alone.
LEMMA WorkFrugal ==
    ASSUME Work
    PROVE  SpentOrNot /\ UNCHANGED <<shutdown, order, hpc>>
<1> USE SpentIsSpending DEF Work, Moves, Faults
<1>1. CASE DrainEnds \/ DequeueFails \/ Woken \/ Exit \/ Exited
  BY <1>1 DEF DrainEnds, DequeueFails, Woken, Exit, Exited
<1>2. CASE (\E r \in inbox : Dequeue(r)) \/ MergeUserItems \/ MergeFails
           \/ (\E r \in extra : Fold(r)) \/ Folded
  BY <1>2 DEF Dequeue, MergeUserItems, MergeFails, Fold, Folded
<1>3. CASE Register \/ Release \/ SkipHeartbeat \/ NoRoom \/ BeginPrompt
  BY <1>3 DEF Register, Release, SkipHeartbeat, NoRoom, RequeueRow, BeginPrompt
<1>4. CASE EnsurePi \/ SpawnFails \/ Spawn \/ Store
  BY <1>4 DEF EnsurePi, SpawnFails, Spawn, Store
<1>5. CASE Send \/ SendFails \/ AwaitFails \/ Reject \/ SendAbort \/ Retry \/ Retried
  BY <1>5 DEF Send, SendFails, AwaitFails, Reject, SendAbort, Retry, Retried
<1>6. CASE \E reply \in Replies \ {"none"} : Answer(reply)
  BY <1>6 DEF Answer
<1>7. CASE RepromptEnds \/ CompactEnds \/ TakeCompact
  BY <1>7 DEF RepromptEnds, CompactEnds, TakeCompact
<1>8. CASE RequeuePreempted \/ FailWithoutPi \/ FailAndKill \/ FailKilled \/ Deliver
  BY <1>8 DEF RequeuePreempted, RequeueRow, FailWithoutPi, FailAndKill, FailKilled, Deliver
<1> QED
  BY <1>1, <1>2, <1>3, <1>4, <1>5, <1>6, <1>7, <1>8 DEF WorkerStep, LoopStep, PiStep

\* What is settled as dropped had no message.
LEMMA NothingDropped ==
    ASSUME ReaperHarmless, TypeInv, NEW outcome, Settle(outcome),
           outcome \notin {"failed", "dropped"} \/ op.row.body = <<>>
    PROVE  ReaperHarmless'
<1>1. op.row.body = <<>> => Carries(op.row) = {}
  BY DEF Carries
<1> QED
  BY <1>1 DEF Settle, ReaperHarmless

\* A row comes back as it was.
LEMMA InsertPlaced ==
    ASSUME TypeInv, RoomInv, NEW src, NEW body, Insert(src, body),
           UNCHANGED <<extra, roomKnown>>,
           src = "user" => roomKnown, src \in {"heartbeat", "compact"} => body = <<>>
    PROVE  \A r \in inbox' \cup extra' : Placed(r)'
BY DEF Insert, RoomInv, Placed

\* The worker fails or drops no message.
LEMMA WorkRooms ==
    ASSUME RegisteredInv, ReaperInv, Work
    PROVE  RoomInv' /\ ReaperHarmless'
<1> USE DEF RoomInv, Placed, Moves, Work, inboxVars, HoldingPcs
<1>a. op \in Ops /\ op.row \in Rows
  BY DEF RegisteredInv, TypeInv, TypeOK, WorkerTypeOK, Ops
<1>b. TypeInv /\ RoomInv /\ ChanceInv /\ ReaperHarmless /\ Reliable /\ UNCHANGED hpc
  BY DEF RegisteredInv, ReaperInv
<1>c. UNCHANGED fate => ReaperHarmless'
  BY <1>b DEF ReaperHarmless
<1>d. ~DbFault
  BY <1>b, ReliableSteps
<1>e. RequeueRow => Insert(op.row.src, op.row.body) /\ UNCHANGED fate
  BY <1>d DEF RequeueRow
<1>1. CASE DrainEnds \/ Woken \/ Exit \/ Exited
  BY <1>1, <1>b, <1>c DEF DrainEnds, Woken, Exit, Exited
<1>2. CASE DequeueFails
  BY <1>2, <1>d DEF DequeueFails
<1>3. CASE \E r \in inbox : Dequeue(r)
  <2>1. PICK r \in inbox : Dequeue(r)
    BY <1>3
  <2>2. op'.row = r /\ inbox' = inbox \ {r} /\ UNCHANGED <<extra, roomKnown, fate>>
    BY <2>1 DEF Dequeue, Remove, NoOp
  <2> QED
    BY <2>1, <2>2, <1>b, <1>c DEF Dequeue
<1>4. CASE MergeUserItems
  BY <1>4, <1>b, <1>c DEF MergeUserItems, RemoveUserRows, UserRows
<1>5. CASE MergeFails \/ Folded
  BY <1>5, <1>b, <1>c DEF MergeFails, Folded
<1>6. CASE \E r \in extra : Fold(r)
  <2>1. op'.row.src = op.row.src /\ extra' \subseteq extra /\ op.row.src = "user"
    BY <1>6, <1>a, <1>b DEF Fold, Ops, Rows
  <2> QED
    BY <1>6, <2>1, <1>b, <1>c DEF Fold
<1>7. CASE Register \/ SkipHeartbeat \/ BeginPrompt
  BY <1>7, <1>a, <1>b, <1>c DEF Register, SkipHeartbeat, BeginPrompt, Ops
<1>8. CASE Release
  BY <1>8, <1>b, <1>c DEF Release
<1>9. CASE NoRoom
  <2>1. CASE op.row.src = "trigger"
    <3>1. Insert(op.row.src, op.row.body) /\ UNCHANGED <<fate, extra, roomKnown>> /\ wpc' = "park"
      BY <1>9, <1>e, <2>1 DEF NoRoom
    <3>2. \A r \in inbox' \cup extra' : Placed(r)'
      BY <1>b, <2>1, <3>1, InsertPlaced
    <3> QED
      BY <1>b, <1>c, <3>1, <3>2
  <2>2. CASE op.row.src # "trigger"
    <3>1. op.row.src \in {"heartbeat", "compact"} /\ op.row.body = <<>>
      BY <1>9, <1>a, <1>b, <2>2 DEF NoRoom, Rows, Sources
    <3>2. Settle("dropped") /\ UNCHANGED inbox /\ wpc' = "release"
      BY <1>9, <2>2 DEF NoRoom
    <3>3. ReaperHarmless'
      BY <1>b, <3>1, <3>2, NothingDropped
    <3> QED
      BY <1>9, <1>b, <3>2, <3>3 DEF NoRoom
  <2> QED
    BY <2>1, <2>2
<1>10. CASE EnsurePi \/ SpawnFails \/ Spawn \/ Store
  BY <1>10, <1>a, <1>b, <1>c DEF EnsurePi, SpawnFails, Spawn, Store, Ops
<1>11. CASE Send \/ SendFails \/ AwaitFails \/ Reject \/ SendAbort \/ Retry \/ Retried
  BY <1>11, <1>a, <1>b, <1>c
     DEF Send, SendFails, AwaitFails, Reject, SendAbort, Retry, Retried, AfterSendError, Ops
<1>12. CASE PiStep
  BY <1>12, <1>a, <1>b, <1>c DEF PiStep, Answer, RepromptEnds, CompactEnds, Ops
<1>13. CASE RequeuePreempted
  <2>1. UNCHANGED <<fate, op, extra, roomKnown>> /\ wpc = "failed" /\ wpc' = "park"
    BY <1>13, <1>e DEF RequeuePreempted
  <2>2. \A r \in inbox' \cup extra' : Placed(r)'
    BY <1>13, <1>b, <1>e, <2>1, InsertPlaced DEF RequeuePreempted
  <2> QED
    BY <1>b, <1>c, <2>1, <2>2
<1>14. CASE FailWithoutPi \/ FailAndKill \/ FailKilled
  BY <1>14, <1>b DEF ChanceInv, FailWithoutPi, FailAndKill, FailKilled
<1>15. CASE Deliver
  <2>1. \E outcome \in {"muted", "replied", "unsent"} : Settle(outcome)
    BY <1>15 DEF Deliver
  <2>2. ReaperHarmless'
    BY <1>b, <2>1, NothingDropped
  <2> QED
    BY <1>15, <1>b, <2>2 DEF Deliver
<1>16. CASE TakeCompact
  BY <1>16, <1>b, <1>c DEF TakeCompact
<1> QED
  BY <1>1, <1>2, <1>3, <1>4, <1>5, <1>6, <1>7, <1>8, <1>9, <1>10, <1>11, <1>12, <1>13,
     <1>14, <1>15, <1>16
     DEF WorkerStep, LoopStep

\* Nobody but the reaper and the worker signals a process, and none dies
\* that has not been signalled.
LEMMA WorkChance ==
    ASSUME RegisteredInv, SlotInv, ReaperInv, Work
    PROVE  ChanceInv'
<1> USE DEF ChanceInv, Moves, Work, RegisteredPcs, HoldingPcs, LastTry, CtxDone
<1>a. op \in Ops /\ TypeInv /\ ChanceInv /\ Reliable /\ UNCHANGED hpc
  BY DEF RegisteredInv, ReaperInv, TypeInv, TypeOK, WorkerTypeOK
<1>b. ~Spend("db") /\ ~Spend("start") /\ ~Spend("reject") /\ ~DbFault
  BY <1>a, ReliableSteps
<1>1. CASE DrainEnds \/ DequeueFails \/ (\E r \in inbox : Dequeue(r)) \/ Woken \/ Exit \/ Exited
  BY <1>1, <1>a DEF DrainEnds, DequeueFails, Dequeue, Woken, Exit, Exited, NoOp
<1>2. CASE MergeUserItems \/ MergeFails \/ (\E r \in extra : Fold(r)) \/ Folded
  BY <1>2, <1>a DEF MergeUserItems, MergeFails, Fold, Folded, Ops
<1>3. CASE Register \/ Release \/ SkipHeartbeat \/ NoRoom \/ BeginPrompt
  BY <1>3, <1>a DEF Register, Release, SkipHeartbeat, NoRoom, BeginPrompt, Ops, NoOp
<1>4. CASE EnsurePi
  <2>1. wpc = "ensure" /\ UNCHANGED procs /\ op'.retried = op.retried
    BY <1>4, <1>a DEF EnsurePi, Ops
  <2>2. CASE IsActive
    <3>1. wpc' = "send" /\ op'.proc = pi /\ UNCHANGED shutdown
      BY <1>4, <1>a, <2>2 DEF EnsurePi, Ops
    <3>2. pi # 0 /\ procs[pi].state = "alive"
      BY <1>a, <2>2, Handles DEF IsActive, Alive, SlotInv, PiStates
    <3> QED
      BY <1>a, <2>1, <3>1, <3>2
  <2>3. CASE ~IsActive
    <3>1. wpc' = "spawn"
      BY <1>4, <2>3 DEF EnsurePi
    <3> QED
      BY <1>a, <2>1, <3>1
  <2> QED
    BY <2>2, <2>3
<1>5. CASE SpawnFails
  BY <1>5, <1>a, <1>b DEF SpawnFails
<1>6. CASE Spawn
  <2>1. op'.proc = Len(procs) + 1 /\ op'.retried = op.retried /\ wpc = "spawn" /\ wpc' = "store"
    BY <1>6, <1>a DEF Spawn, Ops
  <2>2. procs'[op'.proc].state = "alive"
    BY <1>6, <1>a, <2>1, StartPiStates DEF Spawn, Ops
  <2> QED
    BY <1>a, <2>1, <2>2
<1>7. CASE Store
  BY <1>7, <1>a DEF Store, SlotInv
<1>8. CASE Send \/ SendAbort
  BY <1>8, <1>a DEF Send, SendAbort, Ops, slotVars
<1>9. CASE SendFails \/ AwaitFails
  <2>1. /\ wpc \in {"send", "await"} /\ procs[op.proc].state # "alive"
        /\ UNCHANGED <<op, procs, shutdown>> /\ wpc' = AfterSendError
    BY <1>9, <1>a DEF SendFails, AwaitFails, Alive, slotVars
  <2> QED
    BY <1>a, <2>1 DEF AfterSendError
<1>10. CASE Reject
  BY <1>10, <1>b DEF Reject
<1>11. CASE Retry \/ Retried
  BY <1>11, <1>a DEF Retry, Retried, Ops
<1>12. CASE PiStep
  BY <1>12, <1>a DEF PiStep, Answer, RepromptEnds, CompactEnds, Ops, slotVars
<1>13. CASE RequeuePreempted \/ FailWithoutPi \/ FailAndKill \/ FailKilled \/ Deliver
  BY <1>13, <1>a DEF RequeuePreempted, FailWithoutPi, FailAndKill, FailKilled, Deliver
<1>14. CASE TakeCompact
  BY <1>14, <1>a DEF TakeCompact, Ops
<1> QED
  BY <1>1, <1>2, <1>3, <1>4, <1>5, <1>6, <1>7, <1>8, <1>9, <1>10, <1>11, <1>12, <1>13, <1>14
     DEF WorkerStep, LoopStep

\* Steps that leave the slot and the worker alone, or only cancel.
LEMMA ChanceStays ==
    ASSUME ChanceInv, UNCHANGED <<wpc, procs>>,
           op'.proc = op.proc, op'.retried = op.retried, CtxDone => CtxDone',
           hpc'[Reaper] = "stopping" => hpc[Reaper] = "stopping" \/ wpc \notin RegisteredPcs
    PROVE  ChanceInv'
BY DEF ChanceInv, LastTry

\* Likewise for rows and fates.
LEMMA RoomsStay ==
    ASSUME RoomInv, ReaperHarmless, UNCHANGED <<wpc, extra, fate>>, op'.row = op.row,
           roomKnown => roomKnown', inbox' \subseteq inbox,
           \A p \in Prompts : hpc'[p] = "prepared" => hpc[p] = "prepared" \/ roomKnown'
    PROVE  RoomInv' /\ ReaperHarmless'
BY DEF RoomInv, Placed, ReaperHarmless

\* The reaper's own step.
LEMMA ReaperSpares ==
    ASSUME RegisteredInv, SlotInv, ChanceInv, ReaperStop
    PROVE  ChanceInv'
<1>a. TypeInv /\ UNCHANGED <<wpc, op, shutdown>> /\ StopPi(Reaper) /\ Step(Reaper, "stopping", "killing")
  BY DEF RegisteredInv, ReaperStop, workerVars
<1>b. hpc[Reaper] = "stopping" /\ hpc'[Reaper] = "killing"
  BY <1>a DEF Step, TypeInv, TypeOK, Threads
<1>c. \A p \in DOMAIN procs : procs'[p].state =
          IF p = pi /\ procs[p].state # "dead" THEN "signalled" ELSE procs[p].state
  BY <1>a, StopPiStates
<1>1. CASE wpc = "store"
  <2>1. op.proc \in DOMAIN procs /\ ~Alive(pi) /\ procs[op.proc].state = "alive"
    BY <1>1, <1>a, Handles DEF SlotInv, ChanceInv
  <2>2. procs'[op.proc].state = "alive"
    BY <1>c, <2>1, Handles, <1>a DEF Alive
  <2> QED
    BY <1>1, <1>a, <1>b, <2>2 DEF ChanceInv, CtxDone
<1>2. CASE wpc \in {"send", "await"}
  <2>1. ~op.retried
    BY <1>2, <1>b DEF ChanceInv, LastTry, RegisteredPcs, HoldingPcs
  <2> QED
    BY <1>2, <1>a, <1>b, <2>1 DEF ChanceInv, CtxDone
<1>3. CASE wpc \notin {"store", "send", "await"}
  BY <1>3, <1>a, <1>b DEF ChanceInv, CtxDone
<1> QED
  BY <1>1, <1>2, <1>3

\* The other goroutines: only the reaper itself touches a process.
LEMMA HandlerHarmless ==
    ASSUME RegisteredInv, SlotInv, ReaperInv, Restarts = {}, NEW t \in Threads, Continue(t)
    PROVE  ReaperInv'
<1> USE DEF workerVars, inboxVars, slotVars
<1>a. TypeInv /\ RoomInv /\ ChanceInv /\ ReaperHarmless /\ Reliable /\ op \in Ops
      /\ hpc \in [Threads -> HandlerPcs] /\ fate \in [Messages -> Fates]
  BY DEF RegisteredInv, ReaperInv, TypeInv, TypeOK, WorkerTypeOK
<1>b. /\ Reaper \notin Notifiers \cup Prompts \cup Stops \cup Compacts
      /\ Prompts \subseteq Threads /\ Prompts \cap (Stops \cup Compacts) = {}
      /\ Reaper \in Threads
  BY ThreadsAssumption DEF Notifiers, Threads, Commands, Messages
<1>c. ASSUME NEW from, NEW to, Step(t, from, to), to # "prepared", to # "stopping"
      PROVE  /\ hpc'[Reaper] = "stopping" => hpc[Reaper] = "stopping"
             /\ \A p \in Prompts : hpc'[p] = "prepared" => hpc[p] = "prepared"
  BY <1>a, <1>b, <1>c DEF Step
<1>d. ~DbFault
  BY <1>a, ReliableSteps
<1>e. UNCHANGED budget => Reliable'
  BY <1>a DEF Reliable
<1>1. CASE t \in Notifiers /\ (Notify(t) \/ Wake(t))
  <2>1. /\ op'.row = op.row /\ op'.proc = op.proc /\ op'.retried = op.retried
        /\ op.cancelled => op'.cancelled
        /\ UNCHANGED <<wpc, extra, fate, roomKnown, shutdown, inbox, procs, budget>>
    BY <1>1, <1>a DEF Notify, NotifyLock, Preempts, Cancel, Wake, NotifyWake, Ops
  <2>2. \E from, to : Step(t, from, to) /\ to # "prepared" /\ to # "stopping"
    BY <1>1 DEF Notify, Wake, AfterNotify
  <2> QED
    BY <1>a, <1>c, <1>e, <2>1, <2>2, ChanceStays, RoomsStay DEF ReaperInv, CtxDone
<1>2. CASE t \in Prompts /\ EnqueuePrompt(t)
  <2>1. /\ Step(t, "prepared", "queued") /\ Insert("user", <<t>>)
        /\ UNCHANGED <<wpc, op, extra, fate, roomKnown, shutdown, procs, budget>>
    BY <1>2 DEF EnqueuePrompt
  <2>2. roomKnown
    BY <1>2, <1>a, <2>1 DEF Step, RoomInv
  <2>3. \A r \in inbox' \cup extra' : Placed(r)'
    BY <1>a, <2>1, <2>2, InsertPlaced
  <2>4. RoomInv'
    BY <1>a, <1>c, <2>1, <2>2, <2>3 DEF RoomInv, Placed
  <2> QED
    BY <1>a, <1>c, <1>e, <2>1, <2>4, ChanceStays DEF ReaperInv, CtxDone, ReaperHarmless
<1>3. CASE t \in Prompts /\ RefusePrompt(t)
  <2>1. /\ Step(t, "prepared", "done") /\ UNCHANGED budget
        /\ fate' = [fate EXCEPT ![t] = "refused"]
        /\ UNCHANGED <<wpc, op, extra, roomKnown, shutdown, procs, inbox>>
    BY <1>3, <1>d DEF RefusePrompt, CtxDbFault
  <2>2. ReaperHarmless'
    BY <1>a, <2>1 DEF ReaperHarmless
  <2>3. RoomInv'
    BY <1>a, <1>c, <2>1 DEF RoomInv, Placed
  <2> QED
    BY <1>a, <1>c, <1>e, <2>1, <2>2, <2>3, ChanceStays DEF ReaperInv, CtxDone
<1>4. CASE t \in Stops /\ (ReadCancel(t) \/ CallCancel(t))
  <2>1. /\ op'.row = op.row /\ op'.proc = op.proc /\ op'.retried = op.retried
        /\ op.cancelled => op'.cancelled
        /\ UNCHANGED <<wpc, extra, fate, roomKnown, shutdown, inbox, procs, budget>>
    BY <1>4, <1>a DEF ReadCancel, CallCancel, Cancel, Ops
  <2>2. \E from, to : Step(t, from, to) /\ to # "prepared" /\ to # "stopping"
    BY <1>4 DEF ReadCancel, CallCancel
  <2> QED
    BY <1>a, <1>c, <1>e, <2>1, <2>2, ChanceStays, RoomsStay DEF ReaperInv, CtxDone
<1>5. CASE t \in Compacts /\ EnqueueCompact(t)
  <2>1. /\ Step(t, "slotted", "queued") /\ Insert("compact", <<>>)
        /\ UNCHANGED <<wpc, op, extra, fate, roomKnown, shutdown, procs, budget>>
    BY <1>5 DEF EnqueueCompact
  <2>2. \A r \in inbox' \cup extra' : Placed(r)'
    BY <1>a, <2>1, InsertPlaced
  <2>3. RoomInv'
    BY <1>a, <1>c, <2>1, <2>2 DEF RoomInv, Placed
  <2> QED
    BY <1>a, <1>c, <1>e, <2>1, <2>3, ChanceStays DEF ReaperInv, CtxDone, ReaperHarmless
<1>6. CASE t \in Compacts /\ (ClaimSlot(t) \/ RefuseCompact(t) \/ CompactReturns(t))
  <2>1. UNCHANGED <<wpc, op, extra, fate, roomKnown, shutdown, inbox, procs, budget>>
    BY <1>6, <1>d DEF ClaimSlot, RefuseCompact, CompactReturns, CtxDbFault
  <2>2. \E from, to : Step(t, from, to) /\ to # "prepared" /\ to # "stopping"
    BY <1>6 DEF ClaimSlot, RefuseCompact, CompactReturns
  <2> QED
    BY <1>a, <1>c, <1>e, <2>1, <2>2, ChanceStays, RoomsStay DEF ReaperInv, CtxDone
<1>7. CASE t = Reaper /\ ReaperStop
  <2>1. /\ UNCHANGED <<wpc, op, extra, fate, roomKnown, inbox, budget>>
        /\ Step(t, "stopping", "killing")
    BY <1>7 DEF ReaperStop
  <2> QED
    BY <1>7, <1>a, <1>c, <1>e, <2>1, ReaperSpares, RoomsStay DEF ReaperInv
<1>8. CASE t = Reaper /\ ReaperDone
  <2>1. /\ UNCHANGED <<wpc, op, extra, fate, roomKnown, shutdown, inbox, procs, budget>>
        /\ Step(t, "killing", "new")
    BY <1>8 DEF ReaperDone
  <2> QED
    BY <1>a, <1>c, <1>e, <2>1, ChanceStays, RoomsStay DEF ReaperInv, CtxDone
<1> QED
  BY <1>1, <1>2, <1>3, <1>4, <1>5, <1>6, <1>7, <1>8 DEF Continue

\* A process that dies here was signalled before.
LEMMA ExitHarmless ==
    ASSUME TypeInv, SlotInv, ReaperInv, PiExits
    PROVE  ReaperInv'
<1>1. PICK e \in DOMAIN procs : ExitPi(e)
  BY DEF PiExits
<1>2. procs[e].state # "alive" /\ UNCHANGED budget
  BY <1>1, ReliableSteps DEF ExitPi, ReaperInv
<1>3. /\ \A p \in DOMAIN procs : procs'[p].state = IF p = e THEN "dead" ELSE procs[p].state
      /\ UNCHANGED <<wpc, op, extra, fate, roomKnown, shutdown, inbox, hpc>>
  BY <1>1, ExitPiStates DEF PiExits, workerVars, handlerVars, inboxVars
<1>4. wpc \in {"store", "send", "await"} => op.proc \in DOMAIN procs
  BY Handles DEF ReaperInv, ChanceInv, SlotInv
<1> QED
  BY <1>2, <1>3, <1>4 DEF ReaperInv, Reliable, RoomInv, Placed, ReaperHarmless, ChanceInv, LastTry, CtxDone

\* What comes from outside: the reaper's check finds no operation registered.
LEMMA ArriveHarmless ==
    ASSUME RegisteredInv, SlotInv, ReaperInv, Restarts = {}, Arrive \/ Rest \/ UNCHANGED vars
    PROVE  ReaperInv'
<1> USE DEF workerVars, inboxVars, slotVars, handlerVars
<1>a. TypeInv /\ RoomInv /\ ChanceInv /\ ReaperHarmless /\ Reliable
      /\ hpc \in [Threads -> HandlerPcs] /\ fate \in [Messages -> Fates]
  BY DEF RegisteredInv, ReaperInv, TypeInv, TypeOK, WorkerTypeOK
<1>b. /\ Reaper \notin Messages \cup Stops \cup Compacts \cup {Ticker}
      /\ Prompts \subseteq Threads /\ Reaper \in Threads
      /\ Prompts \cap (Triggers \cup Stops \cup Compacts \cup {Ticker, Reaper}) = {}
  BY ThreadsAssumption, MessagesAssumption DEF Threads, Commands, Messages
<1>c. \A t, from, to : Step(t, from, to) /\ to # "prepared" =>
          \A p \in Prompts : (hpc'[p] = "prepared" => hpc[p] = "prepared")
  BY <1>a, <1>b DEF Step
<1>d. \A t, from, to : Step(t, from, to) /\ t # Reaper =>
          (hpc'[Reaper] = "stopping" => hpc[Reaper] = "stopping")
  BY <1>a, <1>b DEF Step
<1>e. ~DbFault
  BY <1>a, ReliableSteps
<1>f. UNCHANGED budget => Reliable'
  BY <1>a DEF Reliable
<1>1. ASSUME NEW p \in Prompts, SetRoomID(p)
      PROVE  ReaperInv'
  <2>1. /\ UNCHANGED <<wpc, op, extra, fate, shutdown, inbox, procs, budget>> /\ roomKnown'
        /\ Step(p, "new", "prepared")
    BY <1>1 DEF SetRoomID, Begin
  <2>2. p # Reaper
    BY <1>b DEF Messages
  <2> QED
    BY <1>a, <1>d, <1>f, <2>1, <2>2, ChanceStays, RoomsStay DEF ReaperInv, CtxDone
<1>2. ASSUME NEW t \in Triggers, EnqueueTrigger(t)
      PROVE  ReaperInv'
  <2>1. /\ Step(t, "new", "queued") /\ Insert("trigger", <<t>>) /\ t # Reaper
        /\ UNCHANGED <<wpc, op, extra, fate, roomKnown, shutdown, procs, budget>>
    BY <1>2, <1>b DEF EnqueueTrigger, Messages
  <2>2. \A r \in inbox' \cup extra' : Placed(r)'
    BY <1>a, <2>1, InsertPlaced
  <2>3. RoomInv'
    BY <1>a, <1>c, <2>1, <2>2 DEF RoomInv, Placed
  <2> QED
    BY <1>a, <1>d, <1>f, <2>1, <2>3, ChanceStays DEF ReaperInv, CtxDone, ReaperHarmless
<1>3. ASSUME NEW t \in Triggers, RefuseTrigger(t)
      PROVE  ReaperInv'
  BY <1>3, <1>e DEF RefuseTrigger, CtxDbFault
<1>4. ASSUME NEW t \in Threads, NEW to, Step(t, "new", to), to \notin {"prepared", "stopping"},
             UNCHANGED <<wpc, op, extra, fate, roomKnown, shutdown, inbox, procs, budget>>
      PROVE  ReaperInv'
  <2>1. hpc'[Reaper] = "stopping" => hpc[Reaper] = "stopping"
    BY <1>4, <1>a, <1>b DEF Step
  <2> QED
    BY <1>4, <1>a, <1>c, <1>f, <2>1, ChanceStays, RoomsStay DEF ReaperInv, CtxDone
<1>5. CASE \/ \E s \in Stops : CheckActive(s)
           \/ \E c \in Compacts : CompactActive(c)
  BY <1>4, <1>5 DEF CheckActive, CompactActive, Begin, Threads, Commands
<1>6. CASE Tick
  <2>1. /\ Step(Ticker, "new", "queued") /\ Insert("heartbeat", <<>>) /\ Ticker # Reaper
        /\ UNCHANGED <<wpc, op, extra, fate, roomKnown, shutdown, procs>>
    BY <1>6, <1>b DEF Tick
  <2>2. \A r \in inbox' \cup extra' : Placed(r)'
    BY <1>a, <2>1, InsertPlaced
  <2>3. RoomInv'
    BY <1>a, <1>c, <2>1, <2>2 DEF RoomInv, Placed
  <2>4. Reliable'
    BY <1>6, <1>a, ReliableStays DEF Tick, SpentOrNot, Faults
  <2> QED
    BY <1>a, <1>d, <2>1, <2>3, <2>4, ChanceStays DEF ReaperInv, CtxDone, ReaperHarmless
<1>7. CASE ReaperCheck
  <2>1. /\ UNCHANGED <<wpc, op, extra, fate, roomKnown, shutdown, inbox, procs, budget>>
        /\ Step(Reaper, "new", "stopping") /\ current = -1
    BY <1>7 DEF ReaperCheck
  <2>2. wpc \notin RegisteredPcs
    BY <2>1 DEF RegisteredInv, Registered
  <2> QED
    BY <1>a, <1>c, <1>f, <2>1, <2>2, ChanceStays, RoomsStay DEF ReaperInv, CtxDone
<1>8. CASE PiExits
  BY <1>8, <1>a, ExitHarmless
<1>9. CASE TimePasses \/ Shutdown
  <2>1. /\ UNCHANGED <<wpc, op, extra, fate, roomKnown, inbox, procs, hpc>>
        /\ shutdown => shutdown'
    BY <1>9 DEF TimePasses, Shutdown
  <2>2. Reliable'
    BY <1>9, <1>a, ReliableStays DEF TimePasses, Shutdown, SpentOrNot, Faults
  <2> QED
    BY <1>a, <2>1, <2>2, ChanceStays, RoomsStay DEF ReaperInv, CtxDone
<1>10. CASE Rest \/ UNCHANGED vars
  BY <1>10, <1>a, <1>f, ChanceStays, RoomsStay DEF Rest, vars, ReaperInv, CtxDone
<1> QED
  BY <1>1, <1>2, <1>3, <1>5, <1>6, <1>7, <1>8, <1>9, <1>10 DEF Arrive

\* Where pi and the database do not fail by themselves and nobody sends
\* !restart, the reaper's late stop costs no message its answer, however
\* often it strikes and whatever is preempted, aborted or shut down meanwhile.
THEOREM ReaperIsHarmless ==
    ASSUME Restarts = {}, \A kind \in {"db", "start", "reject", "death"} : Budget[kind] = 0
    PROVE  Spec => []ReaperHarmless
<1>1. Init => ReaperInv
  BY DEF Init, InboxInit, PiSlotInit, WorkerInit, ReaperInv, Reliable, RoomInv, ChanceInv, LastTry,
         ReaperHarmless, NoOp, HoldingPcs, RegisteredPcs, Threads, Commands
<1>2. RegisteredInv /\ SlotInv /\ ReaperInv /\ [Next]_vars => ReaperInv'
  <2>1. ASSUME RegisteredInv, SlotInv, ReaperInv, Work
        PROVE  ReaperInv'
    <3>1. SpentOrNot
      BY <2>1, WorkFrugal
    <3> QED
      BY <2>1, <3>1, WorkRooms, WorkChance, ReliableStays DEF ReaperInv, RegisteredInv
  <2> QED
    BY <2>1, HandlerHarmless, ArriveHarmless DEF Next
<1>3. ReaperInv => ReaperHarmless
  BY DEF ReaperInv
<1> QED
  BY <1>1, <1>2, <1>3, RegistrationCorrect, SlotInvariance, PTL DEF Spec
=============================================================================
