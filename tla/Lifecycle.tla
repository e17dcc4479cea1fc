----------------------------- MODULE Lifecycle ------------------------------
(***************************************************************************)
(* The bot across restarts (main.go, inbox.go, heartbeat.go): what the     *)
(* database keeps and what a process loses that ends between two steps.    *)
(* The tables are the inbox and the reminders, which the dispatcher turns  *)
(* into trigger rows: it deletes all due rows with one statement, enqueues *)
(* them one by one, and puts a row back whose enqueue failed.              *)
(*                                                                         *)
(* A crash and the restart that follows it are one step: nothing of the    *)
(* program happens in between.                                             *)
(***************************************************************************)
EXTENDS Opencrow, Functions

CONSTANT
    MaxFaults   \* how many crashes and faults of the Budget there may be
                \* altogether

ASSUME FaultsAssumption == MaxFaults \in Nat

VARIABLES
    reminders,  \* the rows of the reminders table, a subset of Reminders
    due,        \* what the dispatcher has deleted and not enqueued yet
    roomFile,   \* .room_id has been written
    crashes     \* how often the process ended so far

lifeVars == <<reminders, due, roomFile, crashes>>
allVars == <<vars, lifeVars>>

LifecycleInit ==
    /\ Init
    /\ reminders = Reminders /\ due = {}
    /\ roomFile = roomKnown
    /\ crashes = 0
-----------------------------------------------------------------------------
(* Reminders.                                                              *)

\* DueReminders, a DELETE ... RETURNING, under the root context.  A reminder
\* is due at any time.
DueReminders ==
    /\ ~shutdown /\ due = {} /\ AllIdle(Reminders)
    /\ \E ts \in SUBSET reminders \ {{}} :
          /\ reminders' = reminders \ ts
          /\ due' = ts
    /\ UNCHANGED <<vars, roomFile, crashes>>

\* Enqueue of the next due reminder ...
EnqueueReminder(t) ==
    /\ t \in due
    /\ EnqueueTrigger(t)
    /\ due' = due \ {t}
    /\ UNCHANGED <<reminders, roomFile, crashes>>

\* ... or its failure ...
EnqueueFails(t) ==
    /\ t \in due /\ AllIdle(Reminders)
    /\ Step(t, "new", "prepared")
    /\ CtxDbFault
    /\ UNCHANGED <<inboxVars, slotVars, idle, workerVars, holds, order, lifeVars>>

\* ... after which the row is inserted again, for the next pass.
Reinsert(t) ==
    /\ t \in due
    /\ Step(t, "prepared", "new")
    /\ ~shutdown
    /\ reminders' = reminders \cup {t} /\ due' = due \ {t}
    /\ UNCHANGED <<inboxVars, slotVars, idle, budget, workerVars, holds, order,
                   roomFile, crashes>>

\* "reminder: re-insert failed, reminder lost".
ReinsertFails(t) ==
    /\ t \in due
    /\ Step(t, "prepared", "done")
    /\ CtxDbFault
    /\ due' = due \ {t}
    /\ fate' = [fate EXCEPT ![t] = "dropped"]
    /\ UNCHANGED <<inboxVars, slotVars, idle, holds, order,
                   wpc, op, extra, current, wake, slot, answered, roomKnown, shutdown,
                   reminders, roomFile, crashes>>

Dispatch ==
    \/ DueReminders
    \/ \E t \in Reminders : EnqueueReminder(t) \/ EnqueueFails(t) \/ Reinsert(t)
                                \/ ReinsertFails(t)
-----------------------------------------------------------------------------
(* Crash and restart.                                                      *)

\* Mutant: the purge also takes the triggers.
KeptUserRows == {r \in inbox : r.src = "user"}

\* NewInboxStore: DeleteStaleItems.
KeptRows == {r \in inbox : r.src \notin {"heartbeat", "compact"}}

\* Messages that only the memory of the process had: prompts that were not
\* enqueued yet, and what the worker and the dispatcher had taken out.
InHand == {m \in Messages : /\ fate[m] = "none"
                            /\ hpc[m] # "new" \/ m \in due
                            /\ \A r \in inbox : m \notin Carries(r)}

\* The process ends and a new one starts: commands in progress end, the loops
\* start again.  Pdeathsig takes pi down.
NewProcess ==
    /\ inbox' = KeptRows
    /\ fate' = [m \in Messages |-> IF m \in InHand THEN "dropped" ELSE fate[m]]
    /\ hpc' = [t \in Threads |->
                  IF t \in {Ticker, Reaper} \/ (hpc[t] = "new" /\ t \notin InHand)
                  THEN "new" ELSE "done"]
    /\ due' = {}
    /\ roomKnown' = roomFile
    /\ wpc' = "drain" /\ op' = NoOp /\ extra' = {} /\ current' = -1
    /\ wake' = FALSE /\ slot' = NoCaller /\ answered' = {} /\ shutdown' = FALSE
    /\ procs' = [p \in DOMAIN procs |-> [procs[p] EXCEPT !.state = "dead"]]
    /\ pi' = 0 /\ freshStart' = FALSE
    /\ victim' = [t \in Stoppers |-> 0]
    /\ holds' = {} /\ idle' = FALSE
    /\ UNCHANGED <<nextId, session, resets, budget, order, reminders, roomFile>>

\* Between any two steps ...
Crash == crashes' = crashes + 1 /\ NewProcess

\* ... or when the worker has returned, which main waits for.
Restart == wpc = "stopped" /\ NewProcess /\ UNCHANGED crashes

\* StartPi writes .room_id before it starts the process, and may fail before
\* or after that.
RoomFile ==
    LET starting == wpc = "spawn" /\ wpc' # "spawn" /\ ~CtxDone IN
    \/ starting /\ roomFile' = TRUE
    \/ ~(starting /\ wpc' = "store") /\ UNCHANGED roomFile

\* The rest of the bot.  Reminders arrive through the dispatcher only.
Bot ==
    /\ Next
    /\ \A t \in Reminders : hpc[t] = "new" => hpc'[t] = "new"
    /\ RoomFile
    /\ UNCHANGED <<reminders, due, crashes>>

\* Bound: crashes and faults together.
Spent == crashes + FoldFunction(+, 0, [f \in Faults |-> Budget[f] - budget[f]])

LifecycleNext ==
    /\ Bot \/ Dispatch \/ Crash \/ Restart
    /\ Spent' <= MaxFaults

LifecycleSpec == LifecycleInit /\ [][LifecycleNext]_allVars
-----------------------------------------------------------------------------
(* Properties.                                                             *)

InTable(m) == m \in reminders \/ \E r \in inbox : m \in Carries(r)

Held(m) == m \in due \/ \E r \in Live \ inbox : m \in Carries(r)

Place(m) ==
    IF fate[m] # "none" THEN IF fate[m] = "dropped" THEN "lost" ELSE "settled"
    ELSE IF InTable(m) THEN IF Held(m) THEN "doubled" ELSE "kept"
    ELSE IF Held(m) THEN "taken" ELSE "outside"

M == INSTANCE Mailbox WITH place <- [m \in Messages |-> Place(m)]

\* The inbox and the reminders keep what they were given through crashes and
\* failing statements: only what was in the hands of a goroutine is lost, and
\* nothing is in two places.
Keeps == M!Spec

\* The conversation keeps its order through crashes too.  (A shutdown puts the
\* prompt it interrupts behind those that came after it.)
OrderUntilShutdown == budget["shutdown"] = Budget["shutdown"] => UserOrder
=============================================================================
