# A verification of opencrow in TLA+

opencrow connects a chat (Matrix, Nostr, Signal or a local socket) to a `pi`
coding agent that runs as a subprocess. Messages, trigger lines, reminders and
heartbeats go through a persistent inbox to one worker goroutine, which prompts
`pi` and sends the answer back. This directory holds TLA+ modules translated
from the Go and SQL sources, the TLC configurations that model-check them, and
theorems about them with proofs for TLAPS. `PROJECT.json` lists the components,
runs, mutants, findings, hazards and theorems, and maps each definition to the
source lines it stands for.

    tlc -workers 2 -config lifecycle.cfg MCLifecycle    # one run
    tlapm MessageProofs.tla                             # one proof module

## 1. Inventory

| component (source) | state | operations | what is hard | what makes it correct | module |
|---|---|---|---|---|---|
| Inbox store (`inbox.go`, `sqlc/`) | table `inbox`: rows in the order priority, id | Enqueue, Requeue, Dequeue, DequeueUserBatch, EnqueueHeartbeat, purge at start | a row leaves the table before it is worked on; a requeued row gets a new id | no message is lost, doubled or overtaken | Inbox, Lifecycle |
| Worker loop (`worker.go`) | running priority and cancel function, wake channel, compact channel, room, locals of the operation | Run, drainOnce, merge, processItem, sendWithRetry, requeuePreempted; Notify, Abort, Compact from other goroutines | other goroutines read and cancel an operation that is starting, ending or being requeued | preemption reaches the running operation; the worker never sleeps on work; what is accepted is settled once | Worker, Opencrow |
| Pi process slot (`worker.go`, `pi.go`, `pi_proc_*.go`) | `w.pi`, `freshStart`, the processes, the session on disk | ensurePi, stopPi, Restart, StartPi, Kill, the idle reaper | starting and killing happen outside the lock, from three goroutines | no process is leaked; a restart gives a fresh session; shutdown ends | PiSlot, Opencrow |
| Pi RPC client (`pi_rpc.go`, `pi_format.go`) | buffered events of the running process, abort sent or not, retry grace window | sendAndWait, drainEvents, Compact | events of an aborted turn, retries after an error, exit racing a buffered answer | a reply belongs to the prompt it answers; a call returns | PiRpc |
| Command dispatch (`app.go`) | none of its own | handlePrompt, handleStop, handleRestart, handleCompact | check-then-act against the worker | a command's answer is true | Opencrow |
| Heartbeat and reminders (`heartbeat.go`) | table `reminders`, ticker | tick, due reminders, re-insertion | reminders are deleted before they are enqueued | a crash costs only the reminders that were taken out | Opencrow, Lifecycle |
| Trigger pipe (`trigger_pipe.go`) | FIFO | read loop | enqueue fails or preempts | a trigger surfaces | Opencrow |
| Start-up and shutdown (`main.go`) | root context | setupShutdown, join, start | the join needs a worker that reacts; a new process meets old tables | shutdown ends, no process survives | Opencrow, Lifecycle |
| Outbox (`outbox.go`) | table `outbox` | Put, Get, evict | ids reused after a restart | a quote is the quoted message | Outbox |
| Nostr publish queue (`nostr/publish_queue.go`) | items with the relays still pending, breakers, table | enqueue, drain, publishBatch, evict, load | publishing on copies outside the lock; a timeout counted as a rejection; eviction with a failing delete | an event is owed until a relay has it or it is given up | PublishQueue, Delivery |
| Nostr backend (`nostr/backend.go`, `lastseen.go`, `dm.go`, `db.go`) | table `seen_rumors`, last-seen time, claim, reactions | receive, deduplicate, prune, handle, react, drain at the end | window of the subscription against the retention of the seen set; marked before handled | each rumor is handled once, none is missed | NostrBackend |
| Nostr media, crypto, keys | keys | encrypt, upload | byte formats | - | not modelled |
| Signal RPC client (`signal/rpc.go`) | pending calls, bounded notification channel | call, read loop, close | the consumer of notifications waits for a call whose answer the blocked read loop cannot read | a response reaches its caller; close ends | JsonRpc |
| Signal backend and daemon | subscription, child process | Run, SendMessage, Stop | deferred calls in reverse order against caller, reader and daemon | nothing is left when Run returns | SignalBackend |
| Matrix backend (`matrix/backend.go`) | active room; with `worker.go` the room of the answers and `.room_id` | invite, leave, message, reset | one goroutine per event; check, join and assignment are separate | answers follow the conversation; a bot that was removed can be invited again | MatrixBackend |
| Socket backend (`socket/backend.go`) | clients, message counter, mutex | accept, send, stop | numbering, push and recording are separate; a push has no deadline | one order for all clients; stop ends | SocketBackend |
| Conversation claim (`backend/util.go`) | claimed conversation | claim, release | the claim against a restart | one claimant | NostrBackend |
| Configuration, version | none after start | read environment | nothing | - | not modelled |
| Agent extensions (`extensions/`) | rows of `reminders`, memory files | tools run inside `pi` | writes beside the dispatcher | - | not modelled |

The components meet in the worker. Every source of work inserts a row and then
calls `Notify`; `Notify` cancels the running operation if the new row has a
higher priority and leaves a token in a channel of capacity one. `!stop` calls
the operation's cancel function, `!restart` and the reaper take the process out
of the slot under the operation's feet, `!compact` leaves a channel in the
worker and a marker row in the table. The interleavings of these calls with the
worker's own steps are the core of the program. The backends stand around it:
each has its own goroutines and tables and meets the worker only through
`HandleMessage` and `SendMessage`, so each is a module of its own with the other
side as its environment.

## 2. Modules

    Inbox     PiSlot                      variables and statements, no processes
        \     /
         Worker                           the worker goroutine, one action per step
           |
        Opencrow ------ Lifecycle         all other goroutines; with reminders, crashes
           |                |             and the processes that follow
           |             Mailbox          what Lifecycle implements
      OpencrowProofs        |             types, the slot, registration, wake-ups, the reaper
           |                |
      MessageProofs --------+             messages, !compact, preemption, Mailbox, order

    PublishQueue -> Delivery <- NostrBackend      the queue implements Delivery, the
                                                  backend composes with it
    JsonRpc - SignalBackend     Outbox - SocketBackend     MatrixBackend     PiRpc

    QueueProofs, NostrProofs, SignalProofs, SocketProofs, MatrixProofs, PiRpcProofs
                                          theorems about the module of that name

    MCOpencrow, MCLifecycle, MCPublishQueue, MCNostrBackend, MCPiRpc,
    MCSignalBackend, MCSocketBackend, MCMatrixBackend      constants for TLC

**Inbox.** The table is a set of rows `[id, src, body]`. A row carries the
messages it stands for instead of their text: `body` is the sequence of prompts
merged into a user row, the single trigger of a trigger row, and empty for
heartbeat and compact markers. Each operator is one SQL statement and so one
step: `Insert` (EnqueueInbox, behind both Enqueue and Requeue, with a new id
each time), `Remove` of the row that is first by `(priority, id)` (DequeueInbox),
`RemoveUserRows` (DequeueUserItems), and `LowestId`, the order DequeueUserBatch
sorts what `DELETE ... RETURNING` gave it.

**PiSlot.** `pi` is `w.pi` as an index into `procs`, 0 for nil. A process is
alive, signalled (Kill has begun, `done` is not closed) or dead. A session is the
set of Restart calls it is younger than, which is all that can be asked of it.
`StopPi` is the part of stopPi under the lock together with the first signal;
`Killed` is `<-p.done`. `budget` bounds the faults and external events.

**Worker.** `wpc` says where the worker is; `op` holds the locals of
`processItem`, so that leaving it is `op' = NoOp`. The steps are cut where Go
lets another goroutine in: at each critical section, SQL statement, channel
operation and call of `pi`. From the source, in order: `DrainEnds`,
`DequeueFails`, `Dequeue`, `MergeUserItems`, `Fold`, `Register` (the critical
section that stores the cancel function), `NoRoom`, `EnsurePi` / `Spawn` /
`Store` (decide under the lock, start outside it, store under it), `Send`,
`Answer` / `Reject` / `AwaitFails`, `SendAbort`, `Retry`, `RequeuePreempted`,
`FailAndKill`, `Deliver`, `TakeCompact`, `CompactEnds`, `Release` (the deferred
reset). `pi` is the environment: it answers with text, with nothing or with
HEARTBEAT_OK, rejects, or exits.

**Opencrow.** `hpc` holds the place of each other goroutine: one per prompt,
trigger line, `!stop`, `!restart` and `!compact`, the heartbeat ticker, the idle
reaper. `NotifyLock` and `NotifyWake` are separate steps, as are Abort's read of
the cancel function and its call (`holds` remembers who holds one that is still
current), the reaper's check and its kill, Restart's flag and its kill.
`SequentialBackend` says whether message handlers run one at a time (Signal,
Nostr, a socket client) or concurrently (Matrix). Of the triggers, the lines of the
pipe have one goroutine and the `Reminders` another, each of which takes one at a
time (`SameSource`).

**Lifecycle.** `Bot` is a step of Opencrow; `Dispatch` are the steps of the
reminder loop (`DueReminders` deletes all due rows with one statement,
`EnqueueReminder`, `EnqueueFails`, then `Reinsert` or `ReinsertFails`);
`NewProcess` is what NewInboxStore and wireServices make of what is left: the
tables without stale heartbeat and compact rows, the room if StartPi wrote it
(`RoomFile`), nothing in memory. `Crash` takes it at any point, `Restart` after a complete
shutdown. **Mailbox** is what that promises: each message is outside, kept,
taken, settled or lost, moves along the few ways listed there, and a crash
loses what was taken only. `Place` maps the state of Lifecycle to it.

**PublishQueue.** `qpc` is the drain goroutine's place, `epc` that of each
enqueue. The lock is one step, publishing runs relay by relay through `work`, the
lists made under the lock. `Offer` sends the next event to the relay, where it
`Arrives` or not, and the goroutine waits in `"answer"`: acceptance, rejection and
timeout are the relay's, so that a relay may have an event it counts as rejecting. `breakers` are closed, open or half-open with a failure count; `age`,
`cooldown` and `nap` count time relatively, up to the last value that makes a
difference. **Delivery** is what it promises: an event is owed until delivered
or given up, and what is owed and stored survives.

**NostrBackend.** `bpc` follows Run and its loop: subscribe from the newest seen
rumor less the margins, receive, mark, claim, handle, react in the background,
and at the end wait for reactions, flush, stop the queue. A stop has a budget of
its own (`MaxStops`), apart from what can go wrong (`MaxFaults`). The queue is the
abstract Delivery. Days pass while the bot is up or down; the relays hand out
what they store in any order.

**PiRpc.** Two processes with a bounded channel between them: the caller reads
events one by one (`agent_end`, `auto_retry_start`, compaction events, requests of
an extension, the response to a command), may be cancelled, sends one abort, opens
the grace window after an error; `pi` starts turns, ends them, retries, compacts,
asks, rejects or dies; an error of it may come without a message, and a line the
scanner cannot take ends the reading of its output while it lives (`StreamBreaks`).
What a call leaves in the channel the next one finds.

**JsonRpc, SignalBackend.** JsonRpc has the callers (`cst`), the read loop
(`reader`), the channel of notifications and the wire. A request and its answer, a
result or an error, carry besides their id the number of the call they belong to,
which the code does not have: ids route, numbers tell whether they routed right.
What is on the wire is still read after the close, until the reader meets its end or
an error of the scanner. SignalBackend adds Run (`run`) with its failing starts, its
deferred calls in reverse order, any number of other callers, Stop and the daemon,
which `exec.CommandContext` kills with the context, which may stop reading (`deaf`,
so that a write blocks under its mutex) and may survive SIGKILL (`stuck`).

**Outbox, SocketBackend.** Outbox is Put with its eviction and Get, as operators
on the rows of one conversation. In SocketBackend a goroutine per client and the
worker number a message, push it to one client after the other under the mutex
and record it, each in steps of its own; an answer to a command is pushed by the
client's goroutine and not recorded. A client may hang up or stop reading, and one
may still be accepted between the stop and `CloseListener`.

**MatrixBackend.** A goroutine per event: `invited`, `removed`, `left` and `hpc` say
where each is; `Cleanup` of the active room and the session restart that follows
it outside the lock, `OnRoomCleanup`, are two steps, and the bot's own leave comes
back as a removal. `activeRoom` decides on invites; `room` is what the worker answers
in, `roomFile` what the next process finds. Check, join and assignment of an
invite are separate steps, as are SetRoomID and Enqueue of a prompt, and the read
of the file and the store after it in resolveRoomID.

Ghost state, which no action's guard reads, is marked `(history)` where it is
declared; in Opencrow it is `fate` (what became of a message), `order` (the order
of acceptance), `op.since` (the next id when the operation registered), `resets`
and the session sets.

## 3. Runs

`u*` are prompts, `t1` a trigger or reminder, `s1` `!stop`, `r1` `!restart`, `c1`
`!compact`. All runs but `restart` and `trigger` pass.

| run | instance | checks | distinct states |
|---|---|---|---|
| conversation | u1 u2 t1 s1, a heartbeat, sequential handlers, one SQL fault | TypeOK, Conservation, PreemptionDelivered, SettledOnce | 4.1 M |
| lifecycle | u1 u2 t1, concurrent handlers; a crash, an SQL fault, a heartbeat or a shutdown; restarts after a shutdown | OrderUntilShutdown, Keeps | 1.5 M |
| progress | u1 t1 c1, one idle period, every turn ends | NoLostWakeup, CompactCallerServed, ReaperHarmless, EveryMessageSettles, CompactAnswered | 0.16 M |
| pi | u1 s1 r1, a crash of pi, a rejected prompt, a failing start, an idle period, shutdown; pi may run for ever | CancelReleases, ShutdownStops, NoLeak | 0.48 M |
| publish | an event for two relays, one for a single relay; one SQL fault or crash | TypeOK, WorkFresh, ProbesResolved, NoSleepOnWork, Delivers, RelayServed | 0.39 M |
| nostr | two rumors of two senders, six days, one stop, one crash, SQL fault or other failure | TypeOK, NothingMissed, ReactionsKept, HandledOnce | 11.6 M |
| pirpc | two calls, a channel of four events, three attempts per turn | TypeOK, OwnAnswer, TurnOver, CallReturns | 0.77 M |
| signal | two callers, three calls, two notifications for a channel of one | TypeOK, OwnResponse, NothingLeft, DaemonDeathEndsRun, StopEndsOrJams | 0.97 M |
| socket | two clients and the worker, two messages, an outbox of one, two faults | TypeOK, OneOrder, QuoteTrueAtFirst, StopEnds | 0.31 M |
| matrix | two rooms, a prompt in each, a !restart, two membership events, one crash | TypeOK, NeverBehind, LeftRoomFreed | 11.2 M |
| restart, trigger | see findings | NextMessageFresh, PreemptedTriggerKept, violated | - |

What the properties say:

- **Conservation**: a message that was accepted and not settled is carried by
  exactly one row (in the table, in the hands of the merge, or the worker's),
  once. **SettledOnce**: its fate is final.
- **OrderUntilShutdown**: within a merged row and between rows, prompts keep the
  order in which Enqueue accepted them, through crashes; not across a shutdown,
  which requeues the prompt it interrupts behind later ones.
- **Keeps**: Lifecycle implements Mailbox.
- **NoLostWakeup**: in its select with rows in the table and a room, the worker
  has the token or somebody is on the way to send it.
- **PreemptionDelivered**: a row enqueued since the running operation
  registered, with a higher priority and through Notify, finds it cancelled.
- **CompactCallerServed**, **CompactAnswered**: row and channel of `!compact` stay
  together, and the caller is answered.
- **ReaperHarmless**: the reaper's late kill costs no message its answer; the
  retry is enough.
- **EveryMessageSettles**: every accepted message comes to something once there
  is a room.
- **CancelReleases**: a cancelled operation ends even if `pi` would run for ever.
- **ShutdownStops**: shutdown ends. **NoLeak**: a live process is in the slot, about
  to be stored, or waited for in Kill; at the end the slot is empty.
- **Delivers**: PublishQueue implements Delivery. **RelayServed**: no breaker and no
  nap keeps a pending event from a reachable relay for good. **WorkFresh**: what
  is published outside the lock is still in the queue and pending there.
  **ProbesResolved**: a half-open breaker has its one probe under way.
  **NoSleepOnWork**: without a timer the drain goroutine only sleeps on nothing.
- **HandledOnce**: no rumor is handled twice while its mark is kept.
  **NothingMissed**: when the relays have handed over what matches the
  subscription, every rumor of the conversation has been handled, with the
  exceptions the code makes (marked and then crashed; a first start).
  **ReactionsKept**: unless something fails, stops and starts lose no reaction, and
  Run returns with the reaction to every handled rumor in the table or settled: the
  drain goroutine outlives the reactions, and these outlive the cancelled context.
- **OwnAnswer**, **TurnOver**: a call that finds the channel clean, is not
  cancelled and meets no error without a message reports the end of its own turn
  and leaves nothing for the next; if the process exits, it may report an error its
  turn had recovered from.
  **CallReturns**: each call returns.
- **OwnResponse**: a caller gets the daemon's answer to the call it made, or an
  error, although calls are given up, their requests fail half way and their
  answers come late. **NothingLeft**: after Run there is no daemon, unless it
  survived SIGKILL, no client and no waiting caller. **DaemonDeathEndsRun**,
  **StopEndsOrJams**: Run ends when the daemon dies or Stop is called, unless the
  read loop is stuck on a full channel.
- **OneOrder**: all clients of the socket see one order. **QuoteTrueAtFirst**: until
  the first restart a quote is the quoted text, or that it is unavailable.
  **StopEnds**: the bot stops, unless a client does not read.
- **NeverBehind**: a turn answers in the room of its last prompt or of one that
  came later. **LeftRoomFreed**: once all events are handled, the active room is
  one the bot is in, unless a clean-up was overtaken by an invite or a message.

Each property has a mutant: a definition changed as a plausible bug would change
it, under which the same run fails. They are the operators marked `Mutant` in
the modules, each standing before the definition it would replace.

**Bounds.** Every bound is a constant: `Budget` and `MaxFaults` (how often faults
and external events happen, never when), `MaxEvents`, `MaxCrashes`, `MaxMessages`,
`MaxCalls`, `MaxNotes`, `MaxStops`, `Calls`, `MaxTries`, `Days`. Of the calls of
Signal's client, `Reserved` keeps back those that Run itself will make, so that the
bound never stops Run.
Two prompts are enough to merge, to reorder and to have one arrive at any step of
the other; one `!stop`, `!restart`, reaper period, crash and fault each meet every
step of an operation. The restart after a complete shutdown is free, so that a
faulty process is followed by another. In `publish` two relays give an event that
one relay takes and the other does not, and a threshold of two failures a breaker
that opens, cools down and is probed. In `nostr` six days are a window, a margin
and a retention after another, with a silence longer than all of them. In
`pirpc` the second call meets what the first left, and four events are an error,
its retry, a second error and the retry that follows.
In `socket` a client sees two messages in two orders if there are any, and an
outbox of one evicts at the second. In `matrix` two rooms can both be joined, and
two events are a removal and a new invite. A trigger line and a
reminder, whose goroutines run side by side, are never in one run, which would
leave no room for the rest: that is left to the theorems, which hold for any number
of both. `Permutations` of the prompts is sound
where it is used: no prompt is named in the specification, and those runs check
no liveness. The theorems below remove the bounds for every property of
a passing run that is not liveness.
Deadlock is checked in `conversation`, `progress`, `pi` and `publish`; the other
models reach states in which nothing more can come, since their bounds are spent
and the program has ended.

**Fairness.** Only what the program's own scheduling gives, and named after it:

- `SchedulerFairness` (Opencrow): the Go scheduler runs every goroutine that can
  run, and Kill's SIGKILL makes a signalled process exit (`pi.go:89-121`).
  `TurnFairness` adds that each call of pi ends: what `progress` needs and what
  the code assumes of `pi` where nobody cancels. `AbortFairness` is weaker: a turn
  may run for ever, but it keeps emitting events and ends after the abort command;
  `pi` is checked under it. `Rest` is the only stuttering step: it is enabled where
  every goroutine rests, so that a goroutine that waits for ever is a deadlock.
- PublishQueue: its goroutine runs, time passes, the service manager restarts the
  bot, and a relay that is tried for ever is reachable now and then (SF), without
  which nothing can be served.
- PiRpc: the worker reads; `pi` reads its input, ends what it begins (SF, since a
  full pipe holds it up) and decides what follows an error.
- SignalBackend: the goroutines run, and the context kills the daemon. That the
  daemon answers is not assumed.
- SocketBackend: the goroutines run; SF for those that wait for the mutex, which
  Go's starvation mode hands to the longest waiter. That a client reads is not
  assumed.

The arrival of messages, crashes, stops and shutdown are never fair.

## 4. Findings

- **restart** (`worker.go:531`, `app.go:95`): `!restart` while ensurePi is
  starting a process finds the slot empty, kills nothing, and the process
  started with `--continue` serves the next message in the old session.
- **trigger** (`worker.go:434-442`, `heartbeat.go:159`): "Preempted items are
  requeued" holds only if the aborted turn ends in an error. If `pi` acknowledges
  the abort with agent_end and no text, the trigger's reply is suppressed and it
  is gone.

Met while modelling; a property is stated up to these, and says so:

- An operation that `!stop` cancels and that ends in an error is requeued, and
  nobody sends the token "the new Notify" would (`worker.go:455-457`); the same
  after a failing Dequeue. `NoLostWakeup` is checked and proved without both.
- `!stop` and shutdown put the interrupted prompt behind later ones.
- A row that arrives between Dequeue and Register does not preempt.
- With a silent `pi` the join "that cannot hang" hangs (`pi_rpc.go:244`,
  `main.go:112-113`).
- "Returning on the first error agent_end is wrong twice over", says
  `pi_rpc.go:291-298`, and commits the error until a retry rescinds it. It commits
  its text: an error without one leaves `finalErr` empty, the call returns at once as
  if its turn had ended well (`pi_rpc.go:421`), and the retry is left for the next.
- After a cancelled call, what its turn still emits is read as the next call's.
- When `pi` retries, succeeds and exits within the grace window, graceDrain may
  see the exit before the retry it has in its channel (`pi_rpc.go:356`) and report
  the error. A channel of two events, the first bound of the run, is too short for
  that; the attempt to prove `OwnAnswer` for every capacity found it.
- A rumor is answered again after a silence longer than the seven days its mark
  is kept, if the relay repeats it late; a crash after the mark loses it.
- signal-cli gets SIGKILL from the context before stopDaemon sends the SIGTERM
  that should let it flush its state (`daemon.go:58`, `156-157`): `ContextKills` is
  enabled before `Terminate`.
- A daemon that does not read its socket blocks the writer of a request in Encode,
  which has no deadline, and with it every other caller (`rpc.go:114-116`); only the
  close ends it.
- A line that the scanner cannot take ends the read loop for good: pi's output
  (`pi_rpc.go:251`) or the daemon's (`rpc.go:191`) is not heard any more although the
  process lives.
- The bot's own leave comes back as a removal and cleans up a second time
  (`matrix/backend.go:558`), by then perhaps the session of another room.
- A full notification channel stops the read loop while Run waits for a response
  or for the read loop itself.
- After a restart the socket backend numbers from `local-1` again, over the rows
  of older messages: quotes are wrong, although "reply context survives bot
  restarts" (`outbox.go:16-17`). `QuoteTrue`, of which `QuoteTrueAtFirst` is the
  part that holds, fails after a crash.
- A client of the socket that does not read holds the mutex of push, and with it
  the worker and the join.
- After a restart resolveRoomID may store the room of the file over one that a
  message has just set (`worker.go:595`): that message is answered in the old room.
  `NeverBehind` fails without its exception `overwritten`.
- Two invites pass the check for an active room together; an invite or a message
  that is still being handled makes a room active that the bot has left.
- For as long as Kill takes, two `pi` processes can run on one session directory;
  an answer to a heartbeat resets the idle timer (`worker.go:376-378`) although
  `docs/heartbeat.md:28` says that heartbeats do not.

## 5. Refinements

`Keeps` (lifecycle) and `Delivers` (publish) check, step by step, that the
detailed module implements the abstract one under the mapping in its last
section: `Place` derives where a message is from the tables, the worker's and the
dispatcher's hands and its fate; `Fate` and `InMemory(rows)` do so for an event.
NostrBackend then uses Delivery in the place of the queue, so that its shutdown is
checked against the promise and not the implementation.

## 6. Theorems

`tlapm` proves all of them for every value of the constants, from the named
assumptions of the modules only: the kinds of goroutines are disjoint, `Loop`,
`NoCaller` and their like are none of them, budgets, capacities and lengths of time
are naturals, Run is one of the callers of Signal's client, and what the Go
constants fix stays fixed (`nostr`: the safety margin
is at least the window, and the model runs longer than one window). The proofs
hold for any number of messages, handlers, relays, clients, rooms and calls and for
unbounded faults.

| theorem | inductive invariant |
|---|---|
| **OpencrowProofs** | |
| `TypeCorrect` | `TypeInv`: TypeOK, and a worker that waits for compact has a caller to hand the result to (TypeOK alone would let `answered` take in `NoCaller`) |
| `RegistrationCorrect` | `RegisteredInv`: a cancel function exists exactly between the two critical sections of processItem, and only there is an operation cancelled or a cancel function held |
| `NoLostWakeupWithoutStop` | `AwakeInv` on top of it; assumes no `!stop` and no SQL faults. Without `!stop` only Notify cancels, and whoever cancels is still on the way to send the token when the row is requeued |
| `ReaperIsHarmless` | `ReaperInv` on top of RegisteredInv and SlotInv: while an operation is on its retry, or holds a process that was signalled, the reaper is not between its check and its stop (`ChanceInv`), so that nothing hits the second process; and no user row comes without a room (`RoomInv`). Assumes no `!restart`, no fault of `pi` and no SQL fault, since two things together do cost a message; `!stop`, preemption and shutdown are allowed |
| `NoProcessLeaked` | `SlotInv`: a signalled process is the victim of a caller that is in Kill now; the process in the slot, and the one the worker has started and not stored, is not signalled; and while the worker starts one the slot holds no live process, so that storing overwrites nothing that runs |
| **MessageProofs** | |
| `MessagesConserved`, `MessagesSettledOnce` | `MessagesInv`: `RowsInv` (ids are unique and below nextId, the row in hand is nowhere else, what a row carries fits its source) makes moving, joining and copying rows harmless; `ConservationInv` adds that a message not yet accepted has no fate |
| `CompactCallersServed` | `ChannelInv`: MessagesInv, `TakingInv` (the compact row about to be answered has left the table) and `CompactInv` (where the caller in the slot is) |
| `PreemptionsDelivered` | `DeliveryInv`: while it holds messages an operation runs with the priority its requeued row gets; with RowsInv, ids below nextId at the registration; with Conservation, a carried message has been enqueued, so only Notify can make its row notified |
| `BotKeepsMessages` | `KeepsInv`: MessagesInv and `DueInv` (a reminder in its table or in the hands of the dispatcher is not in both and has not been enqueued). Each step of the worker, a handler or the dispatcher moves the messages it carries one way of Mailbox, all together; `NewProcess` is a Crash of Mailbox |
| `ConversationInOrder` | `LifeOrderInv`: until the first shutdown UserOrder, and that every prompt in a row has a place in `order`, each of which is used once (`OrderInv`); and that no user row is requeued then, because its operation is not cancelled (`CalmUser`). Assumes no `!stop`, which does requeue a prompt behind later ones |
| **QueueProofs** | |
| `QueueTypeCorrect` | TypeOK with `Stages`: at which steps the drain goroutine has a relay, a list and probes in hand |
| `WorkStaysFresh` | `ListInv`: every list, and what is left of the current one, names events once that are in memory and pending at its relay |
| `ProbesAlwaysResolved`, `NeverSleepsOnWork` | themselves, on top of Stages |
| `QueueDelivers` | `DeliveryInv`: ListInv and `FateInv` (an event with a fate was handed in, one that was given up is out of memory, a process that is down has none) |
| **NostrProofs** | |
| `NostrTypeCorrect` | TypeOK with `DayInv`: nothing is dated after today |
| `RumorsHandledOnce` | `OnceInv`: the row of a rumor is as young as its last handling, and the rumor in the loop is marked today and old enough to be handled |
| `ShutdownKeepsReactions` | `CleanInv` (the queue runs as long as the loop or a reaction needs it, and nothing reacts once it is flushed) and `KeptInv` (unless something failed, what is owed is stored and nothing is lost), for any number of stops |
| `NothingIsMissed` | `LoopInv` (a marked rumor is handled, excused or in the loop) and `ReachInv` (the subscription, or the one that follows, reaches back to every rumor still open), on the arithmetic of window and margin in `SinceBounds` |
| **SignalProofs** | |
| `ResponsesAreOwn` | `AnswerInv`: an id stands for one call only, in the table of pending calls, in the requests the daemon has read, in the answers on the wire and in what callers got, so that what is routed by id reaches the call it was made for; for any set of callers |
| `NothingIsLeft`, `SignalTypeCorrect` | `EndInv`: at each of Run's places, which of connection, read loop, subscription and daemon there can be, early returns of Run included; callers only while there is a connection |
| **SocketProofs** | |
| `SocketTypeCorrect` | with `HandInv`: who writes, records or quotes has a message |
| `ClientsSeeOneOrder` | `OrderInv`: who writes has the mutex, a message still to be written has been sent to nobody, one being written is the last its readers have |
| `QuotesTrueAtFirst` | `IdInv`: until the first restart an id in the outbox, on a screen or in hand names one text |
| **MatrixProofs** | |
| `MatrixTypeCorrect`, `LeftRoomsFreed` | `FreedInv`: each room that is or becomes the active one is one the bot is in, one whose removal is still to be handled, or overtaken |
| `TurnsNeverBehind` | `BehindInv`: the worker's room is that of the last prompt unless overwritten, and no prompt of a turn has set a room while the one of the file is about to be taken; NeverBehind in terms of positions in the log |
| **PiRpcProofs** | |
| `RpcTypeCorrect` | TypeOK, and a call under way has a number |
| `AnswersAreOwn`, `TurnsAreOver` | `Inv`: `MineInv`, for a `Regular` call (on a clean channel, not cancelled, its errors with messages), says where its command or the answer to pi's request is (`InputInv`), in which order events can lie in the channel (`OrderInv`: between two ends of attempts there is a retry or compaction, nothing follows the last end), what a working or failed pi has left there (`ProgressInv`) and what they tell of the turn (`OutcomeInv`); `UiInv` keeps old requests of extensions out of a clean channel; `PastInv` keeps what a call reported true once pi is idle |

What proving changed in the models. `PublishQueue` published and took the answer
in one step, in which no crash could separate a relay's copy from its
acknowledgement; it is now `Offer`, `Arrives` and the answer. The CASE arms of
`Fate` and `Place` overlapped, which TLC resolves by order and the logic leaves
open; both are chains of IF. `OwnAnswer` was too strong (section 4), and the run
`pirpc` too small to say so.

Recursion over the lists of the queue is proved about by taking a shortest prefix
that violates the claim (`QueueProofs`), since the library's induction theorems
take an operator the provers cannot instantiate.

Only model-checked: the liveness properties (`EveryMessageSettles`,
`CompactAnswered`, `CancelReleases`, `ShutdownStops`, `RelayServed`, `CallReturns`,
`DaemonDeathEndsRun`, `StopEndsOrJams`, `StopEnds`), since the prover has no ENABLED;
and the two violations, which are counterexamples. Three theorems assume away
the traffic that does break the property: `NoLostWakeupWithoutStop`,
`ReaperIsHarmless` and `ConversationInOrder`.

## 7. Not modelled, and the plan

Not modelled for good: formatting, parsing, encryption, uploads, logins,
configuration, skills and file extraction from replies; they hold no state that
interleaves. The extensions run inside `pi`. Of the partly modelled components,
these parts are left out: creating the FIFO and migrating databases (file-system
I/O at the start), the profile and relay lists of Nostr (published through the
queue like any event), decoding of Signal envelopes, sending and media of Matrix
(calls of its library), and the typing events, deltas and replayed status of the
socket, which carry no number. Reply delivery of a backend under a cancelled
context is nondeterministic in Worker (`unsent`), since backends differ.

Proofs to follow: what liveness rests on. For `ShutdownStops` and `CancelReleases`
that is the safety half, a variant: the worker under a cancelled context goes
through its steps towards `release` and never back. For `EveryMessageSettles` it
is that a row is overtaken only by rows of a higher priority. And the action
properties that separate the violations from what does hold: which sessions
`NextMessageFresh` can meet, and what a preempted trigger can still come to.
