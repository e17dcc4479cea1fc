---------------------------- MODULE PublishQueue ----------------------------
(***************************************************************************)
(* The outbox of the Nostr backend (nostr/publish_queue.go).  enqueue puts *)
(* a signed event in memory and in SQLite; one goroutine publishes what is *)
(* pending, relay by relay, as far as each relay's circuit breaker allows. *)
(* A delivered event is deleted from the database and offered to the other *)
(* relays for a while; one that nobody takes is dropped when it is too old *)
(* or every relay turned it down.                                          *)
(*                                                                         *)
(* Time is relative, so that it may pass for ever: ages of events, what is *)
(* left of a cooldown and of a nap, each up to the last value that makes a *)
(* difference.  The relays are the environment.                            *)
(***************************************************************************)
EXTENDS Naturals, Sequences, FiniteSets

CONSTANTS
    Events,             \* events handed to enqueue
    Relays, NoRelay,
    Targets,            \* the relays of each event
    RejectThreshold, BreakerThreshold,
    BaseCooldown, MaxCooldown, TtlDelivered, TtlUndelivered,
    MaxFaults           \* failing SQL statements and crashes

ASSUME QueueAssumption ==
    /\ NoRelay \notin Relays
    /\ Targets \in [Events -> (SUBSET Relays) \ {{}}]
    /\ RejectThreshold \in Nat \ {0} /\ BreakerThreshold \in Nat \ {0}
    /\ BaseCooldown \in Nat \ {0} /\ MaxCooldown \in Nat /\ BaseCooldown <= MaxCooldown
    /\ TtlDelivered \in Nat /\ TtlUndelivered \in Nat /\ TtlDelivered <= TtlUndelivered
    /\ MaxFaults \in Nat

VARIABLES
    rows,       \* the publish_queue table: events by ascending id
    age,        \* time since CreatedAt
    queue,      \* q.items
    item,       \* the fields of each publishItem
    breakers,   \* q.breakers; an absent breaker is a fresh one
    wake,       \* a token in q.wake
    qpc,        \* where the drain goroutine is
    work, probes,       \* what collectWorkLocked returned, less what is done
    relay, batch,       \* publishBatch: the relay and the items to go
    timer,      \* what is left of the nap
    cancelled,  \* ctx of the drain goroutine
    epc,        \* where the goroutine is that enqueues each event
    faults,     \* faults so far
    taken,      \* the events some relay has (history)
    gaveUp      \* events dropped before any relay had them (history)

loopVars == <<work, probes, relay, batch, timer>>
history == <<taken, gaveUp>>
vars == <<rows, age, queue, item, breakers, wake, qpc, loopVars, cancelled,
          epc, faults, history>>

States == {"closed", "open", "halfOpen"}
Fresh == [state |-> "closed", failures |-> 0, cooldown |-> BaseCooldown, due |-> 0]
Breakers == [state : States, failures : 0..BreakerThreshold, cooldown : 0..MaxCooldown,
             due : 0..MaxCooldown]

Items == [stored : BOOLEAN, delivered : BOOLEAN, pending : SUBSET Relays,
        rejects : [Relays -> 0..RejectThreshold]]

\* A publishItem as enqueue and load make it; stored is dbID # 0.
NewItem(e, stored) == [stored |-> stored, delivered |-> FALSE, pending |-> Targets[e],
                       rejects |-> [r \in Relays |-> 0]]

InMemory(s) == {s[i] : i \in DOMAIN s}

\* What of s is in es, in the order of s.
Among(s, es) ==
    LET kept[n \in 0..Len(s)] ==
            IF n = 0 THEN <<>>
            ELSE IF s[n] \in es THEN Append(kept[n - 1], s[n]) ELSE kept[n - 1]
    IN kept[Len(s)]

NoWork == [r \in Relays |-> <<>>]
Pcs == {"down", "drain", "relays", "publish", "answer", "decide", "nap", "idle"}

TypeOK ==
    /\ rows \in Seq(Events) /\ queue \in Seq(Events)
    /\ age \in [Events -> 0..TtlUndelivered + 1]
    /\ item \in [Events -> Items]
    /\ breakers \in [Relays -> Breakers]
    /\ wake \in BOOLEAN /\ cancelled \in BOOLEAN
    /\ qpc \in Pcs
    /\ work \in [Relays -> Seq(Events)] /\ probes \subseteq Relays
    /\ relay \in Relays \cup {NoRelay} /\ batch \in Seq(Events)
    /\ timer \in 0..MaxCooldown
    /\ epc \in [Events -> {"new", "unlocked", "done"}]
    /\ faults \in 0..MaxFaults
    /\ taken \subseteq Events /\ gaveUp \subseteq Events

Init ==
    /\ rows = <<>> /\ queue = <<>>
    /\ age = [e \in Events |-> 0]
    /\ item = [e \in Events |-> NewItem(e, FALSE)]
    /\ breakers = [r \in Relays |-> Fresh]
    /\ wake = FALSE /\ cancelled = FALSE
    /\ qpc = "drain"
    /\ work = NoWork /\ probes = {} /\ relay = NoRelay /\ batch = <<>> /\ timer = 0
    /\ epc = [e \in Events |-> "new"]
    /\ faults = 0
    /\ taken = {} /\ gaveUp = {}

Up == qpc # "down"
-----------------------------------------------------------------------------
(* SQL statements.                                                         *)

\* n statements fail, of which the budget allows MaxFaults in all; under a
\* cancelled context every statement fails.
Fail(n) == faults + n <= MaxFaults /\ faults' = faults + n

\* `dels` are rows to delete, one statement each; `gone` the ones that work.
Deletes(dels, gone) ==
    IF cancelled THEN gone = {} /\ UNCHANGED faults
    ELSE Fail(Cardinality(dels \ gone))

Without(s, es) == Among(s, Events \ es)
-----------------------------------------------------------------------------
(* enqueue, which any goroutine calls: one critical section, then signal.  *)

Enqueue(e) ==
    /\ Up /\ epc[e] = "new"
    /\ epc' = [epc EXCEPT ![e] = "unlocked"]
    /\ queue' = Append(queue, e)
    /\ \/ /\ rows' = Append(rows, e)
          /\ item' = [item EXCEPT ![e] = NewItem(e, TRUE)]
          /\ UNCHANGED faults
       \/ /\ Fail(1)
          /\ item' = [item EXCEPT ![e] = NewItem(e, FALSE)]
          /\ UNCHANGED rows
    /\ UNCHANGED <<age, breakers, wake, qpc, loopVars, cancelled, history>>

Signal(e) ==
    /\ Up /\ epc[e] = "unlocked"
    /\ epc' = [epc EXCEPT ![e] = "done"]
    /\ wake' = TRUE
    /\ UNCHANGED <<rows, age, queue, item, breakers, qpc, loopVars, cancelled, faults, history>>
-----------------------------------------------------------------------------
(* evictLocked.                                                            *)

Finished(e) == item[e].pending = {}
Straggling(e) == ~Finished(e) /\ item[e].delivered /\ age[e] > TtlDelivered
Expired(e) == ~Finished(e) /\ ~item[e].delivered /\ age[e] > TtlUndelivered

\* The rows it deletes, and the items it drops when the rows in `gone` were
\* deleted; an expired item is kept when its row was not.
ToDelete == {e \in InMemory(queue) : item[e].stored /\ (Finished(e) \/ Expired(e))}
Dropped(gone) ==
    {e \in InMemory(queue) : Finished(e) \/ Straggling(e)
                                \/ (Expired(e) /\ (item[e].stored => e \in gone))}

Evict(gone) ==
    /\ Deletes(ToDelete, gone)
    /\ queue' = Without(queue, Dropped(gone))
    /\ rows' = Without(rows, gone)
    /\ gaveUp' = gaveUp \cup (Dropped(gone) \ taken)
    /\ UNCHANGED taken
-----------------------------------------------------------------------------
(* The circuit breaker.                                                    *)

Allow(r) ==
    CASE breakers[r].state = "closed" -> "all"
      [] breakers[r].state = "open" /\ breakers[r].due = 0 -> "probe"
      [] OTHER -> "deny"

\* The cooldown and the next probe of a closed breaker are not read.
OnSuccess(r) == breakers' = [breakers EXCEPT ![r] = Fresh]

Smaller(a, b) == IF a < b THEN a ELSE b

\* Mutant: the cooldown doubles without a limit.
OnFailureUnlimited(r) ==
    breakers' = [breakers EXCEPT ![r] =
        IF @.state = "closed" /\ @.failures + 1 < BreakerThreshold
        THEN [@ EXCEPT !.failures = @ + 1]
        ELSE LET cooldown == IF @.state = "closed" THEN BaseCooldown ELSE @.cooldown * 2
             IN [state |-> "open", failures |-> BreakerThreshold, cooldown |-> cooldown,
                 due |-> cooldown]]

\* failures counts on while the breaker is open, to no effect.
OnFailure(r) ==
    LET b == breakers[r]
        failures == Smaller(b.failures + 1, BreakerThreshold)
        trips == b.state = "halfOpen" \/ failures = BreakerThreshold
        cooldown == IF b.state = "closed" THEN BaseCooldown
                    ELSE Smaller(b.cooldown * 2, MaxCooldown)
    IN breakers' = [breakers EXCEPT ![r] =
          IF trips THEN [state |-> "open", failures |-> failures, cooldown |-> cooldown,
                         due |-> cooldown]
          ELSE [b EXCEPT !.failures = failures]]
-----------------------------------------------------------------------------
(* drainOnce.                                                              *)

\* Mutant: relays that are through with an item count as pending.
PendingAtStale(q, r) == Among(q, {e \in Events : r \in Targets[e]})

\* collectWorkLocked: everything pending for a closed breaker, the first
\* item for one that may be probed, which allow turns half-open.
PendingAt(q, r) == Among(q, {e \in Events : r \in item[e].pending})

Collect(q) ==
    LET some == {r \in Relays : PendingAt(q, r) # <<>>}
        probed == {r \in some : Allow(r) = "probe"}
    IN /\ work' = [r \in Relays |->
             IF Allow(r) = "all" THEN PendingAt(q, r)
             ELSE IF r \in probed THEN <<Head(PendingAt(q, r))>> ELSE <<>>]
       /\ probes' = probed
       /\ breakers' = [r \in Relays |->
             IF r \in probed THEN [breakers[r] EXCEPT !.state = "halfOpen"] ELSE breakers[r]]

StartPass ==
    /\ qpc = "drain"
    /\ \E gone \in SUBSET ToDelete : Evict(gone)
    /\ Collect(queue')
    /\ qpc' = "relays"
    /\ UNCHANGED <<age, item, wake, relay, batch, timer, cancelled, epc>>

\* EnsureRelay.
Connect(r) ==
    /\ qpc = "relays" /\ ~cancelled /\ work[r] # <<>>
    /\ relay' = r /\ batch' = work[r]
    /\ work' = [work EXCEPT ![r] = <<>>]
    /\ qpc' = "publish"
    /\ UNCHANGED <<rows, age, queue, item, breakers, wake, probes, timer, cancelled,
                   epc, faults, history>>

ConnectFails(r) ==
    /\ qpc = "relays" /\ ~cancelled /\ work[r] # <<>>
    /\ OnFailure(r)
    /\ work' = [work EXCEPT ![r] = <<>>]
    /\ probes' = probes \ {r}
    /\ UNCHANGED <<rows, age, queue, item, wake, qpc, relay, batch, timer, cancelled,
                   epc, faults, history>>

\* The next item: Publish sends the event and waits for the answer ...
Offer ==
    /\ qpc = "publish" /\ batch # <<>> /\ ~cancelled
    /\ qpc' = "answer"
    /\ UNCHANGED <<rows, age, queue, item, breakers, wake, work, probes, relay, batch, timer,
                   cancelled, epc, faults, history>>

\* ... which may come late, or never, to an event the relay has.
Arrives ==
    /\ qpc = "answer" /\ Head(batch) \notin taken
    /\ taken' = taken \cup {Head(batch)}
    /\ UNCHANGED <<rows, age, queue, item, breakers, wake, qpc, loopVars, cancelled, epc, faults,
                   gaveUp>>

\* An item that relay r has, and whose row may be gone.
Delivered(i, r, gone) ==
    [i EXCEPT !.pending = @ \ {r}, !.delivered = TRUE, !.stored = @ /\ ~gone]

Published ==
    LET e == Head(batch)
        dels == {d \in {e} : ~item[e].delivered /\ item[e].stored}
    IN
    /\ qpc = "answer"
    /\ taken' = taken \cup {e}
    /\ \E gone \in SUBSET dels :
          /\ Deletes(dels, gone)
          /\ rows' = Without(rows, gone)
          /\ item' = [item EXCEPT ![e] = Delivered(@, relay, e \in gone)]
    /\ batch' = Tail(batch)
    /\ qpc' = "publish"
    /\ UNCHANGED <<age, queue, breakers, wake, work, probes, relay, timer, cancelled, epc, gaveUp>>

\* recordReject: an item that relay r turned down.
TurnedDown(i, r) ==
    LET n == i.rejects[r] + 1
        giveUp == n >= RejectThreshold
    IN [i EXCEPT !.pending = IF giveUp THEN @ \ {r} ELSE @,
                 !.rejects[r] = IF giveUp THEN 0 ELSE n]

\* The relay refuses the event (at any time: its policy), or the answer is
\* late, lost, or cut off by the end of the context.
Rejected ==
    /\ qpc = "answer"
    /\ item' = [item EXCEPT ![Head(batch)] = TurnedDown(@, relay)]
    /\ batch' = Tail(batch)
    /\ qpc' = "publish"
    /\ UNCHANGED <<rows, age, queue, breakers, wake, work, probes, relay, timer, cancelled, epc,
                   faults, history>>

BatchDone ==
    /\ qpc = "publish" /\ batch = <<>>
    /\ OnSuccess(relay)
    /\ probes' = probes \ {relay}
    /\ qpc' = "relays" /\ relay' = NoRelay
    /\ UNCHANGED <<rows, age, queue, item, wake, work, batch, timer, cancelled, epc,
                   faults, history>>

\* The context is done: the breaker stays as it is.
BatchCut ==
    /\ qpc = "publish" /\ batch # <<>> /\ cancelled
    /\ qpc' = "relays" /\ relay' = NoRelay /\ batch' = <<>>
    /\ UNCHANGED <<rows, age, queue, item, breakers, wake, work, probes, timer,
                   cancelled, epc, faults, history>>

\* Mutant: no roll-back.
RolledBackNever == breakers

\* Every half-open breaker nothing came of is open again.
RolledBack ==
    [r \in Relays |-> IF r \in probes /\ breakers[r].state = "halfOpen"
                      THEN [breakers[r] EXCEPT !.state = "open"] ELSE breakers[r]]

Wanted(q) == UNION {item[e].pending : e \in InMemory(q)}

\* gcBreakersLocked: of the breakers no item needs, the closed ones go, and
\* the open ones some time after their cooldown is over.
Collectable(q) ==
    {r \in Relays \ Wanted(q) : RolledBack[r].state = "open" /\ RolledBack[r].due = 0}

Collected(q, old) ==
    [r \in Relays |-> IF r \in old \/ (r \notin Wanted(q) /\ RolledBack[r].state = "closed")
                      THEN Fresh ELSE RolledBack[r]]

\* nextWakeLocked: 0 when nothing is pending or a cooldown is over.
NextWake(q, b) ==
    IF Wanted(q) = {} THEN 0
    ELSE IF \E r \in Wanted(q) : b[r].state # "open" THEN BaseCooldown
    ELSE LET first == CHOOSE r \in Wanted(q) : \A s \in Wanted(q) : b[r].due <= b[s].due
         IN b[first].due

\* The relays are through, or the context is done.
EndPass ==
    /\ qpc = "relays"
    /\ cancelled \/ work = NoWork
    /\ \E gone \in SUBSET ToDelete : Evict(gone)
    /\ \E old \in SUBSET Collectable(queue') : breakers' = Collected(queue', old)
    /\ timer' = NextWake(queue', breakers')
    /\ work' = NoWork /\ probes' = {}
    /\ qpc' = "decide"
    /\ UNCHANGED <<age, item, wake, relay, batch, cancelled, epc>>
-----------------------------------------------------------------------------
(* run.                                                                    *)

Goto(pc) ==
    /\ qpc' = pc
    /\ UNCHANGED <<rows, age, queue, item, breakers, loopVars, cancelled, epc, faults, history>>

\* Mutant: without a nap there is nothing to do.
DecideByTimer ==
    /\ qpc = "decide" /\ ~cancelled
    /\ Goto(IF timer > 0 THEN "nap" ELSE "idle")
    /\ UNCHANGED wake

Decide ==
    /\ qpc = "decide" /\ ~cancelled
    /\ Goto(IF timer > 0 THEN "nap" ELSE IF queue = <<>> THEN "idle" ELSE "drain")
    /\ UNCHANGED wake

Woken ==
    /\ qpc \in {"nap", "idle"} /\ wake
    /\ wake' = FALSE
    /\ Goto("drain")

NapOver ==
    /\ qpc = "nap" /\ timer = 0
    /\ Goto("drain")
    /\ UNCHANGED wake

\* The process is gone, and with it everything that is not in the table.
Ends ==
    /\ qpc' = "down"
    /\ queue' = <<>>
    /\ item' = [e \in Events |-> NewItem(e, FALSE)]
    /\ breakers' = [r \in Relays |-> Fresh]
    /\ wake' = FALSE /\ cancelled' = FALSE
    /\ work' = NoWork /\ probes' = {} /\ relay' = NoRelay /\ batch' = <<>> /\ timer' = 0
    /\ epc' = [e \in Events |-> IF epc[e] = "unlocked" THEN "done" ELSE epc[e]]
    /\ UNCHANGED <<rows, age, gaveUp>>

\* The goroutine returns, which drainAndShutdown waits for.
Return ==
    /\ qpc \in {"decide", "nap", "idle"} /\ cancelled
    /\ Ends
    /\ UNCHANGED <<faults, taken>>

\* pubCancel
Cancel ==
    /\ Up /\ ~cancelled /\ Fail(1)
    /\ cancelled' = TRUE
    /\ UNCHANGED <<rows, age, queue, item, breakers, wake, qpc, loopVars, epc, history>>

Crash == Up /\ Fail(1) /\ Ends /\ UNCHANGED taken

\* Mutant: load takes the rows out of the table.
RestartTaking ==
    /\ qpc = "down"
    /\ qpc' = "drain"
    /\ queue' = rows
    /\ rows' = <<>>
    /\ item' = [e \in Events |-> NewItem(e, FALSE)]
    /\ wake' = (rows # <<>>)
    /\ gaveUp' = gaveUp \ InMemory(rows)
    /\ UNCHANGED <<age, breakers, loopVars, cancelled, epc, faults, taken>>

\* A new process: newPublishQueue with load, setPool, run.
Restart ==
    /\ qpc = "down"
    /\ qpc' = "drain"
    /\ queue' = rows
    /\ item' = [e \in Events |-> NewItem(e, e \in InMemory(rows))]
    /\ wake' = (rows # <<>>)
    /\ gaveUp' = gaveUp \ InMemory(rows)
    /\ UNCHANGED <<rows, age, breakers, loopVars, cancelled, epc, faults, taken>>
-----------------------------------------------------------------------------
(* The environment.                                                        *)

\* Time passes while the goroutine sleeps or waits for a relay.
Waiting == qpc \in {"down", "nap", "idle", "answer"}

Less(n) == IF n = 0 THEN 0 ELSE n - 1

\* Time for cooldowns and naps ...
Tick ==
    /\ Waiting
    /\ breakers' = [r \in Relays |-> [breakers[r] EXCEPT !.due = Less(@)]]
    /\ timer' = Less(timer)
    /\ UNCHANGED <<rows, age, queue, item, wake, qpc, work, probes, relay, batch, cancelled,
                   epc, faults, history>>

\* ... and for deadlines, which are far longer: a step of its own that need
\* not come while an event waits.
Older ==
    /\ Waiting
    /\ age' = [e \in Events |-> IF epc[e] = "new" THEN 0
                                ELSE Smaller(age[e] + 1, TtlUndelivered + 1)]
    /\ UNCHANGED <<rows, queue, item, breakers, wake, qpc, loopVars, cancelled, epc,
                   faults, history>>

Drain ==
    \/ StartPass \/ Offer \/ Published \/ Rejected \/ BatchDone \/ BatchCut \/ EndPass
    \/ \E r \in Relays : Connect(r) \/ ConnectFails(r)
    \/ Decide \/ Woken \/ NapOver \/ Return

Next ==
    \/ Drain \/ Restart
    \/ \E e \in Events : Enqueue(e) \/ Signal(e)
    \/ Arrives \/ Cancel \/ Crash \/ Tick \/ Older

Spec == Init /\ [][Next]_vars

\* The scheduler runs the goroutines, the service manager restarts the bot,
\* time passes; a relay that is tried for ever is reachable now and then.
Fairness ==
    /\ \A r \in Relays : SF_vars(Connect(r))
    /\ WF_vars(Drain)
    /\ WF_vars(Restart)
    /\ WF_vars(Tick)
    /\ \A e \in Events : WF_vars(Signal(e))

FairSpec == Spec /\ Fairness
-----------------------------------------------------------------------------
(* Safety.                                                                 *)

\* publishBatch works without the lock through lists made under it, while
\* enqueue appends: what it offers a relay is still in the queue and still
\* pending there, and it offers each event once per pass.
WorkFresh ==
    \A r \in Relays :
        LET left == work[r] \o (IF relay = r THEN batch ELSE <<>>) IN
        /\ \A i, j \in DOMAIN left : left[i] = left[j] => i = j
        /\ \A e \in InMemory(left) : e \in InMemory(queue) /\ r \in item[e].pending

\* "Half-open breakers get at most one item", and none is left half-open
\* when the pass that probed it is over: allow would deny it for ever.
ProbesResolved ==
    \A r \in Relays : breakers[r].state = "halfOpen" =>
        /\ r \in probes
        /\ Len(work[r]) + (IF relay = r THEN Len(batch) ELSE 0) <= 1

\* Without a timer the goroutine only sleeps on an empty queue, or the token
\* that ends its sleep is on the way.
NoSleepOnWork ==
    qpc = "idle" => queue = <<>> \/ wake \/ \E e \in Events : epc[e] = "unlocked"

(* What the queue promises.                                                *)

Fate(e) ==
    IF epc[e] = "new" THEN "new"
    ELSE IF e \in taken THEN "delivered"
    ELSE IF e \in gaveUp THEN "abandoned"
    ELSE IF e \in InMemory(rows) \cup InMemory(queue) THEN "owed"
    ELSE "lost"

D == INSTANCE Delivery WITH fate <- [e \in Events |-> Fate(e)], stored <- InMemory(rows)

\* The queue delivers: an event that no relay has stays in the table, or in
\* memory where it could not be stored, until it is given up; crashes and
\* failing statements between any two steps included.
Delivers == D!Spec

\* A relay that is reachable again gets what is pending for it, however often
\* it failed before: no breaker and no nap keeps an event from it for good.
PendingFor(e, r) == e \in InMemory(queue) /\ r \in item[e].pending

RelayServed == \A e \in Events : \A r \in Targets[e] : PendingFor(e, r) ~> ~PendingFor(e, r)
=============================================================================
