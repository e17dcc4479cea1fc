---------------------------- MODULE NostrBackend ----------------------------
(***************************************************************************)
(* The Nostr backend (nostr/backend.go, lastseen.go, dm.go): one loop      *)
(* takes gift wraps from the relays, drops what the seen_rumors table      *)
(* knows, and hands the rest to the application; a goroutine per message   *)
(* queues a reaction; the publish queue drains until the shutdown.         *)
(*                                                                         *)
(* The publish queue is the abstract Delivery here.  Time is counted in    *)
(* days, as far as the run's horizon.  A rumor's sender dates its wrap     *)
(* back by up to Window.  The relays keep it and hand it, once, to every   *)
(* subscription whose Since it is not older than, in any order, and within *)
(* the day while the bot is connected.                                     *)
(***************************************************************************)
EXTENDS Naturals, FiniteSets

CONSTANTS
    Rumors,
    Sender,         \* the sender of each rumor
    Self, Allowed,  \* the bot's own key; the allow-list
    Resets,         \* the rumors that say !restart
    Nobody,         \* no active conversation, no rumor in the loop
    Window,         \* NIP-59's randomization of created_at
    Margin,         \* nip59SafetyMargin
    SeenTtl,        \* seenRumorTTL
    Days,           \* the horizon
    MaxStops,       \* stops, and channels of events that close by themselves
    MaxFaults       \* crashes, and statements and wrappings that fail

ASSUME NostrAssumption ==
    /\ Nobody \notin Rumors /\ \A m \in Rumors : Sender[m] # Nobody
    /\ Resets \subseteq Rumors
    /\ Window \in Nat /\ Margin \in Nat /\ Window <= Margin
    /\ SeenTtl \in Nat /\ MaxStops \in Nat /\ MaxFaults \in Nat
    /\ Days \in Nat /\ Window < Days

VARIABLES
    day,
    created,    \* created_at of each wrap sent so far; 0 if not sent
    seen,       \* the seen_rumors table: the day, or 0 for no row
    bpc,        \* where Run is
    since,      \* the filter of the subscription
    cur,        \* the rumor in processGiftWrap
    active,     \* the conversation claimed
    stopping,   \* the context of Run is cancelled
    reacting,   \* rumors whose reaction goroutine runs (wg)
    pub,        \* the publish queue goroutine
    fate, stored,   \* the reactions, as Delivery sees them
    stops, faults,
    got,        \* rumors the last subscription has handed over
    handled,    \* the day the application last took each rumor; 0 for never (history)
    doubtful,   \* rumors for which a statement of dedupRumor failed (history)
    excused     \* rumors that need not be handled any more (history)

loopVars == <<bpc, since, cur, active, stopping, reacting, pub>>
deliveryVars == <<fate, stored>>
history == <<got, handled, doubtful, excused>>
bounds == <<stops, faults>>
vars == <<day, created, seen, loopVars, deliveryVars, bounds, history>>

Outbox == INSTANCE Delivery WITH Events <- Rumors

Sent == {m \in Rumors : created[m] # 0}
Legitimate == {m \in Rumors : Sender[m] # Self /\ (Allowed = {} \/ Sender[m] \in Allowed)}

TypeOK ==
    /\ day \in 1..Days
    /\ created \in [Rumors -> 0..Days] /\ seen \in [Rumors -> 0..Days]
    /\ bpc \in {"off", "starting", "receiving", "marked", "handling", "draining",
                "flushing", "returned"}
    /\ since \in 0..Days
    /\ cur \in Rumors \cup {Nobody} /\ (cur # Nobody <=> bpc \in {"marked", "handling"})
    /\ active \in {Sender[m] : m \in Rumors} \cup {Nobody}
    /\ stopping \in BOOLEAN
    /\ reacting \subseteq Rumors
    /\ pub \in {"off", "running", "cancelled"}
    /\ fate \in [Rumors -> Outbox!Fates] /\ stored \subseteq Rumors
    /\ stops \in 0..MaxStops /\ faults \in 0..MaxFaults
    /\ got \subseteq Rumors /\ doubtful \subseteq Rumors /\ excused \subseteq Rumors
    /\ handled \in [Rumors -> 0..Days]

Init ==
    /\ day = Window + 1
    /\ created = [m \in Rumors |-> 0] /\ seen = [m \in Rumors |-> 0]
    /\ bpc = "off" /\ since = 0 /\ cur = Nobody /\ active = Nobody
    /\ stopping = FALSE /\ reacting = {} /\ pub = "off"
    /\ Outbox!Init
    /\ stops = 0 /\ faults = 0
    /\ got = {} /\ handled = [m \in Rumors |-> 0] /\ doubtful = {} /\ excused = {}

Fault == faults < MaxFaults /\ faults' = faults + 1
MayStop == stops < MaxStops /\ stops' = stops + 1
-----------------------------------------------------------------------------
(* Run.                                                                    *)

\* NewBackend loads the publish queue.
Start ==
    /\ bpc = "off"
    /\ bpc' = "starting"
    /\ Outbox!Recover
    /\ UNCHANGED <<day, created, seen, since, cur, active, stopping, reacting, pub,
                   bounds, history>>

\* subscriptionSince: the newest rumor seen, or now, less the margin.
Newest == IF \A m \in Rumors : seen[m] = 0 THEN day
          ELSE CHOOSE d \in 1..Days : /\ \E m \in Rumors : seen[m] = d
                                      /\ \A m \in Rumors : seen[m] <= d

\* Mutant: no allowance for wraps that are dated back.
BackNone(d) == d

Back(d) == IF d > Margin THEN d - Margin ELSE 0

Since == Back(Newest)

PassedOver(s) == {m \in Sent : handled[m] = 0 /\ created[m] < s}

\* A subscription that starts from an empty table, or could not read it, is
\* expected to pass over rumors that the bot has never seen.
Subscribe ==
    /\ bpc = "starting"
    /\ bpc' = "receiving"
    /\ \/ since' = Since /\ UNCHANGED faults
       \/ since' = Back(day) /\ Fault
    /\ excused' = IF faults' = faults /\ \E m \in Rumors : seen[m] # 0 THEN excused
                  ELSE excused \cup PassedOver(since')
    /\ pub' = "running"
    /\ got' = {}
    /\ UNCHANGED <<day, created, seen, cur, active, stopping, reacting, deliveryVars,
                   stops, handled, doubtful>>

Matching == {m \in Sent : created[m] >= since}

\* processGiftWrap with dedupRumor: INSERT OR IGNORE says whether the rumor
\* is new.  A rumor is accepted when the statement fails, as it does if the
\* context is cancelled after the loop looked at it.
Duplicate(m) ==
    /\ ~stopping /\ seen[m] # 0
    /\ UNCHANGED <<seen, bpc, cur, faults, doubtful>>

New(m) ==
    /\ ~stopping /\ seen[m] = 0
    /\ seen' = [seen EXCEPT ![m] = day]
    /\ bpc' = "marked" /\ cur' = m
    /\ UNCHANGED <<faults, doubtful>>

Unmarked(m) ==
    /\ stopping \/ faults < MaxFaults
    /\ faults' = IF stopping THEN faults ELSE faults + 1
    /\ doubtful' = doubtful \cup {m}
    /\ bpc' = "marked" /\ cur' = m
    /\ UNCHANGED seen

Receive(m) ==
    /\ bpc = "receiving" /\ m \in Matching \ got
    /\ got' = got \cup {m}
    /\ Duplicate(m) \/ New(m) \/ Unmarked(m)
    /\ UNCHANGED <<day, created, since, active, stopping, reacting, pub, deliveryVars,
                   stops, handled, excused>>

\* ActiveConversation.Claim
Claims(s) == active \in {Nobody, s}

\* Mutant: a rumor of another conversation is kept.
DropHolding ==
    /\ bpc = "marked"
    /\ cur \notin Legitimate \/ ~Claims(Sender[cur])
    /\ bpc' = "receiving"
    /\ UNCHANGED <<day, created, seen, since, cur, active, stopping, reacting, pub,
                   deliveryVars, bounds, history>>

\* Its own rumors, other people's, and those of a second conversation are
\* dropped, and stay marked.
Drop ==
    /\ bpc = "marked"
    /\ cur \notin Legitimate \/ ~Claims(Sender[cur])
    /\ bpc' = "receiving" /\ cur' = Nobody
    /\ excused' = excused \cup {cur}
    /\ UNCHANGED <<day, created, seen, since, active, stopping, reacting, pub,
                   deliveryVars, bounds, got, handled, doubtful>>

Take ==
    /\ bpc = "marked"
    /\ cur \in Legitimate /\ Claims(Sender[cur])
    /\ active' = Sender[cur]
    /\ reacting' = reacting \cup {cur}
    /\ bpc' = "handling"
    /\ UNCHANGED <<day, created, seen, since, cur, stopping, pub, deliveryVars, bounds,
                   history>>

\* The handler puts a prompt into the inbox under the context of Run: the
\* statement fails when that is cancelled, and the rumor stays marked.
Handle ==
    /\ bpc = "handling"
    /\ \/ /\ cur \in Resets \/ ~stopping
          /\ handled' = [handled EXCEPT ![cur] = day]
          /\ UNCHANGED <<faults, excused>>
       \/ /\ cur \notin Resets /\ (stopping \/ faults < MaxFaults)
          /\ faults' = IF stopping THEN faults ELSE faults + 1
          /\ excused' = IF seen[cur] = 0 /\ stopping THEN excused ELSE excused \cup {cur}
          /\ UNCHANGED handled
    /\ active' = IF cur \in Resets THEN Nobody ELSE active
    /\ bpc' = "receiving" /\ cur' = Nobody
    /\ UNCHANGED <<day, created, seen, since, stopping, reacting, pub, deliveryVars,
                   stops, got, doubtful>>

\* The context is done, or the channel of events closes by itself.
LoopEnds ==
    /\ bpc = "receiving"
    /\ IF stopping THEN UNCHANGED stops ELSE MayStop
    /\ bpc' = "draining"
    /\ UNCHANGED <<day, created, seen, since, cur, active, stopping, reacting, pub,
                   deliveryVars, faults, history>>

\* Mutant: the reactions are not waited for.
CancelPubEarly ==
    /\ bpc = "draining"
    /\ bpc' = "flushing"
    /\ pub' = "cancelled"
    /\ UNCHANGED <<day, created, seen, since, cur, active, stopping, reacting,
                   deliveryVars, bounds, history>>

\* drainAndShutdown: wg.Wait, pubCancel, <-pubDone.
CancelPub ==
    /\ bpc = "draining" /\ reacting = {}
    /\ bpc' = "flushing"
    /\ pub' = "cancelled"
    /\ UNCHANGED <<day, created, seen, since, cur, active, stopping, reacting,
                   deliveryVars, bounds, history>>

Returns ==
    /\ bpc = "flushing" /\ pub = "off"
    /\ bpc' = "returned"
    /\ UNCHANGED <<day, created, seen, since, cur, active, stopping, reacting, pub,
                   deliveryVars, bounds, history>>
-----------------------------------------------------------------------------
(* The other goroutines.                                                   *)

\* sendReaction under the context of the publish queue: wrapping may fail,
\* and enqueue keeps the event in memory only when its statement fails, as it
\* does once that context is cancelled.  A rumor that is handled again is no
\* new event here.
React(m) ==
    /\ m \in reacting
    /\ reacting' = reacting \ {m}
    /\ \/ /\ Outbox!Accept(m)
          /\ pub # "running" => m \notin stored'
          /\ IF pub = "running" /\ m \notin stored' THEN Fault ELSE UNCHANGED faults
       \/ fate[m] = "new" /\ Fault /\ UNCHANGED deliveryVars
       \/ fate[m] # "new" /\ UNCHANGED <<deliveryVars, faults>>
    /\ UNCHANGED <<day, created, seen, bpc, since, cur, active, stopping, pub, stops,
                   history>>

\* publishQueue.run
Publish ==
    /\ pub # "off"
    /\ (\E m \in Rumors : Outbox!Deliver(m)) \/ Outbox!GiveUp
    /\ UNCHANGED <<day, created, seen, loopVars, bounds, history>>

PubReturns ==
    /\ pub = "cancelled"
    /\ pub' = "off"
    /\ UNCHANGED <<day, created, seen, bpc, since, cur, active, stopping, reacting,
                   deliveryVars, bounds, history>>

\* Mutant: rows go after the margin.
StaleEarly == {m \in Rumors : seen[m] # 0 /\ seen[m] + Margin < day}

Stale == {m \in Rumors : seen[m] # 0 /\ seen[m] + SeenTtl < day}

\* pruneSeenLoop, every hour until the context is done or Run returns.
Prune ==
    /\ bpc \notin {"off", "starting", "returned"} /\ ~stopping
    /\ Stale # {}
    /\ seen' = [m \in Rumors |-> IF m \in Stale THEN 0 ELSE seen[m]]
    /\ UNCHANGED <<day, created, loopVars, deliveryVars, bounds, history>>
-----------------------------------------------------------------------------
(* The environment.                                                        *)

Stop ==
    /\ bpc \in {"receiving", "marked", "handling"} /\ ~stopping
    /\ MayStop
    /\ stopping' = TRUE
    /\ UNCHANGED <<day, created, seen, bpc, since, cur, active, reacting, pub,
                   deliveryVars, faults, history>>

\* Rumors of the backlog that did not get through, and that the next
\* subscription will not ask for.
CutOff == {m \in Matching : handled[m] = 0 /\ created[m] < Since}

\* The process is gone, before or after Run returned.  Lost with it: a rumor
\* that is marked and not handled, and the backlog that is cut off.
Gone ==
    /\ bpc # "off"
    /\ bpc' = "off" /\ cur' = Nobody /\ active' = Nobody /\ reacting' = {}
    /\ stopping' = FALSE /\ pub' = "off"
    /\ IF bpc = "returned" THEN UNCHANGED faults ELSE Fault
    /\ Outbox!Crash
    /\ excused' = excused \cup (IF cur = Nobody THEN {} ELSE {cur} \ {m \in Rumors : seen[m] = 0})
                          \cup (IF bpc = "starting" THEN {} ELSE CutOff)
    /\ UNCHANGED <<day, created, seen, since, stops, got, handled, doubtful>>

\* A sender dates the wrap back.
Send(m) ==
    /\ m \notin Sent
    /\ \E d \in (day - Window)..day : created' = [created EXCEPT ![m] = d]
    /\ UNCHANGED <<day, seen, loopVars, deliveryVars, bounds, history>>

NewDay ==
    /\ day < Days
    /\ bpc = "off" \/ (bpc = "receiving" /\ Matching \subseteq got)
    /\ day' = day + 1
    /\ UNCHANGED <<created, seen, loopVars, deliveryVars, bounds, history>>

Next ==
    \/ Start \/ Subscribe \/ Drop \/ Take \/ Handle \/ LoopEnds \/ CancelPub \/ Returns
    \/ \E m \in Rumors : Receive(m) \/ React(m) \/ Send(m)
    \/ Publish \/ PubReturns \/ Prune \/ Stop \/ Gone \/ NewDay

Spec == Init /\ [][Next]_vars
-----------------------------------------------------------------------------
(* Properties.                                                             *)

\* "Uses the SQLite database as the authoritative dedup store": the
\* application gets no rumor twice within the time its row is kept, across
\* restarts that ask the relays for it again, unless it could not be marked.
HandledOnce ==
    bpc = "handling" =>
        handled[cur] = 0 \/ cur \in doubtful \/ day > handled[cur] + SeenTtl

\* When the relays have nothing left for a subscription, every rumor of the
\* conversation that was sent has been handled: subscriptionSince goes back
\* far enough for wraps that are dated back and were sent while the bot was
\* down.  Not so when the table was empty, when the backlog itself was cut
\* off, and when the process ended between the mark and the handler.
NothingMissed ==
    bpc = "receiving" /\ ~stopping /\ Matching \subseteq got =>
        \A m \in Sent \cap Legitimate : handled[m] # 0 \/ m \in excused

\* "the reaction can finish encrypting and enqueueing even after the
\* subscription context is cancelled by Stop()": however often the bot is
\* stopped and started, no reaction is lost, and when Run returns that to
\* every rumor the application has taken is in the table, or was delivered or
\* given up before; unless the process crashed, or a statement or a wrapping
\* failed.
ReactionsKept ==
    faults = 0 =>
        /\ \A m \in Rumors : fate[m] # "lost"
        /\ bpc = "returned" =>
               \A m \in Rumors :
                   handled[m] # 0 => m \in stored \/ fate[m] \in {"delivered", "abandoned"}
=============================================================================
