----------------------------- MODULE NostrProofs -----------------------------
(***************************************************************************)
(* Theorems about the Nostr backend, for any rumors, senders and number of *)
(* stops and faults and any lengths of the window, the margin, the         *)
(* retention and the horizon: the types, no rumor handled twice, none      *)
(* missed, and no reaction lost by a shutdown.                             *)
(***************************************************************************)
EXTENDS NostrBackend, TLAPS, WellFoundedInduction

-----------------------------------------------------------------------------
(* The newest rumor of the table.                                          *)

\* A non-empty set of natural numbers has a least element.
LEMMA LeastDay ==
    ASSUME NEW T \in SUBSET Nat, T # {}
    PROVE  \E d \in T : \A k \in T : d <= k
<1> DEFINE R == OpToRel(<, Nat)
<1>1. IsWellFoundedOn(R, Nat)
  BY NatLessThanWellFounded
<1>2. \A x, y \in Nat : x < y => <<x, y>> \in R
  BY DEF OpToRel
<1> HIDE DEF R
<1>3. PICK d \in T : \A k \in T : <<k, d>> \notin R
  BY <1>1, WFMin
<1>4. ASSUME NEW k \in T
      PROVE  d <= k
  <2>1. k \in Nat /\ d \in Nat
    OBVIOUS
  <2>2. ~(k < d)
    BY <1>2, <1>3, <2>1
  <2> QED
    BY <2>1, <2>2
<1> QED
  BY <1>4

\* When the table has a row, Newest is the day of one, and of none before it.
LEMMA NewestOfTable ==
    ASSUME TypeOK, \E m \in Rumors : seen[m] # 0
    PROVE  /\ Newest \in 1..Days
           /\ \E m \in Rumors : seen[m] = Newest
           /\ \A m \in Rumors : seen[m] <= Newest
<1> DEFINE T == {d \in Nat : \A m \in Rumors : seen[m] <= d}
<1>1. Days \in Nat /\ \A m \in Rumors : seen[m] \in 0..Days
  BY NostrAssumption DEF TypeOK
<1>2. Days \in T
  BY <1>1
<1>3. PICK d \in T : \A k \in T : d <= k
  BY <1>2, LeastDay
<1>4. d \in 1..Days
  BY <1>1, <1>2, <1>3
<1>5. PICK m \in Rumors : ~(seen[m] <= d - 1)
  BY <1>3, <1>4
<1>6. seen[m] = d
  BY <1>1, <1>3, <1>4, <1>5
<1>7. \E e \in 1..Days : /\ \E n \in Rumors : seen[n] = e
                         /\ \A n \in Rumors : seen[n] <= e
  BY <1>3, <1>4, <1>6
<1>8. Newest = CHOOSE e \in 1..Days : /\ \E n \in Rumors : seen[n] = e
                                      /\ \A n \in Rumors : seen[n] <= e
  BY DEF Newest
<1> QED
  BY <1>7, <1>8

\* Going back by the margin keeps the order of days, and covers the window.
LEMMA BackBounds ==
    ASSUME NEW d \in Nat, NEW e \in Nat, d <= e, Window < e
    PROVE  /\ Back(d) \in 0..d
           /\ Back(d) <= Back(e)
           /\ Back(e) <= e - Window
BY NostrAssumption DEF Back

\* Nothing has happened after today.
DayInv ==
    /\ Window < day
    /\ \A m \in Rumors : seen[m] <= day /\ handled[m] <= day

\* The next subscription reaches back past today by the margin at least.
LEMMA SinceBounds ==
    ASSUME TypeOK, DayInv
    PROVE  Since \in 0..Days /\ Since <= Back(day)
<1>1. day \in Nat /\ day <= Days /\ Days \in Nat
  BY NostrAssumption DEF TypeOK
<1>2. Newest \in Nat /\ Newest <= day
  <2>1. CASE \A m \in Rumors : seen[m] = 0
    BY <1>1, <2>1 DEF Newest
  <2>2. CASE \E m \in Rumors : seen[m] # 0
    BY <1>1, <2>2, NewestOfTable DEF DayInv
  <2> QED
    BY <2>1, <2>2
<1> QED
  BY <1>1, <1>2, BackBounds DEF Since, DayInv
-----------------------------------------------------------------------------
(* Types.                                                                  *)

TypeInv == TypeOK /\ DayInv

\* The budgets are not overdrawn.
LEMMA FaultType ==
    /\ TypeOK /\ Fault => faults' \in 0..MaxFaults
    /\ TypeOK /\ MayStop => stops' \in 0..MaxStops
BY NostrAssumption DEF TypeOK, Fault, MayStop

\* The steps that Delivery describes keep its types.
LEMMA DeliveryType ==
    ASSUME TypeOK,
           \/ \E m \in Rumors : Outbox!Accept(m) \/ Outbox!Deliver(m)
           \/ Outbox!GiveUp \/ Outbox!Crash \/ Outbox!Recover
    PROVE  fate' \in [Rumors -> Outbox!Fates] /\ stored' \subseteq Rumors
<1>1. \A es : \A f \in Outbox!Fates :
         Outbox!Become(es, f) => fate' \in [Rumors -> Outbox!Fates]
  BY DEF Outbox!Become, TypeOK
<1>2. {"owed", "delivered", "abandoned", "lost"} \subseteq Outbox!Fates
  BY DEF Outbox!Fates
<1> QED
  BY <1>1, <1>2 DEF Outbox!Accept, Outbox!Deliver, Outbox!GiveUp, Outbox!Crash,
                    Outbox!Recover, TypeOK

\* The subscription: the loop from its start to the drain.
LEMMA LoopType ==
    ASSUME TypeInv, Start \/ Subscribe \/ LoopEnds \/ CancelPub \/ Returns
    PROVE  TypeInv'
<1> USE DEF TypeInv
<1>1. CASE Start
  BY <1>1, DeliveryType DEF Start, TypeOK, DayInv, bounds, history
<1>2. CASE Subscribe
  <2>1. since' \in 0..Days
    <3>1. Back(day) \in 0..Days
      BY NostrAssumption, BackBounds DEF TypeOK, DayInv
    <3> QED
      BY <1>2, <3>1, SinceBounds DEF Subscribe
  <2>2. faults' \in 0..MaxFaults
    BY <1>2, FaultType DEF Subscribe, TypeOK
  <2>3. excused' \subseteq Rumors
    BY <1>2 DEF Subscribe, PassedOver, Sent, TypeOK
  <2> QED
    BY <1>2, <2>1, <2>2, <2>3 DEF Subscribe, TypeOK, DayInv, deliveryVars, bounds
<1>3. CASE LoopEnds \/ CancelPub \/ Returns
  <2>1. stops' \in 0..MaxStops
    BY <1>3, FaultType DEF LoopEnds, CancelPub, Returns, bounds, TypeOK
  <2> QED
    BY <1>3, <2>1 DEF LoopEnds, CancelPub, Returns, TypeOK, DayInv, deliveryVars, bounds, history
<1> QED
  BY <1>1, <1>2, <1>3

\* One rumor on its way through the loop.
LEMMA RumorType ==
    ASSUME TypeInv, (\E m \in Rumors : Receive(m)) \/ Drop \/ Take \/ Handle
    PROVE  TypeInv'
<1> USE DEF TypeInv
<1>0. day \in 1..Days /\ day \in Nat /\ Days \in Nat
  BY NostrAssumption DEF TypeOK
<1>1. ASSUME NEW m \in Rumors, Receive(m)
      PROVE  TypeInv'
  <2>1. /\ seen' \in [Rumors -> 0..Days]
        /\ \A n \in Rumors : seen'[n] <= day
    BY <1>0, <1>1 DEF Receive, Duplicate, New, Unmarked, TypeOK, DayInv
  <2>2. faults' \in 0..MaxFaults
    BY <1>1, NostrAssumption DEF Receive, Duplicate, New, Unmarked, TypeOK
  <2>3. bpc' \in {"receiving", "marked"} /\ cur' \in Rumors \cup {Nobody}
        /\ (cur' # Nobody <=> bpc' = "marked")
    BY <1>1, NostrAssumption DEF Receive, Duplicate, New, Unmarked, TypeOK
  <2>4. got' \subseteq Rumors /\ doubtful' \subseteq Rumors
    BY <1>1 DEF Receive, Duplicate, New, Unmarked, TypeOK
  <2> QED
    BY <1>1, <2>1, <2>2, <2>3, <2>4 DEF Receive, TypeOK, DayInv, deliveryVars, bounds
<1>2. CASE Drop
  BY <1>2, NostrAssumption DEF Drop, TypeOK, DayInv, deliveryVars, bounds
<1>3. CASE Take
  BY <1>3, NostrAssumption DEF Take, TypeOK, DayInv, deliveryVars, bounds, history
<1>4. CASE Handle
  <2>1. cur \in Rumors
    BY <1>4 DEF Handle, TypeOK
  <2>2. /\ handled' \in [Rumors -> 0..Days]
        /\ \A n \in Rumors : handled'[n] <= day
    BY <1>0, <1>4, <2>1 DEF Handle, TypeOK, DayInv
  <2>3. faults' \in 0..MaxFaults
    BY <1>4, NostrAssumption DEF Handle, TypeOK
  <2>4. excused' \subseteq Rumors
    BY <1>4, <2>1 DEF Handle, TypeOK
  <2> QED
    BY <1>4, <2>2, <2>3, <2>4 DEF Handle, TypeOK, DayInv, deliveryVars, bounds
<1> QED
  BY <1>1, <1>2, <1>3, <1>4

\* The other goroutines and the environment.
LEMMA OtherType ==
    ASSUME TypeInv,
           \/ \E m \in Rumors : React(m) \/ Send(m)
           \/ Publish \/ PubReturns \/ Prune \/ Stop \/ Gone \/ NewDay \/ UNCHANGED vars
    PROVE  TypeInv'
<1> USE DEF TypeInv
<1>0. day \in 1..Days /\ day \in Nat /\ Days \in Nat /\ Window \in Nat /\ Window < day
  BY NostrAssumption DEF TypeOK, DayInv
<1>1. ASSUME NEW m \in Rumors, React(m)
      PROVE  TypeInv'
  <2>1. fate' \in [Rumors -> Outbox!Fates] /\ stored' \subseteq Rumors
    BY <1>1, DeliveryType DEF React, TypeOK, deliveryVars
  <2>2. faults' \in 0..MaxFaults
    BY <1>1, FaultType DEF React, TypeOK
  <2> QED
    BY <1>1, <2>1, <2>2 DEF React, TypeOK, DayInv, bounds, history
<1>2. ASSUME NEW m \in Rumors, Send(m)
      PROVE  TypeInv'
  <2>1. (day - Window)..day \subseteq 0..Days
    BY <1>0
  <2>2. created' \in [Rumors -> 0..Days]
    BY <1>2, <2>1 DEF Send, TypeOK
  <2> QED
    BY <1>2, <2>2 DEF Send, TypeOK, DayInv, loopVars, deliveryVars, bounds, history
<1>3. CASE Publish \/ PubReturns
  <2>1. fate' \in [Rumors -> Outbox!Fates] /\ stored' \subseteq Rumors
    BY <1>3, DeliveryType DEF Publish, PubReturns, TypeOK, deliveryVars
  <2> QED
    BY <1>3, <2>1 DEF Publish, PubReturns, TypeOK, DayInv, loopVars, bounds, history
<1>4. CASE Prune
  BY <1>0, <1>4 DEF Prune, Stale, TypeOK, DayInv, loopVars, deliveryVars, bounds, history
<1>5. CASE Stop
  BY <1>5, FaultType DEF Stop, TypeOK, DayInv, deliveryVars, bounds, history
<1>6. CASE Gone
  <2>1. fate' \in [Rumors -> Outbox!Fates] /\ stored' \subseteq Rumors
    BY <1>6, DeliveryType DEF Gone
  <2>2. faults' \in 0..MaxFaults
    BY <1>6, FaultType DEF Gone, TypeOK
  <2>3. excused' \subseteq Rumors
    BY <1>6 DEF Gone, CutOff, Matching, Sent, TypeOK
  <2> QED
    BY <1>6, <2>1, <2>2, <2>3 DEF Gone, TypeOK, DayInv
<1>7. CASE NewDay
  <2>1. day' \in 1..Days /\ Window < day'
    BY <1>0, <1>7 DEF NewDay
  <2>2. \A m \in Rumors : seen[m] <= day' /\ handled[m] <= day'
    BY <1>0, <1>7 DEF NewDay, DayInv, TypeOK
  <2> QED
    BY <1>7, <2>1, <2>2 DEF NewDay, TypeOK, DayInv, loopVars, deliveryVars, bounds, history
<1>8. CASE UNCHANGED vars
  BY <1>8 DEF vars, loopVars, deliveryVars, bounds, history, TypeOK, DayInv
<1> QED
  BY <1>1, <1>2, <1>3, <1>4, <1>5, <1>6, <1>7, <1>8

\* Types, and nothing dated after today.
LEMMA TypeInvariant == Spec => []TypeInv
<1>1. Init => TypeInv
  <2> SUFFICES ASSUME Init
               PROVE  TypeInv
    OBVIOUS
  <2>1. day \in 1..Days /\ Window < day /\ day \in Nat /\ 0 \in 0..Days
        /\ 0 \in 0..MaxStops /\ 0 \in 0..MaxFaults
    BY NostrAssumption DEF Init
  <2>2. fate \in [Rumors -> Outbox!Fates] /\ stored \subseteq Rumors
    BY DEF Init, Outbox!Init, Outbox!Fates
  <2>3. /\ created \in [Rumors -> 0..Days] /\ seen \in [Rumors -> 0..Days]
        /\ handled \in [Rumors -> 0..Days]
        /\ \A m \in Rumors : seen[m] <= day /\ handled[m] <= day
    BY <2>1 DEF Init
  <2>4. since \in 0..Days /\ stops \in 0..MaxStops /\ faults \in 0..MaxFaults
    BY <2>1 DEF Init
  <2> QED
    BY <2>1, <2>2, <2>3, <2>4 DEF Init, TypeInv, TypeOK, DayInv
<1>2. TypeInv /\ [Next]_vars => TypeInv'
  BY LoopType, RumorType, OtherType DEF Next
<1> QED
  BY <1>1, <1>2, PTL DEF Spec

\* Every clock of the model stays within the horizon, and a rumor is in the
\* loop exactly while the loop is past the mark and before the end of the
\* handler.
THEOREM NostrTypeCorrect == Spec => []TypeOK
<1>1. TypeInv => TypeOK
  BY DEF TypeInv
<1> QED
  BY <1>1, TypeInvariant, PTL
-----------------------------------------------------------------------------
(* Dedup.                                                                  *)

\* The row of a rumor is no older than its last handling, or it is gone and
\* the time it is kept is over.
RowCovers(m) ==
    handled[m] # 0 =>
        (seen[m] = 0 /\ day > handled[m] + SeenTtl) \/ seen[m] >= handled[m]

\* The rumor in the loop was marked today and, if it is old, may come again.
FreshInLoop ==
    cur # Nobody /\ cur \notin doubtful =>
        seen[cur] = day /\ (handled[cur] = 0 \/ day > handled[cur] + SeenTtl)

OnceInv == FreshInLoop /\ \A m \in Rumors \ doubtful : RowCovers(m)

\* A step that touches neither the rows nor the rumor in the loop.
LEMMA QuietOnce ==
    ASSUME OnceInv, UNCHANGED <<day, seen, handled, doubtful>>, cur' \in {cur, Nobody}
    PROVE  OnceInv'
BY DEF OnceInv, FreshInLoop, RowCovers

\* A rumor that is new has no row, so that its last handling is long past.
LEMMA ReceiveOnce ==
    ASSUME TypeInv, OnceInv, NEW m \in Rumors, Receive(m)
    PROVE  OnceInv'
<1> USE NostrAssumption DEF TypeInv, TypeOK, DayInv
<1>1. CASE Duplicate(m)
  BY <1>1, QuietOnce DEF Receive, Duplicate
<1>2. CASE New(m)
  <2>1. m \notin doubtful => handled[m] = 0 \/ day > handled[m] + SeenTtl
    BY <1>2 DEF New, OnceInv, RowCovers
  <2>2. FreshInLoop'
    BY <1>2, <2>1 DEF New, Receive, FreshInLoop
  <2>3. seen'[m] >= handled'[m]
    BY <1>2 DEF New, Receive
  <2> QED
    BY <1>2, <2>2, <2>3 DEF New, Receive, OnceInv, RowCovers
<1>3. CASE Unmarked(m)
  BY <1>3 DEF Unmarked, Receive, OnceInv, FreshInLoop, RowCovers
<1> QED
  BY <1>1, <1>2, <1>3 DEF Receive

\* The rumor that is handled has the row of today.
LEMMA HandleOnce ==
    ASSUME TypeInv, OnceInv, Handle
    PROVE  OnceInv'
<1>1. CASE handled' = handled
  BY <1>1, QuietOnce DEF Handle
<1>2. CASE handled' = [handled EXCEPT ![cur] = day]
  <2>1. cur \in Rumors /\ cur # Nobody /\ day \in Nat
    BY NostrAssumption DEF TypeInv, TypeOK, Handle
  <2>2. cur \notin doubtful => seen[cur] >= day
    BY <2>1 DEF OnceInv, FreshInLoop
  <2> QED
    BY <1>2, <2>1, <2>2 DEF Handle, TypeInv, TypeOK, OnceInv, FreshInLoop, RowCovers
<1> QED
  BY <1>1, <1>2 DEF Handle

\* A row that is pruned has covered its rumor long enough.
LEMMA PruneOnce ==
    ASSUME TypeInv, OnceInv, Prune
    PROVE  OnceInv'
<1> USE NostrAssumption DEF TypeInv, TypeOK
<1>1. \A m \in Stale : seen[m] + SeenTtl < day
  BY DEF Stale
<1>2. \A m \in Rumors \ doubtful : RowCovers(m)'
  BY <1>1 DEF Prune, OnceInv, RowCovers, history
<1>3. cur # Nobody /\ cur \notin doubtful => cur \notin Stale
  BY <1>1 DEF OnceInv, FreshInLoop
<1>4. FreshInLoop'
  BY <1>3 DEF Prune, OnceInv, FreshInLoop, history, loopVars
<1> QED
  BY <1>2, <1>4 DEF Prune, OnceInv, history

\* The day ends only while no rumor is in the loop.
LEMMA NewDayOnce ==
    ASSUME TypeInv, OnceInv, NewDay
    PROVE  OnceInv'
<1> USE NostrAssumption DEF TypeInv, TypeOK
<1>1. cur = Nobody /\ cur' = Nobody
  BY DEF NewDay, loopVars
<1>2. \A m \in Rumors \ doubtful : RowCovers(m)'
  BY DEF NewDay, OnceInv, RowCovers, history
<1> QED
  BY <1>1, <1>2 DEF NewDay, OnceInv, FreshInLoop, history

\* The application gets no rumor twice within the time its row is kept,
\* across restarts that ask the relays for it again: dedupRumor looks the
\* rumor up and marks it with one statement, before the handler runs, and
\* pruneSeenLoop leaves the row for the whole of that time.
THEOREM RumorsHandledOnce == Spec => []HandledOnce
<1>1. Init => OnceInv
  BY DEF Init, OnceInv, FreshInLoop, RowCovers
<1>2. TypeInv /\ OnceInv /\ [Next]_vars => OnceInv'
  <2> SUFFICES ASSUME TypeInv, OnceInv, [Next]_vars
               PROVE  OnceInv'
    OBVIOUS
  <2>1. CASE Start \/ Subscribe \/ Drop \/ Take \/ LoopEnds \/ CancelPub \/ Returns
    BY <2>1, QuietOnce DEF Start, Subscribe, Drop, Take, LoopEnds, CancelPub, Returns, history
  <2>2. CASE (\E m \in Rumors : React(m) \/ Send(m)) \/ Publish \/ PubReturns \/ Stop \/ Gone
    BY <2>2, QuietOnce DEF React, Send, Publish, PubReturns, Stop, Gone, history, loopVars
  <2>3. CASE UNCHANGED vars
    BY <2>3, QuietOnce DEF vars, history, loopVars
  <2> QED
    BY <2>1, <2>2, <2>3, ReceiveOnce, HandleOnce, PruneOnce, NewDayOnce DEF Next
<1>3. TypeInv /\ OnceInv => HandledOnce
  BY NostrAssumption DEF TypeInv, TypeOK, OnceInv, FreshInLoop, HandledOnce
<1> QED
  BY <1>1, <1>2, <1>3, TypeInvariant, PTL DEF Spec
-----------------------------------------------------------------------------
(* The shutdown.                                                           *)

InLoop == bpc \in {"receiving", "marked", "handling"}

\* The publish queue runs as long as there is a loop or a reaction to serve.
CleanInv ==
    /\ bpc \in {"flushing", "returned"} => reacting = {}
    /\ InLoop \/ reacting # {} => pub = "running"

\* The rumors for which a reaction was begun, as far as that matters.
Acknowledged(m) == handled[m] # 0 \/ (bpc = "handling" /\ m = cur)

\* As long as nothing failed, what is owed is in the table, none is lost, and
\* the reaction to a rumor is on its way or accepted.
KeptInv ==
    faults = 0 =>
        /\ Outbox!Owed \subseteq stored
        /\ \A m \in Rumors : fate[m] # "lost"
        /\ \A m \in Rumors : Acknowledged(m) => m \in reacting \/ fate[m] # "new"

\* Every step keeps the order of the shutdown.
LEMMA CleanStep ==
    ASSUME TypeInv, CleanInv, [Next]_vars
    PROVE  CleanInv'
<1> USE DEF CleanInv, InLoop
<1>1. CASE Start \/ Subscribe \/ Drop \/ Take \/ Handle
  BY <1>1 DEF Start, Subscribe, Drop, Take, Handle
<1>2. CASE LoopEnds \/ CancelPub \/ Returns
  BY <1>2 DEF LoopEnds, CancelPub, Returns
<1>3. ASSUME NEW m \in Rumors, Receive(m)
      PROVE  CleanInv'
  BY <1>3 DEF Receive, Duplicate, New, Unmarked
<1>4. ASSUME NEW m \in Rumors, React(m) \/ Send(m)
      PROVE  CleanInv'
  BY <1>4 DEF React, Send, loopVars
<1>5. CASE Publish \/ PubReturns \/ Prune
  BY <1>5 DEF Publish, PubReturns, Prune, loopVars
<1>6. CASE Stop \/ Gone \/ NewDay \/ UNCHANGED vars
  BY <1>6 DEF Stop, Gone, NewDay, vars, loopVars
<1> QED
  BY <1>1, <1>2, <1>3, <1>4, <1>5, <1>6 DEF Next

\* No fault is taken back.
LEMMA FaultsStay ==
    ASSUME TypeInv, [Next]_vars
    PROVE  faults' = 0 => faults = 0
<1> USE DEF TypeInv, TypeOK, bounds
<1>1. CASE Start \/ Subscribe \/ Drop \/ Take \/ Handle
  BY <1>1, NostrAssumption DEF Start, Subscribe, Drop, Take, Handle, Fault
<1>2. CASE LoopEnds \/ CancelPub \/ Returns
  BY <1>2, NostrAssumption DEF LoopEnds, CancelPub, Returns
<1>3. ASSUME NEW m \in Rumors, Receive(m) \/ React(m) \/ Send(m)
      PROVE  faults' = 0 => faults = 0
  BY <1>3, NostrAssumption DEF Receive, Duplicate, New, Unmarked, React, Send, Fault
<1>4. CASE Publish \/ PubReturns \/ Prune \/ Stop \/ Gone \/ NewDay \/ UNCHANGED vars
  BY <1>4, NostrAssumption DEF Publish, PubReturns, Prune, Stop, Gone, NewDay, Fault, vars
<1> QED
  BY <1>1, <1>2, <1>3, <1>4 DEF Next

\* The events that are owed after some of them became f.
LEMMA OwedAfter ==
    ASSUME NEW es, NEW f, Outbox!Become(es, f)
    PROVE  /\ f # "owed" => Outbox!Owed' = Outbox!Owed \ es
           /\ f = "owed" => Outbox!Owed' \subseteq Outbox!Owed \cup es
BY DEF Outbox!Become, Outbox!Owed

\* A step of the loop or of the environment begins a reaction with every
\* rumor that it hands to the application.
LEMMA LoopKept ==
    ASSUME TypeInv, CleanInv, KeptInv, [Next]_vars, UNCHANGED deliveryVars, faults' = 0,
           ~Gone, \A m \in Rumors : ~React(m)
    PROVE  \A m \in Rumors : Acknowledged(m)' => m \in reacting' \/ fate'[m] # "new"
<1> USE DEF TypeInv, TypeOK, Acknowledged, deliveryVars
<1>0. \A m \in Rumors : Acknowledged(m) => m \in reacting \/ fate[m] # "new"
  BY FaultsStay DEF KeptInv
<1>1. CASE Take
  BY <1>0, <1>1 DEF Take, history
<1>2. CASE Handle
  <2>1. reacting' = reacting /\ bpc = "handling" /\ bpc' = "receiving"
    BY <1>2 DEF Handle
  <2>2. \A m \in Rumors : handled'[m] # 0 => handled[m] # 0 \/ m = cur
    BY <1>2 DEF Handle
  <2> QED
    BY <1>0, <2>1, <2>2
<1>3. CASE ~Take /\ ~Handle
  <2>1. handled' = handled /\ reacting' = reacting
    BY <1>3 DEF Next, vars, Start, Subscribe, Drop, LoopEnds, CancelPub, Returns, Receive,
                Send, Publish, PubReturns, Prune, Stop, NewDay, history, loopVars
  <2>2. bpc' = "handling" => bpc = "handling" /\ cur' = cur
    BY <1>3 DEF Next, vars, Start, Subscribe, Drop, LoopEnds, CancelPub, Returns, Receive,
                Duplicate, New, Unmarked, Send, Publish, PubReturns, Prune, Stop, NewDay,
                history, loopVars
  <2> QED
    BY <1>0, <2>1, <2>2
<1> QED
  BY <1>1, <1>2, <1>3

\* A reaction that does not fail is stored.
LEMMA ReactKept ==
    ASSUME TypeInv, CleanInv, KeptInv, faults' = 0, NEW m \in Rumors, React(m)
    PROVE  KeptInv'
<1> USE DEF TypeInv, TypeOK
<1>1. faults = 0 /\ ~Fault
  BY NostrAssumption DEF React, Fault
<1>2. pub = "running" /\ UNCHANGED <<bpc, cur, handled>> /\ reacting' = reacting \ {m}
  BY DEF React, CleanInv, history
<1>3. CASE Outbox!Accept(m) /\ m \in stored'
  <2>1. Outbox!Owed' \subseteq Outbox!Owed \cup {m}
    BY <1>3, OwedAfter DEF Outbox!Accept
  <2>2. Outbox!Owed' \subseteq stored'
    BY <1>1, <1>3, <2>1 DEF Outbox!Accept, KeptInv
  <2>3. \A n \in Rumors : fate'[n] = IF n = m THEN "owed" ELSE fate[n]
    BY <1>3 DEF Outbox!Accept, Outbox!Become
  <2> QED
    BY <1>1, <1>2, <2>2, <2>3 DEF KeptInv, Acknowledged
<1>4. CASE fate[m] # "new" /\ UNCHANGED deliveryVars
  BY <1>1, <1>2, <1>4 DEF deliveryVars, Outbox!Owed, KeptInv, Acknowledged
<1> QED
  BY <1>1, <1>2, <1>3, <1>4 DEF React

\* The publish queue, and the end and the start of the process, keep what is
\* owed in the table and leave the rumors alone.
LEMMA QueueKept ==
    ASSUME TypeInv, CleanInv, KeptInv, faults' = 0, Start \/ Gone \/ Publish
    PROVE  KeptInv'
<1> USE DEF TypeInv, TypeOK
<1>1. faults = 0
  BY NostrAssumption DEF Start, Gone, Publish, Fault, bounds
<1>2. CASE Start
  <2>1. Outbox!Owed' \subseteq Outbox!Owed \cup {e \in stored : fate[e] = "abandoned"}
    BY <1>2, OwedAfter DEF Start, Outbox!Recover
  <2>2. \A m \in Rumors : fate'[m] \in {fate[m], "owed"}
    BY <1>2 DEF Start, Outbox!Recover, Outbox!Become
  <2>3. reacting' = reacting /\ bpc' # "handling" /\ handled' = handled /\ stored' = stored
    BY <1>2 DEF Start, Outbox!Recover, history
  <2> QED
    BY <1>1, <2>1, <2>2, <2>3 DEF KeptInv, Acknowledged
<1>3. CASE Gone
  <2>1. Outbox!Owed \ stored = {}
    BY <1>1 DEF KeptInv
  <2>2. fate' = fate /\ stored' = stored
    BY <1>3, <2>1 DEF Gone, Outbox!Crash, Outbox!Become
  <2>3. bpc = "returned" /\ bpc' = "off" /\ handled' = handled
    BY <1>1, <1>3 DEF Gone, Fault
  <2>4. reacting = {} /\ reacting' = {}
    BY <1>3, <2>3 DEF Gone, CleanInv
  <2> QED
    BY <1>1, <2>2, <2>3, <2>4 DEF KeptInv, Acknowledged, Outbox!Owed
<1>4. CASE Publish
  <2>1. /\ Outbox!Owed' \subseteq stored'
        /\ \A m \in Rumors : fate'[m] \in {fate[m], "delivered", "abandoned"}
    <3>1. ASSUME NEW m \in Rumors, Outbox!Deliver(m)
          PROVE  /\ Outbox!Owed' \subseteq stored'
                 /\ \A n \in Rumors : fate'[n] \in {fate[n], "delivered", "abandoned"}
      <4>1. Outbox!Owed' = Outbox!Owed \ {m}
        BY <3>1, OwedAfter DEF Outbox!Deliver
      <4> QED
        BY <1>1, <3>1, <4>1 DEF Outbox!Deliver, Outbox!Become, KeptInv
    <3>2. CASE Outbox!GiveUp
      <4>1. PICK es \in SUBSET Outbox!Owed :
               /\ Outbox!Become(es, "abandoned")
               /\ \E gone \in SUBSET (stored \ (Outbox!Owed \ es)) : stored' = stored \ gone
        BY <3>2 DEF Outbox!GiveUp
      <4>2. Outbox!Owed' = Outbox!Owed \ es
        BY <4>1, OwedAfter
      <4>3. \A n \in Rumors : fate'[n] \in {fate[n], "abandoned"}
        BY <4>1 DEF Outbox!Become
      <4> QED
        BY <1>1, <4>1, <4>2, <4>3 DEF KeptInv
    <3> QED
      BY <1>4, <3>1, <3>2 DEF Publish
  <2>2. UNCHANGED <<bpc, cur, reacting, handled>>
    BY <1>4 DEF Publish, loopVars, history
  <2> QED
    BY <1>1, <2>1, <2>2 DEF KeptInv, Acknowledged
<1> QED
  BY <1>2, <1>3, <1>4

\* Every step without a fault keeps the reactions.
LEMMA KeptStep ==
    ASSUME TypeInv, CleanInv, KeptInv, [Next]_vars
    PROVE  KeptInv'
<1> SUFFICES ASSUME faults' = 0
             PROVE  KeptInv'
  BY DEF KeptInv
<1>1. faults = 0
  BY FaultsStay
<1>2. CASE Start \/ Gone \/ Publish \/ \E m \in Rumors : React(m)
  BY <1>2, QueueKept, ReactKept
<1>3. CASE ~(Start \/ Gone \/ Publish \/ \E m \in Rumors : React(m))
  <2>1. UNCHANGED deliveryVars
    BY <1>3 DEF Next, vars, Subscribe, Drop, Take, Handle, LoopEnds, CancelPub, Returns,
                Receive, Send, PubReturns, Prune, Stop, NewDay
  <2>2. \A m \in Rumors : Acknowledged(m)' => m \in reacting' \/ fate'[m] # "new"
    BY <1>3, <2>1, LoopKept
  <2> QED
    BY <1>1, <2>1, <2>2 DEF KeptInv, deliveryVars, Outbox!Owed
<1> QED
  BY <1>2, <1>3

\* However often the bot is stopped and started, no reaction is lost, and when
\* Run returns that to every rumor the application has taken is in the table,
\* or was delivered or given up before, unless something failed: the reactions
\* run under a context of their own, drainAndShutdown waits for them before it
\* cancels the publish queue, and for that before Run returns.
THEOREM ShutdownKeepsReactions == Spec => []ReactionsKept
<1>1. Init => CleanInv /\ KeptInv
  BY DEF Init, CleanInv, InLoop, KeptInv, Acknowledged, Outbox!Init, Outbox!Owed
<1>2. TypeInv /\ (CleanInv /\ KeptInv) /\ [Next]_vars => (CleanInv /\ KeptInv)'
  BY CleanStep, KeptStep
<1>3. TypeInv /\ CleanInv /\ KeptInv => ReactionsKept
  <2> SUFFICES ASSUME TypeInv, CleanInv, KeptInv, faults = 0, bpc = "returned",
                      NEW m \in Rumors, handled[m] # 0
               PROVE  m \in stored \/ fate[m] \in {"delivered", "abandoned"}
    BY DEF KeptInv, ReactionsKept
  <2>1. fate[m] \notin {"new", "lost"}
    BY DEF CleanInv, KeptInv, Acknowledged
  <2>2. fate[m] = "owed" => m \in stored
    BY DEF KeptInv, Outbox!Owed
  <2> QED
    BY <2>1, <2>2 DEF TypeInv, TypeOK, Outbox!Fates
<1> QED
  BY <1>1, <1>2, <1>3, TypeInvariant, PTL DEF Spec
-----------------------------------------------------------------------------
(* Nothing missed.                                                         *)

\* A rumor of the conversation that is still to be handled.
Open(m) == m \in Sent /\ m \in Legitimate /\ handled[m] = 0 /\ m \notin excused

HasRows == \E m \in Rumors : seen[m] # 0

\* There has been a subscription since the start.
Subscribed == bpc \notin {"off", "starting"}

\* The rumor in the loop came from the subscription; a rumor that is marked
\* has been handled, or need not be; what the subscription handed over is
\* done with.
LoopInv ==
    /\ got \subseteq Sent
    /\ cur # Nobody => cur \in Matching
    /\ \A m \in Legitimate : seen[m] # 0 => handled[m] # 0 \/ m \in excused \/ m = cur
    /\ InLoop /\ ~stopping => \A m \in got : Open(m) => m = cur

\* The subscription, or the one that follows, reaches back to every rumor
\* that is still to be handled.
ReachInv ==
    /\ Subscribed => /\ since <= Back(day)
                     /\ \A m \in Rumors : Open(m) => created[m] >= since
    /\ ~Subscribed /\ HasRows => \A m \in Rumors : Open(m) => created[m] >= Since

\* The queue is loaded; nothing changes for the rumors.
LEMMA StartMiss ==
    ASSUME TypeInv, LoopInv, ReachInv, Start
    PROVE  LoopInv' /\ ReachInv'
<1> USE NostrAssumption DEF TypeInv, TypeOK
<1>1. LoopInv'
  BY DEF Start, history, LoopInv, InLoop, Open, Sent, Matching
<1>2. Since' = Since
  BY DEF Start, Since, Newest
<1> QED
  BY <1>1, <1>2 DEF Start, history, ReachInv, Subscribed, HasRows, Open, Sent

\* A subscription from the newest row reaches everything; any other excuses
\* what it passes over.
LEMMA SubscribeMiss ==
    ASSUME TypeInv, LoopInv, ReachInv, Subscribe
    PROVE  LoopInv' /\ ReachInv'
<1> USE NostrAssumption DEF TypeInv, TypeOK
<1>1. excused \subseteq excused'
  BY DEF Subscribe
<1>2. LoopInv'
  BY <1>1 DEF Subscribe, LoopInv, InLoop, Open, Sent, Matching
<1>3. since' <= Back(day)
  <2>1. Back(day) \in Nat
    BY BackBounds DEF DayInv
  <2> QED
    BY <2>1, SinceBounds DEF Subscribe
<1>4. CASE faults' = faults /\ HasRows
  <2>1. since' = Since
    BY <1>4 DEF Subscribe, Fault
  <2> QED
    BY <1>1, <1>2, <1>3, <1>4, <2>1 DEF Subscribe, ReachInv, Subscribed, Back, Open, Sent
<1>5. CASE ~(faults' = faults /\ HasRows)
  <2>1. excused' = excused \cup PassedOver(since')
    BY <1>5 DEF Subscribe, HasRows
  <2>2. since' \in Nat
    <3>1. Back(day) \in Nat
      BY BackBounds DEF DayInv
    <3> QED
      BY <3>1, SinceBounds DEF Subscribe
  <2>3. \A m \in Rumors : Open(m)' => created[m] >= since'
    BY <2>1, <2>2 DEF Subscribe, PassedOver, Open, Sent
  <2> QED
    BY <1>2, <1>3, <2>3 DEF Subscribe, ReachInv, Subscribed, Back
<1> QED
  BY <1>4, <1>5

\* Inside of a subscription what it reaches stays as it is.
LEMMA ReachStays ==
    ASSUME ReachInv, Subscribed, Subscribed', UNCHANGED <<day, created, since>>,
           \A m \in Rumors : Open(m)' => Open(m)
    PROVE  ReachInv'
BY DEF ReachInv, Back

\* A rumor that is handed over is done with, or in the loop from then on.
LEMMA ReceiveMiss ==
    ASSUME TypeInv, LoopInv, ReachInv, NEW m \in Rumors, Receive(m)
    PROVE  LoopInv' /\ ReachInv'
<1> USE NostrAssumption DEF TypeInv, TypeOK
<1>1. UNCHANGED <<day, created, since, stopping, handled, excused>>
  BY DEF Receive
<1>2. ReachInv'
  BY <1>1, ReachStays DEF Receive, Duplicate, New, Unmarked, Subscribed, Open, Sent
<1>3. got' = got \cup {m} /\ m \in Matching /\ cur = Nobody
  BY DEF Receive
<1>4. /\ Sent' = Sent /\ Matching' = Matching /\ Legitimate' = Legitimate
      /\ \A n \in Rumors : Open(n)' <=> Open(n)
  BY <1>1 DEF Open, Sent, Matching, Legitimate
<1>5. got' \subseteq Sent
  BY <1>3 DEF LoopInv, Matching
<1>6. \/ Duplicate(m) /\ cur' = cur /\ seen' = seen /\ seen[m] # 0
      \/ cur' = m /\ \A n \in Rumors \ {m} : seen'[n] = seen[n]
  BY DEF Receive, Duplicate, New, Unmarked
<1>7. cur' # Nobody => cur' \in Matching
  BY <1>3, <1>6
<1>8. \A n \in Legitimate : seen'[n] # 0 => handled[n] # 0 \/ n \in excused \/ n = cur'
  <2>1. \A n \in Legitimate : n \in Rumors /\ n # Nobody
    BY DEF Legitimate
  <2> QED
    BY <1>3, <1>6, <2>1 DEF LoopInv
<1>9. InLoop
  BY DEF Receive, InLoop
<1>10. ~stopping => \A n \in got' : Open(n) => n = cur'
  <2>1. \A n \in got : ~stopping => ~Open(n)
    BY <1>3, <1>9 DEF LoopInv
  <2>2. seen[m] # 0 => ~Open(m)
    BY <1>3 DEF LoopInv, Open
  <2> QED
    BY <1>3, <1>6, <2>1, <2>2
<1>11. ~stopping' => \A n \in got' : Open(n)' => n = cur'
  BY <1>1, <1>4, <1>5, <1>10 DEF Sent
<1> QED
  BY <1>1, <1>2, <1>4, <1>5, <1>7, <1>8, <1>11 DEF LoopInv

\* A rumor leaves the loop handled or excused, unless Run is stopping.
LEMMA HandlerMiss ==
    ASSUME TypeInv, LoopInv, ReachInv, Drop \/ Take \/ Handle
    PROVE  LoopInv' /\ ReachInv'
<1> USE NostrAssumption DEF TypeInv, TypeOK
<1>1. /\ UNCHANGED <<day, created, seen, since, stopping, got>>
      /\ Subscribed /\ Subscribed' /\ InLoop
      /\ cur \in Rumors
  BY DEF Drop, Take, Handle, Subscribed, InLoop, history
<1>2. /\ excused \subseteq excused'
      /\ \A m \in Rumors : handled[m] # 0 => handled'[m] # 0
  BY DEF Drop, Take, Handle, history
<1>3. ReachInv'
  BY <1>1, <1>2, ReachStays DEF Open, Sent
<1>0. /\ Sent' = Sent /\ Matching' = Matching /\ Legitimate' = Legitimate
      /\ \A n \in Rumors : Open(n)' => Open(n)
  BY <1>1, <1>2 DEF Open, Sent, Matching, Legitimate
<1>4. CASE Take
  <2>1. UNCHANGED <<cur, handled, excused>>
    BY <1>4 DEF Take, history
  <2>2. ~stopping' => \A m \in got' : Open(m)' => m = cur'
    BY <1>0, <1>1, <2>1 DEF LoopInv
  <2> QED
    BY <1>0, <1>1, <1>3, <2>1, <2>2 DEF LoopInv
<1>5. CASE Drop \/ Handle
  <2>1. cur' = Nobody
    BY <1>5 DEF Drop, Handle
  <2>2. \/ handled'[cur] # 0 \/ cur \in excused'
        \/ seen[cur] = 0 /\ stopping
    BY <1>1, <1>5 DEF Drop, Handle
  <2>3. \A n \in Legitimate : seen'[n] # 0 => handled'[n] # 0 \/ n \in excused'
    BY <1>1, <1>2, <2>2 DEF LoopInv, Legitimate
  <2>4. ~stopping => \A n \in got : ~Open(n)'
    <3>1. \A n \in Rumors : n = cur /\ ~stopping => ~Open(n)'
      BY <2>2 DEF Open
    <3> QED
      BY <1>0, <1>1, <3>1 DEF LoopInv
  <2> QED
    BY <1>0, <1>1, <1>3, <2>1, <2>3, <2>4 DEF LoopInv
<1> QED
  BY <1>3, <1>4, <1>5

\* A step after which the loop does not run, and that only excuses more.
LEMMA LeaveMiss ==
    ASSUME TypeInv, LoopInv, ReachInv, LoopEnds \/ CancelPub \/ Returns \/ Stop
    PROVE  LoopInv' /\ ReachInv'
<1>1. UNCHANGED <<day, created, seen, since, cur, got, handled, excused>>
  BY DEF LoopEnds, CancelPub, Returns, Stop, history
<1>2. Subscribed /\ Subscribed' /\ (stopping' \/ ~InLoop')
  BY DEF LoopEnds, CancelPub, Returns, Stop, Subscribed, InLoop
<1>3. ReachInv'
  BY <1>1, <1>2, ReachStays DEF Open, Sent
<1> QED
  BY <1>1, <1>2, <1>3 DEF LoopInv, Open, Sent, Matching

\* The end of the process cuts off only what it excuses.
LEMMA GoneMiss ==
    ASSUME TypeInv, LoopInv, ReachInv, Gone
    PROVE  LoopInv' /\ ReachInv'
<1> USE NostrAssumption DEF TypeInv, TypeOK
<1>1. /\ UNCHANGED <<day, created, seen, since, got, handled>>
      /\ bpc # "off" /\ bpc' = "off" /\ cur' = Nobody
      /\ excused \subseteq excused'
      /\ cur # Nobody /\ seen[cur] # 0 => cur \in excused'
      /\ bpc # "starting" => CutOff \subseteq excused'
  BY DEF Gone
<1>2. LoopInv'
  BY <1>1 DEF LoopInv, InLoop, Open, Sent, Matching, Legitimate
<1>3. Since' = Since
  BY <1>1 DEF Since, Newest, Back
<1>4. Since \in Nat
  BY SinceBounds
<1>5. ASSUME HasRows, NEW m \in Rumors, Open(m)'
      PROVE  created[m] >= Since
  <2>1. Open(m)
    BY <1>1, <1>5 DEF Open, Sent
  <2>2. CASE bpc = "starting"
    BY <1>5, <2>1, <2>2 DEF ReachInv, Subscribed
  <2>3. CASE bpc # "starting"
    <3>1. m \in Matching
      BY <1>1, <2>1, <2>3 DEF ReachInv, Subscribed, Matching, Open
    <3>2. m \notin CutOff
      BY <1>1, <1>5, <2>3 DEF Open
    <3> QED
      BY <1>4, <2>1, <3>1, <3>2 DEF CutOff, Open
  <2> QED
    BY <2>2, <2>3
<1> QED
  BY <1>1, <1>2, <1>3, <1>5 DEF ReachInv, Subscribed, HasRows

\* A sender dates the wrap back by no more than the margin covers.
LEMMA SendMiss ==
    ASSUME TypeInv, LoopInv, ReachInv, NEW m \in Rumors, Send(m)
    PROVE  LoopInv' /\ ReachInv'
<1> USE NostrAssumption DEF TypeInv, TypeOK
<1>1. UNCHANGED <<day, seen, bpc, since, cur, stopping, got, handled, excused>>
  BY DEF Send, loopVars, history
<1>2. m \notin Sent
  BY DEF Send
<1>3. PICK d \in (day - Window)..day : created' = [created EXCEPT ![m] = d]
  BY DEF Send
<1>4. d \in Nat /\ d # 0 /\ Back(day) <= d
  <2>1. Back(day) \in Nat /\ Back(day) <= day - Window
    BY BackBounds DEF DayInv
  <2> QED
    BY <1>3, <2>1 DEF DayInv
<1>5. Sent' = Sent \cup {m}
  BY <1>3, <1>4 DEF Sent
<1>6. \A n \in Rumors \ {m} : Open(n)' <=> Open(n)
  BY <1>1, <1>5 DEF Open, Legitimate
<1>7. \A n \in Sent : created'[n] = created[n]
  BY <1>2, <1>3 DEF Sent
<1>8. LoopInv'
  BY <1>1, <1>2, <1>5, <1>6, <1>7 DEF LoopInv, InLoop, Matching, Legitimate
<1>9. Since' = Since
  BY <1>1 DEF Since, Newest, Back
<1>10. Since \in Nat /\ Since <= Back(day) /\ Back(day) \in Nat
  BY SinceBounds, BackBounds DEF DayInv
<1>11. \A n \in Rumors : Open(n)' => n = m \/ (Open(n) /\ n \in Sent)
  BY <1>6 DEF Open
<1>12. created'[m] = d /\ Back(day') = Back(day)
  BY <1>1, <1>3 DEF Back
<1>13. Subscribed => since' <= Back(day') /\ \A n \in Rumors : Open(n)' => created'[n] >= since'
  BY <1>1, <1>4, <1>7, <1>10, <1>11, <1>12 DEF ReachInv
<1>14. ~Subscribed /\ HasRows => \A n \in Rumors : Open(n)' => created'[n] >= Since
  BY <1>4, <1>7, <1>10, <1>11, <1>12 DEF ReachInv
<1> QED
  BY <1>1, <1>8, <1>9, <1>13, <1>14 DEF ReachInv, Subscribed, HasRows

\* The next day moves no bound forward that was fixed before.
LEMMA NewDayMiss ==
    ASSUME TypeInv, LoopInv, ReachInv, NewDay
    PROVE  LoopInv' /\ ReachInv'
<1> USE NostrAssumption DEF TypeInv, TypeOK
<1>1. UNCHANGED <<created, seen, bpc, since, cur, stopping, got, handled, excused>>
  BY DEF NewDay, loopVars, history
<1>2. LoopInv'
  BY <1>1 DEF LoopInv, InLoop, Open, Sent, Matching, Legitimate
<1>3. Back(day) <= Back(day') /\ Back(day) \in Nat /\ Back(day') \in Nat
  BY BackBounds DEF NewDay, DayInv
<1>4. HasRows => Since' = Since
  BY <1>1 DEF HasRows, Since, Newest, Back
<1> QED
  BY <1>1, <1>2, <1>3, <1>4 DEF ReachInv, Subscribed, HasRows, Open, Sent, Legitimate

\* The steps of the other goroutines take no part, but for pruning, which
\* happens only while there is a subscription.
LEMMA OtherMiss ==
    ASSUME TypeInv, LoopInv, ReachInv,
           (\E m \in Rumors : React(m)) \/ Publish \/ PubReturns \/ Prune \/ UNCHANGED vars
    PROVE  LoopInv' /\ ReachInv'
<1>1. UNCHANGED <<day, created, bpc, since, cur, stopping, got, handled, excused>>
  BY DEF React, Publish, PubReturns, Prune, vars, loopVars, history
<1>2. CASE UNCHANGED seen
  <2>1. Since' = Since
    BY <1>1, <1>2 DEF Since, Newest, Back
  <2> QED
    BY <1>1, <1>2, <2>1 DEF LoopInv, ReachInv, InLoop, Subscribed, HasRows, Open, Sent,
                            Matching, Back
<1>3. CASE Prune
  <2>1. Subscribed /\ Subscribed'
    BY <1>1, <1>3 DEF Prune, Subscribed
  <2>2. ReachInv'
    BY <1>1, <2>1, ReachStays DEF Open, Sent
  <2>3. \A m \in Rumors : seen'[m] # 0 => seen[m] # 0
    BY <1>3 DEF Prune
  <2> QED
    BY <1>1, <2>2, <2>3 DEF LoopInv, InLoop, Open, Sent, Matching, Legitimate
<1> QED
  BY <1>2, <1>3 DEF React, Publish, PubReturns, vars, loopVars

\* When the relays have nothing left for a subscription, every rumor of the
\* conversation that was sent has been handled, unless the bot is expected to
\* pass over it: subscriptionSince goes back by a margin that covers the
\* dating back of the wraps, from the newest row or from now.
THEOREM NothingIsMissed == Spec => []NothingMissed
<1>1. Init => LoopInv /\ ReachInv
  BY DEF Init, LoopInv, ReachInv, InLoop, Subscribed, HasRows, Open, Sent, Legitimate
<1>2. TypeInv /\ (LoopInv /\ ReachInv) /\ [Next]_vars => (LoopInv /\ ReachInv)'
  BY StartMiss, SubscribeMiss, ReceiveMiss, HandlerMiss, LeaveMiss, GoneMiss, SendMiss,
     NewDayMiss, OtherMiss DEF Next
<1>3. TypeInv /\ LoopInv /\ ReachInv => NothingMissed
  BY NostrAssumption DEF TypeInv, TypeOK, LoopInv, ReachInv, InLoop, Subscribed, Matching, Sent,
     Open, NothingMissed
<1> QED
  BY <1>1, <1>2, <1>3, TypeInvariant, PTL DEF Spec
=============================================================================
