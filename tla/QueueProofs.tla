---------------------------- MODULE QueueProofs -----------------------------
(***************************************************************************)
(* The publish queue for every set of events and relays, every threshold,  *)
(* cooldown and deadline, and any number of crashes and failing statements.*)
(***************************************************************************)
EXTENDS PublishQueue, TLAPS, FiniteSetTheorems, SequenceTheorems

-----------------------------------------------------------------------------
(* Lists.  Among is recursive; what it returns is proved by taking the     *)
(* shortest prefix that violates the claim.                                *)

\* A set of natural numbers that is not empty has a least element.
LEMMA LeastNumber ==
    ASSUME NEW T \in SUBSET Nat, T # {}
    PROVE  \E m \in T : \A k \in T : m <= k
<1> DEFINE R == OpToRel(<, Nat)
<1>1. IsWellFoundedOn(R, Nat)
  BY NatLessThanWellFounded
<1>2. \A x, y \in Nat : x < y => <<x, y>> \in R
  BY DEF OpToRel
<1> HIDE DEF R
<1>3. PICK m \in T : \A k \in T : <<k, m>> \notin R
  BY <1>1, WFMin
<1>4. ASSUME NEW k \in T
      PROVE  m <= k
  <2>1. k \in Nat /\ m \in Nat
    OBVIOUS
  <2>2. ~(k < m)
    BY <1>2, <1>3, <2>1
  <2> QED
    BY <2>1, <2>2
<1> QED
  BY <1>4

\* What holds at 0 and is handed on from each number to the next holds up to n.
LEMMA Upwards ==
    ASSUME NEW n \in Nat, NEW Good, 0 \in Good,
           \A m \in 1..n : m - 1 \in Good => m \in Good
    PROVE  \A m \in 0..n : m \in Good
<1> DEFINE Bad == {m \in 0..n : m \notin Good}
<1> SUFFICES ASSUME Bad # {}
             PROVE  FALSE
  OBVIOUS
<1>1. Bad \in SUBSET Nat
  OBVIOUS
<1>2. PICK m \in Bad : \A k \in Bad : m <= k
  BY <1>1, LeastNumber
<1>3. m \in 1..n /\ m - 1 \in 0..n
  OBVIOUS
<1>4. m - 1 \notin Bad
  BY <1>2, <1>3
<1> QED
  BY <1>3, <1>4

\* The step from a prefix to the next element, as in Among.
KeptTo(s, es, n, f) ==
    f = [m \in 0..n |-> IF m = 0 THEN <<>>
                        ELSE IF s[m] \in es THEN Append(f[m - 1], s[m]) ELSE f[m - 1]]

\* The recursive definition in Among has a solution.
LEMMA KeptExists ==
    ASSUME NEW s, NEW es, NEW n \in Nat
    PROVE  \E f : KeptTo(s, es, n, f)
<1> DEFINE Good == {m \in 0..n : \E f : KeptTo(s, es, m, f)}
<1>1. 0 \in Good
  <2>1. KeptTo(s, es, 0, [m \in 0..0 |-> <<>>])
    BY DEF KeptTo
  <2> QED
    BY <2>1
<1>2. ASSUME NEW m \in 1..n, m - 1 \in Good
      PROVE  m \in Good
  <2>1. PICK f : KeptTo(s, es, m - 1, f)
    BY <1>2
  <2> DEFINE g == [k \in 0..m |-> IF k < m THEN f[k]
                                  ELSE IF s[m] \in es THEN Append(f[m - 1], s[m])
                                  ELSE f[m - 1]]
  <2>2. \A k \in 0..m - 1 : f[k] = IF k = 0 THEN <<>>
                                   ELSE IF s[k] \in es THEN Append(f[k - 1], s[k])
                                   ELSE f[k - 1]
    BY <2>1 DEF KeptTo
  <2>3. \A k \in 0..m : g[k] = IF k = 0 THEN <<>>
                               ELSE IF s[k] \in es THEN Append(g[k - 1], s[k])
                               ELSE g[k - 1]
    BY <2>2
  <2>4. KeptTo(s, es, m, g)
    BY <2>3 DEF KeptTo
  <2> QED
    BY <2>4
<1> HIDE DEF Good
<1>3. \A m \in 0..n : m \in Good
  BY <1>1, <1>2, Upwards
<1> QED
  BY <1>3 DEF Good

\* ... and obeys its equations.
Equations(s, es, n, f) ==
    /\ f[0] = <<>>
    /\ \A m \in 1..n : f[m] = IF s[m] \in es THEN Append(f[m - 1], s[m]) ELSE f[m - 1]

\* The equations of the table of Among, without the bound 0.
LEMMA KeptEquations ==
    ASSUME NEW s, NEW es, NEW n \in Nat, NEW f, KeptTo(s, es, n, f)
    PROVE  Equations(s, es, n, f)
<1>1. \A m \in 0..n : f[m] = IF m = 0 THEN <<>>
                             ELSE IF s[m] \in es THEN Append(f[m - 1], s[m]) ELSE f[m - 1]
  BY DEF KeptTo
<1> QED
  BY <1>1 DEF Equations

\* Distinct(s): no element is twice in s.
Distinct(s) == \A i, j \in DOMAIN s : s[i] = s[j] => i = j

\* What Among returns: a sequence of exactly the elements of s that are in es,
\* none of them more often than in s.
LEMMA AmongResult ==
    ASSUME NEW S, NEW s \in Seq(S), NEW es
    PROVE  /\ Among(s, es) \in Seq(S)
           /\ InMemory(Among(s, es)) = InMemory(s) \cap es
           /\ Distinct(s) => Distinct(Among(s, es))
<1> DEFINE kept == CHOOSE f : KeptTo(s, es, Len(s), f)
           Prefix(n) == {s[i] : i \in 1..n}
           Good == {n \in 0..Len(s) :
                      /\ kept[n] \in Seq(S)
                      /\ InMemory(kept[n]) = Prefix(n) \cap es
                      /\ Distinct(s) => Distinct(kept[n])}
<1>1. Among(s, es) = kept[Len(s)]
  BY DEF Among, KeptTo
<1>2. Len(s) \in Nat /\ DOMAIN s = 1..Len(s) /\ \A i \in 1..Len(s) : s[i] \in S
  OBVIOUS
<1>3. KeptTo(s, es, Len(s), kept)
  BY <1>2, KeptExists
<1> HIDE DEF kept
<1>4. /\ kept[0] = <<>>
      /\ \A n \in 1..Len(s) : kept[n] = IF s[n] \in es THEN Append(kept[n - 1], s[n])
                                        ELSE kept[n - 1]
  <2>1. Equations(s, es, Len(s), kept)
    BY <1>2, <1>3, KeptEquations
  <2> QED
    BY <2>1 DEF Equations
<1>5. 0 \in Good
  <2>1. Prefix(0) = {} /\ InMemory(<<>>) = {} /\ Distinct(<<>>) /\ <<>> \in Seq(S)
    BY DEF InMemory, Distinct
  <2>2. kept[0] = <<>> /\ 0 \in 0..Len(s)
    BY <1>2, <1>4
  <2>3. InMemory(kept[0]) = Prefix(0) \cap es /\ Distinct(kept[0]) /\ kept[0] \in Seq(S)
    BY <2>1, <2>2
  <2> QED
    BY <2>2, <2>3
<1>6. ASSUME NEW n \in 1..Len(s), n - 1 \in Good
      PROVE  n \in Good
  <2>1. /\ n - 1 \in Nat /\ n \in Nat /\ s[n] \in S
        /\ Prefix(n) = Prefix(n - 1) \cup {s[n]}
    BY <1>2
  <2>2. CASE s[n] \notin es
    <3>1. kept[n] = kept[n - 1]
      BY <1>4, <2>2
    <3> QED
      BY <1>6, <2>1, <2>2, <3>1
  <2>3. CASE s[n] \in es
    <3>1. kept[n] = Append(kept[n - 1], s[n]) /\ kept[n - 1] \in Seq(S)
      BY <1>4, <1>6, <2>3
    <3> DEFINE k == kept[n - 1]
    <3>2. /\ kept[n] \in Seq(S) /\ Len(kept[n]) = Len(k) + 1
          /\ \A i \in 1..Len(k) : kept[n][i] = k[i]
          /\ kept[n][Len(k) + 1] = s[n]
      BY <2>1, <3>1
    <3>3. InMemory(kept[n]) = InMemory(k) \cup {s[n]}
      <4>1. DOMAIN kept[n] = 1..Len(k) + 1 /\ DOMAIN k = 1..Len(k) /\ Len(k) \in Nat
        BY <3>1, <3>2
      <4>2. \A i \in 1..Len(k) + 1 : i \in 1..Len(k) \/ i = Len(k) + 1
        BY <4>1
      <4> HIDE DEF k
      <4>3. {kept[n][i] : i \in 1..Len(k) + 1} = {k[i] : i \in 1..Len(k)} \cup {s[n]}
        BY <3>2, <4>1, <4>2
      <4> QED
        BY <4>1, <4>3 DEF InMemory, k
    <3>4. InMemory(kept[n]) = Prefix(n) \cap es
      BY <1>6, <2>1, <2>3, <3>3
    <3>5. ASSUME Distinct(s)
          PROVE  Distinct(kept[n])
      <4>1. s[n] \notin Prefix(n - 1)
        BY <1>2, <2>1, <3>5 DEF Distinct
      <4>2. s[n] \notin InMemory(k) /\ Distinct(k)
        BY <1>6, <3>5, <4>1
      <4>3. \A i \in 1..Len(k) : k[i] # s[n]
        BY <3>1, <4>2 DEF InMemory
      <4> QED
        BY <3>1, <3>2, <4>2, <4>3 DEF Distinct
    <3> QED
      BY <3>2, <3>4, <3>5
  <2> QED
    BY <2>2, <2>3
<1> HIDE DEF Good
<1>7. \A n \in 0..Len(s) : n \in Good
  BY <1>2, <1>5, <1>6, Upwards
<1>8. Len(s) \in Good
  BY <1>2, <1>7
<1>9. Prefix(Len(s)) = InMemory(s)
  BY <1>2 DEF InMemory
<1> QED
  BY <1>1, <1>8, <1>9 DEF Good

\* Without keeps the order and the rest.
LEMMA WithoutResult ==
    ASSUME NEW s \in Seq(Events), NEW es
    PROVE  /\ Without(s, es) \in Seq(Events)
           /\ InMemory(Without(s, es)) = InMemory(s) \ es
           /\ Distinct(s) => Distinct(Without(s, es))
<1>1. InMemory(s) \subseteq Events
  BY DEF InMemory
<1> QED
  BY <1>1, AmongResult DEF Without

\* A list is finite.
LEMMA ListFinite ==
    ASSUME NEW S, NEW s \in Seq(S)
    PROVE  IsFiniteSet(InMemory(s)) /\ InMemory(s) \subseteq S
<1>1. IsFiniteSet(DOMAIN s)
  <2>1. DOMAIN s = 1..Len(s) /\ Len(s) \in Int /\ 1 \in Int
    OBVIOUS
  <2> QED
    BY <2>1, FS_Interval
<1>2. s \in Surjection(DOMAIN s, InMemory(s))
  BY DEF Surjection, InMemory
<1>3. IsFiniteSet(InMemory(s))
  BY <1>1, <1>2, FS_Surjection
<1>4. InMemory(s) \subseteq S
  BY DEF InMemory
<1> QED
  BY <1>3, <1>4

\* How a list grows and shrinks.
LEMMA AppendResult ==
    ASSUME NEW S, NEW s \in Seq(S), NEW e \in S
    PROVE  /\ Append(s, e) \in Seq(S)
           /\ InMemory(Append(s, e)) = InMemory(s) \cup {e}
           /\ Distinct(s) /\ e \notin InMemory(s) => Distinct(Append(s, e))
<1> DEFINE t == Append(s, e)
           n == Len(s)
<1>1. /\ t \in Seq(S) /\ n \in Nat /\ DOMAIN s = 1..n /\ DOMAIN t = 1..n + 1
      /\ \A i \in 1..n : t[i] = s[i]
      /\ t[n + 1] = e
      /\ \A i \in 1..n + 1 : i \in 1..n \/ i = n + 1
      /\ 1..n \subseteq 1..n + 1 /\ n + 1 \in 1..n + 1
  OBVIOUS
<1> HIDE DEF t, n
<1>2. InMemory(t) = InMemory(s) \cup {e}
  BY <1>1 DEF InMemory
<1>3. ASSUME Distinct(s), e \notin InMemory(s)
      PROVE  Distinct(t)
  <2>1. \A i \in 1..n : t[i] # e
    BY <1>1, <1>3 DEF InMemory
  <2> QED
    BY <1>1, <1>3, <2>1 DEF Distinct
<1> QED
  BY <1>1, <1>2, <1>3 DEF t

\* The head and the tail of a list, which keeps its elements distinct.
LEMMA TailResult ==
    ASSUME NEW S, NEW s \in Seq(S), s # <<>>
    PROVE  /\ Head(s) \in InMemory(s) /\ Tail(s) \in Seq(S)
           /\ InMemory(Tail(s)) \subseteq InMemory(s)
           /\ Distinct(s) => Distinct(Tail(s)) /\ Head(s) \notin InMemory(Tail(s))
<1> DEFINE t == Tail(s)
           n == Len(s)
<1>1. /\ t \in Seq(S) /\ n \in Nat \ {0} /\ DOMAIN s = 1..n /\ DOMAIN t = 1..n - 1
      /\ \A i \in 1..n - 1 : t[i] = s[i + 1] /\ i + 1 \in 1..n /\ i + 1 # 1
      /\ Head(s) = s[1] /\ 1 \in 1..n
      /\ \A i, j \in 1..n - 1 : i + 1 = j + 1 => i = j
  OBVIOUS
<1> HIDE DEF t, n
<1>2. Head(s) \in InMemory(s) /\ InMemory(t) \subseteq InMemory(s)
  BY <1>1 DEF InMemory
<1>3. ASSUME Distinct(s)
      PROVE  Distinct(t) /\ Head(s) \notin InMemory(t)
  <2>1. \A i, j \in 1..n : s[i] = s[j] => i = j
    BY <1>1, <1>3 DEF Distinct
  <2>2. \A i \in 1..n - 1 : t[i] # s[1]
    BY <1>1, <2>1
  <2>3. \A i, j \in 1..n - 1 : t[i] = t[j] => i = j
    BY <1>1, <2>1
  <2> QED
    BY <1>1, <2>2, <2>3 DEF Distinct, InMemory
<1> QED
  BY <1>1, <1>2, <1>3 DEF t

\* What the empty and the one-element lists hold.
LEMMA ShortLists ==
    /\ InMemory(<<>>) = {} /\ Distinct(<<>>)
    /\ \A e : InMemory(<<e>>) = {e} /\ Distinct(<<e>>)
BY DEF InMemory, Distinct

-----------------------------------------------------------------------------
(* Types, and what the drain goroutine has in hand at each of its steps.   *)

Offering == {"publish", "answer"}

Stages ==
    /\ qpc \in Offering => relay \in Relays /\ work[relay] = <<>>
    /\ qpc \notin Offering => relay = NoRelay /\ batch = <<>>
    /\ qpc = "answer" => batch # <<>>
    /\ qpc \notin Offering \cup {"relays"} => work = NoWork /\ probes = {}

TypeInv == TypeOK /\ Stages

\* The item enqueue and load make is an item.
LEMMA NewItemType ==
    ASSUME NEW e \in Events, NEW stored \in BOOLEAN
    PROVE  NewItem(e, stored) \in Items
BY QueueAssumption DEF NewItem, Items

\* An item a relay has taken is an item still.
LEMMA DeliveredType ==
    ASSUME NEW i \in Items, NEW r, NEW gone
    PROVE  Delivered(i, r, gone) \in Items
BY DEF Delivered, Items

\* recordReject leaves an item: its count stays within the threshold.
LEMMA TurnedDownType ==
    ASSUME NEW i \in Items, NEW r \in Relays
    PROVE  TurnedDown(i, r) \in Items
<1> DEFINE n == i.rejects[r] + 1
           k == IF n >= RejectThreshold THEN 0 ELSE n
<1>1. i.rejects \in [Relays -> 0..RejectThreshold]
  BY DEF Items
<1>2. k \in 0..RejectThreshold
  BY <1>1, QueueAssumption
<1> HIDE DEF k
<1>3. [i.rejects EXCEPT ![r] = k] \in [Relays -> 0..RejectThreshold]
  BY <1>1, <1>2
<1>4. TurnedDown(i, r).rejects = [i.rejects EXCEPT ![r] = k]
  BY DEF TurnedDown, Items, k
<1> QED
  BY <1>3, <1>4 DEF TurnedDown, Items

\* A fresh breaker is a breaker.
LEMMA FreshType == Fresh \in Breakers
BY QueueAssumption DEF Fresh, Breakers, States

\* A failing statement is counted within the budget.
LEMMA FailType ==
    ASSUME TypeOK, NEW n \in Nat, Fail(n)
    PROVE  faults' \in 0..MaxFaults
BY QueueAssumption DEF Fail, TypeOK

\* So are the failing ones of several deletes.
LEMMA DeletesType ==
    ASSUME TypeOK, NEW dels, IsFiniteSet(dels), NEW gone, Deletes(dels, gone)
    PROVE  faults' \in 0..MaxFaults
<1>1. Cardinality(dels \ gone) \in Nat
  BY FS_Subset, FS_CardinalityType
<1> QED
  BY <1>1, FailType DEF Deletes, TypeOK

\* evictLocked takes from the queue exactly what it drops, and from the table
\* exactly the rows it could delete, all of them of dropped items.
LEMMA EvictResult ==
    ASSUME TypeOK, NEW gone \in SUBSET ToDelete, Evict(gone)
    PROVE  /\ queue' \in Seq(Events) /\ rows' \in Seq(Events) /\ faults' \in 0..MaxFaults
           /\ InMemory(queue') = InMemory(queue) \ Dropped(gone)
           /\ InMemory(rows') = InMemory(rows) \ gone
           /\ Distinct(queue) => Distinct(queue')
           /\ Distinct(rows) => Distinct(rows')
           /\ gaveUp' = gaveUp \cup (Dropped(gone) \ taken) /\ taken' = taken
           /\ gone \subseteq Dropped(gone) /\ Dropped(gone) \subseteq InMemory(queue)
           /\ Dropped(gone) \subseteq Events
<1>1. InMemory(queue) \subseteq Events /\ IsFiniteSet(InMemory(queue))
  BY ListFinite DEF TypeOK
<1>2. ToDelete \subseteq InMemory(queue) /\ Dropped(gone) \subseteq InMemory(queue)
  BY DEF ToDelete, Dropped
<1>3. IsFiniteSet(ToDelete)
  BY <1>1, <1>2, FS_Subset
<1>4. faults' \in 0..MaxFaults
  BY <1>3, DeletesType DEF Evict
<1>5. gone \subseteq Dropped(gone)
  BY DEF ToDelete, Dropped
<1> QED
  BY <1>1, <1>2, <1>4, <1>5, WithoutResult DEF Evict, TypeOK

\* What is pending for a relay is a list of events.
LEMMA PendingAtResult ==
    ASSUME NEW q \in Seq(Events), NEW r
    PROVE  /\ PendingAt(q, r) \in Seq(Events)
           /\ \A e \in InMemory(PendingAt(q, r)) : e \in InMemory(q) /\ r \in item[e].pending
           /\ Distinct(q) => Distinct(PendingAt(q, r))
BY AmongResult DEF PendingAt

\* onFailure keeps the cooldown within its limit, doubled or not.
LEMMA OnFailureType ==
    ASSUME TypeOK, NEW r \in Relays, OnFailure(r)
    PROVE  breakers' \in [Relays -> Breakers]
<1> DEFINE b == breakers[r]
<1>1. /\ b \in Breakers /\ b.state \in States /\ b.failures \in 0..BreakerThreshold
      /\ b.cooldown \in 0..MaxCooldown /\ b.due \in 0..MaxCooldown
  BY DEF TypeOK, Breakers
<1> DEFINE failures == Smaller(b.failures + 1, BreakerThreshold)
           trips == b.state = "halfOpen" \/ failures = BreakerThreshold
           cooldown == IF b.state = "closed" THEN BaseCooldown
                       ELSE Smaller(b.cooldown * 2, MaxCooldown)
           new == IF trips THEN [state |-> "open", failures |-> failures, cooldown |-> cooldown,
                                 due |-> cooldown]
                  ELSE [b EXCEPT !.failures = failures]
<1>2. failures \in 0..BreakerThreshold
  BY <1>1, QueueAssumption DEF Smaller
<1>3. cooldown \in 0..MaxCooldown
  BY <1>1, QueueAssumption DEF Smaller
<1> HIDE DEF failures, cooldown
<1>4. new \in Breakers
  BY <1>1, <1>2, <1>3 DEF Breakers, States
<1>5. breakers' = [breakers EXCEPT ![r] = new]
  BY DEF OnFailure, failures, cooldown
<1> QED
  BY <1>4, <1>5 DEF TypeOK

\* Of numbers one is the smallest, so the CHOOSE in nextWakeLocked finds it.
LEMMA NextWakeType ==
    ASSUME NEW q, NEW b \in [Relays -> Breakers], Wanted(q) \subseteq Relays
    PROVE  NextWake(q, b) \in 0..MaxCooldown
<1> DEFINE W == Wanted(q)
<1>1. CASE W = {}
  BY <1>1, QueueAssumption DEF NextWake
<1>2. CASE \E r \in W : b[r].state # "open"
  BY <1>2, QueueAssumption DEF NextWake
<1>3. CASE W # {} /\ ~\E r \in W : b[r].state # "open"
  <2> DEFINE T == {b[r].due : r \in W}
  <2>1. \A r \in W : b[r].due \in 0..MaxCooldown
    BY DEF Breakers
  <2>2. T \in SUBSET Nat /\ T # {}
    BY <1>3, <2>1, QueueAssumption
  <2>3. PICK m \in T : \A k \in T : m <= k
    BY <2>2, LeastNumber
  <2>4. \E r \in W : \A s \in W : b[r].due <= b[s].due
    BY <2>3
  <2> DEFINE first == CHOOSE r \in W : \A s \in W : b[r].due <= b[s].due
  <2>5. first \in W
    BY <2>4
  <2>6. NextWake(q, b) = b[first].due
    BY <1>3 DEF NextWake
  <2> HIDE DEF first
  <2> QED
    BY <2>1, <2>5, <2>6
<1> QED
  BY <1>1, <1>2, <1>3

\* The steps by the goroutines that enqueue.
LEMMA EnqueueType ==
    ASSUME TypeInv, NEW e \in Events, Enqueue(e) \/ Signal(e)
    PROVE  TypeInv'
<1> USE DEF TypeInv, TypeOK, Stages
<1>1. CASE Enqueue(e)
  <2>1. NewItem(e, TRUE) \in Items /\ NewItem(e, FALSE) \in Items
    BY NewItemType
  <2>2. /\ rows' = rows \/ rows' = Append(rows, e)
        /\ \/ item' = [item EXCEPT ![e] = NewItem(e, TRUE)]
           \/ item' = [item EXCEPT ![e] = NewItem(e, FALSE)]
        /\ faults' = faults \/ Fail(1)
    BY <1>1 DEF Enqueue
  <2>3. faults' \in 0..MaxFaults
    BY <2>2, FailType
  <2>4. item' \in [Events -> Items]
    <3>1. item \in [Events -> Items]
      OBVIOUS
    <3> HIDE DEF TypeInv, TypeOK, Stages
    <3> QED
      BY <2>1, <2>2, <3>1
  <2>5. rows' \in Seq(Events)
    <3>1. rows' = rows \/ rows' = Append(rows, e)
      BY <1>1 DEF Enqueue
    <3>2. Append(rows, e) \in Seq(Events)
      OBVIOUS
    <3> QED
      BY <3>1, <3>2
  <2>6. queue' \in Seq(Events)
    BY <1>1 DEF Enqueue
  <2>7. /\ epc' = [epc EXCEPT ![e] = "unlocked"]
        /\ UNCHANGED <<age, breakers, wake, qpc, loopVars, cancelled, history>>
    BY <1>1 DEF Enqueue
  <2> QED
    BY <2>3, <2>4, <2>5, <2>6, <2>7 DEF loopVars, history
<1>2. CASE Signal(e)
  BY <1>2 DEF Signal, loopVars, history
<1> QED
  BY <1>1, <1>2

\* The pass that begins (evictLocked, collectWorkLocked) keeps types and stages.
LEMMA StartPassType ==
    ASSUME TypeInv, StartPass
    PROVE  TypeInv'
<1> USE DEF TypeInv, TypeOK, Stages
<1>1. PICK gone \in SUBSET ToDelete : Evict(gone)
  BY DEF StartPass
<1>2. /\ queue' \in Seq(Events) /\ rows' \in Seq(Events) /\ faults' \in 0..MaxFaults
      /\ gaveUp' \subseteq Events /\ taken' = taken
  BY <1>1, EvictResult
<1>3. \A r \in Relays : PendingAt(queue', r) \in Seq(Events)
  BY <1>2, PendingAtResult
<1>4. /\ work' \in [Relays -> Seq(Events)] /\ probes' \subseteq Relays
      /\ breakers' \in [Relays -> Breakers]
  <2>1. Collect(queue')
    BY DEF StartPass
  <2>2. probes' \subseteq {r \in Relays : PendingAt(queue', r) # <<>>}
    BY <2>1 DEF Collect
  <2>3. \A r \in Relays : work'[r] = IF Allow(r) = "all" THEN PendingAt(queue', r)
                                   ELSE IF r \in probes' THEN <<Head(PendingAt(queue', r))>>
                                   ELSE <<>>
    BY <2>1 DEF Collect
  <2>4. \A r \in Relays : work'[r] \in Seq(Events)
    <3>1. \A r \in Relays : PendingAt(queue', r) # <<>> =>
                <<Head(PendingAt(queue', r))>> \in Seq(Events)
      BY <1>3
    <3> QED
      BY <1>3, <2>2, <2>3, <3>1
  <2>5. \A r \in Relays : [breakers[r] EXCEPT !.state = "halfOpen"] \in Breakers
    BY DEF Breakers, States
  <2>6. breakers' \in [Relays -> Breakers]
    BY <2>1, <2>5 DEF Collect
  <2>7. work' \in [Relays -> Seq(Events)]
    BY <2>1, <2>4 DEF Collect
  <2> QED
    BY <2>2, <2>6, <2>7
<1> QED
  BY <1>2, <1>4 DEF StartPass, Pcs, Offering

\* Connecting to a relay, or failing to, does.
LEMMA RelayType ==
    ASSUME TypeInv, NEW r \in Relays, Connect(r) \/ ConnectFails(r)
    PROVE  TypeInv'
<1> USE DEF TypeInv, TypeOK, Stages
<1>1. CASE Connect(r)
  BY <1>1 DEF Connect, history, Pcs, Offering
<1>2. CASE ConnectFails(r)
  <2>1. breakers' \in [Relays -> Breakers]
    BY <1>2, OnFailureType DEF ConnectFails
  <2> QED
    BY <1>2, <2>1 DEF ConnectFails, history, Pcs, Offering
<1> QED
  BY <1>1, <1>2

\* The steps of publishBatch do.
LEMMA PublishType ==
    ASSUME TypeInv, Offer \/ Arrives \/ Published \/ Rejected \/ BatchDone \/ BatchCut
    PROVE  TypeInv'
<1> USE DEF TypeInv, TypeOK, Stages
<1>1. CASE Offer
  BY <1>1 DEF Offer, history, Pcs, Offering
<1>2. CASE Arrives
  BY <1>2 DEF Arrives, loopVars, Pcs, Offering
<1>3. CASE Published
  <2> DEFINE e == Head(batch)
             dels == {d \in {e} : ~item[e].delivered /\ item[e].stored}
  <2>1. e \in Events /\ Tail(batch) \in Seq(Events) /\ relay \in Relays
    <3>1. qpc = "answer"
      BY <1>3 DEF Published
    <3> QED
      BY <3>1 DEF Offering
  <2>2. PICK gone \in SUBSET dels :
            /\ Deletes(dels, gone)
            /\ rows' = Without(rows, gone)
            /\ item' = [item EXCEPT ![e] = Delivered(@, relay, e \in gone)]
    BY <1>3 DEF Published
  <2>3. IsFiniteSet(dels)
    BY FS_Singleton, FS_Subset
  <2>4. faults' \in 0..MaxFaults
    BY <2>2, <2>3, DeletesType
  <2>5. rows' \in Seq(Events)
    BY <2>2, WithoutResult
  <2>6. /\ taken' = taken \cup {e} /\ batch' = Tail(batch) /\ qpc' = "publish" /\ qpc = "answer"
        /\ UNCHANGED <<age, queue, breakers, wake, work, probes, relay, timer, cancelled, epc,
                       gaveUp>>
    BY <1>3 DEF Published
  <2> HIDE DEF e, dels
  <2>7. Delivered(item[e], relay, e \in gone) \in Items
    BY <2>1, DeliveredType
  <2>8. item' \in [Events -> Items]
    BY <2>1, <2>2, <2>7
  <2> QED
    BY <2>1, <2>4, <2>5, <2>6, <2>8 DEF Pcs, Offering
<1>4. CASE Rejected
  <2> DEFINE e == Head(batch)
  <2>1. e \in Events /\ Tail(batch) \in Seq(Events) /\ relay \in Relays
    <3>1. qpc = "answer"
      BY <1>4 DEF Rejected
    <3> QED
      BY <3>1 DEF Offering
  <2>2. TurnedDown(item[e], relay) \in Items
    BY <2>1, TurnedDownType
  <2>3. item' \in [Events -> Items]
    BY <1>4, <2>1, <2>2 DEF Rejected
  <2> QED
    BY <1>4, <2>1, <2>3 DEF Rejected, history, Pcs, Offering
<1>5. CASE BatchDone
  BY <1>5, FreshType DEF BatchDone, OnSuccess, history, Pcs, Offering
<1>6. CASE BatchCut
  BY <1>6 DEF BatchCut, history, Pcs, Offering
<1> QED
  BY <1>1, <1>2, <1>3, <1>4, <1>5, <1>6

\* The end of a pass (rollback, gcBreakersLocked, nextWakeLocked) does.
LEMMA EndPassType ==
    ASSUME TypeInv, EndPass
    PROVE  TypeInv'
<1> USE DEF TypeInv, TypeOK, Stages
<1>1. PICK gone \in SUBSET ToDelete : Evict(gone)
  BY DEF EndPass
<1>2. /\ queue' \in Seq(Events) /\ rows' \in Seq(Events) /\ faults' \in 0..MaxFaults
      /\ gaveUp' \subseteq Events /\ taken' = taken
  BY <1>1, EvictResult
<1>3. PICK old \in SUBSET Collectable(queue') : breakers' = Collected(queue', old)
  BY DEF EndPass
<1>4. \A r \in Relays : RolledBack[r] \in Breakers
  BY DEF RolledBack, Breakers, States
<1>5. breakers' \in [Relays -> Breakers]
  BY <1>3, <1>4, FreshType DEF Collected
<1>6. Wanted(queue') \subseteq Relays
  <2>1. \A e \in InMemory(queue') : e \in Events
    BY <1>2, ListFinite
  <2> QED
    BY <2>1 DEF Wanted, Items
<1>7. timer' \in 0..MaxCooldown
  BY <1>5, <1>6, NextWakeType DEF EndPass
<1>8. NoWork \in [Relays -> Seq(Events)]
  BY DEF NoWork
<1> QED
  BY <1>2, <1>5, <1>7, <1>8 DEF EndPass, Pcs, Offering

\* Crash, the orderly end and the restart.
LEMMA ProcessType ==
    ASSUME TypeInv, Return \/ Crash \/ Restart
    PROVE  TypeInv'
<1> USE DEF TypeInv, TypeOK, Stages
<1>1. /\ [e \in Events |-> NewItem(e, FALSE)] \in [Events -> Items]
      /\ [e \in Events |-> NewItem(e, e \in InMemory(rows))] \in [Events -> Items]
  <2>1. \A e \in Events : NewItem(e, FALSE) \in Items /\ NewItem(e, TRUE) \in Items
    BY NewItemType
  <2>2. \A e \in Events : NewItem(e, e \in InMemory(rows)) \in Items
    <3> SUFFICES ASSUME NEW e \in Events
                 PROVE  NewItem(e, e \in InMemory(rows)) \in Items
      OBVIOUS
    <3>1. (e \in InMemory(rows)) \in BOOLEAN
      OBVIOUS
    <3> QED
      BY <3>1, NewItemType
  <2> QED
    BY <2>1, <2>2
<1>2. ASSUME Ends
      PROVE  /\ queue' \in Seq(Events) /\ item' \in [Events -> Items]
             /\ breakers' \in [Relays -> Breakers]
             /\ work' \in [Relays -> Seq(Events)] /\ batch' \in Seq(Events)
             /\ epc' \in [Events -> {"new", "unlocked", "done"}]
             /\ timer' \in 0..MaxCooldown
             /\ relay' = NoRelay /\ batch' = <<>> /\ work' = NoWork /\ probes' = {}
  <2>1. /\ item' = [e \in Events |-> NewItem(e, FALSE)] /\ breakers' = [r \in Relays |-> Fresh]
        /\ epc' = [e \in Events |-> IF epc[e] = "unlocked" THEN "done" ELSE epc[e]]
    BY <1>2 DEF Ends
  <2>2. epc' \in [Events -> {"new", "unlocked", "done"}]
    BY <2>1
  <2>3. breakers' \in [Relays -> Breakers]
    BY <2>1, FreshType
  <2>4. NoWork \in [Relays -> Seq(Events)] /\ <<>> \in Seq(Events) /\ 0 \in 0..MaxCooldown
    BY QueueAssumption DEF NoWork
  <2>5. /\ queue' = <<>> /\ timer' = 0
        /\ relay' = NoRelay /\ batch' = <<>> /\ work' = NoWork /\ probes' = {}
    BY <1>2 DEF Ends
  <2> QED
    BY <1>1, <2>1, <2>2, <2>3, <2>4, <2>5
<1>3. CASE Return
  BY <1>2, <1>3 DEF Return, Ends, Pcs, Offering
<1>4. CASE Crash
  <2>1. faults' \in 0..MaxFaults
    BY <1>4, FailType DEF Crash
  <2> QED
    BY <1>2, <1>4, <2>1 DEF Crash, Ends, Pcs, Offering
<1>5. CASE Restart
  BY <1>1, <1>5 DEF Restart, loopVars, Pcs, Offering
<1> QED
  BY <1>3, <1>4, <1>5

\* Every other step does.
LEMMA SleepType ==
    ASSUME TypeInv, Decide \/ Woken \/ NapOver \/ Cancel \/ Tick \/ Older
    PROVE  TypeInv'
<1> USE DEF TypeInv, TypeOK, Stages
<1>1. CASE Decide \/ Woken \/ NapOver
  BY <1>1 DEF Decide, Woken, NapOver, Goto, loopVars, history, Pcs, Offering
<1>2. CASE Cancel
  <2>1. faults' \in 0..MaxFaults
    BY <1>2, FailType DEF Cancel
  <2> QED
    BY <1>2, <2>1 DEF Cancel, loopVars, history
<1>3. CASE Tick
  <2>1. \A n \in 0..MaxCooldown : Less(n) \in 0..MaxCooldown
    BY QueueAssumption DEF Less
  <2>2. \A r \in Relays : [breakers[r] EXCEPT !.due = Less(@)] \in Breakers
    BY <2>1 DEF Breakers
  <2> HIDE DEF TypeInv
  <2>3. breakers' \in [Relays -> Breakers] /\ timer' \in 0..MaxCooldown
    BY <1>3, <2>1, <2>2 DEF Tick, TypeInv
  <2> QED
    BY <1>3, <2>3 DEF Tick, history, TypeInv
<1>4. CASE Older
  <2>1. \A n \in 0..TtlUndelivered + 1 :
            Smaller(n + 1, TtlUndelivered + 1) \in 0..TtlUndelivered + 1
    <3> HIDE DEF TypeInv, TypeOK, Stages
    <3> QED
      BY QueueAssumption DEF Smaller
  <2>2. age' \in [Events -> 0..TtlUndelivered + 1]
    BY <1>4, <2>1, QueueAssumption DEF Older
  <2> QED
    BY <1>4, <2>2 DEF Older, loopVars, history
<1> QED
  BY <1>1, <1>2, <1>3, <1>4

\* Every variable keeps its type: no list of the drain goroutine ever names
\* something else than an event, no counter passes its threshold, and no
\* cooldown, however often it doubles, the longest one.
THEOREM QueueTypeCorrect == Spec => [](TypeOK /\ Stages)
<1>1. Init => TypeInv
  <2>1. NoWork \in [Relays -> Seq(Events)]
    BY DEF NoWork
  <2>2. ASSUME Init
        PROVE  item \in [Events -> Items] /\ breakers \in [Relays -> Breakers]
    BY <2>2, NewItemType, FreshType DEF Init
  <2> QED
    <3> SUFFICES ASSUME Init
                 PROVE  TypeInv
      OBVIOUS
    <3>1. /\ age \in [Events -> 0..TtlUndelivered + 1] /\ timer \in 0..MaxCooldown
          /\ faults \in 0..MaxFaults /\ work \in [Relays -> Seq(Events)]
          /\ epc \in [Events -> {"new", "unlocked", "done"}]
      BY <2>1, QueueAssumption DEF Init
    <3>2. /\ rows = <<>> /\ queue = <<>> /\ wake = FALSE /\ cancelled = FALSE /\ qpc = "drain"
          /\ work = NoWork /\ probes = {} /\ relay = NoRelay /\ batch = <<>>
          /\ taken = {} /\ gaveUp = {}
      BY DEF Init
    <3>3. rows \in Seq(Events) /\ queue \in Seq(Events) /\ batch \in Seq(Events)
      BY <3>2
    <3>4. TypeOK
      BY <2>2, <3>1, <3>2, <3>3 DEF TypeOK, Pcs
    <3>5. Stages
      BY <3>2 DEF Stages, Offering
    <3> QED
      BY <3>4, <3>5 DEF TypeInv
<1>2. TypeInv /\ [Next]_vars => TypeInv'
  <2> SUFFICES ASSUME TypeInv, [Next]_vars
               PROVE  TypeInv'
    OBVIOUS
  <2>1. CASE UNCHANGED vars
    BY <2>1 DEF vars, loopVars, history, TypeInv, TypeOK, Stages
  <2> QED
    BY <2>1, EnqueueType, StartPassType, RelayType, PublishType, EndPassType, ProcessType,
       SleepType DEF Next, Drain
<1> QED
  BY <1>1, <1>2, PTL DEF Spec, TypeInv
-----------------------------------------------------------------------------
(* What the drain goroutine works through without the lock.                *)

\* Nothing is twice in the queue or in the table, or there before it is
\* handed to enqueue.
Handed ==
    /\ Distinct(queue) /\ Distinct(rows)
    /\ \A e \in InMemory(queue) \cup InMemory(rows) : epc[e] # "new"

\* A list of items for relay r, each once.
ListFor(s, r) ==
    /\ Distinct(s)
    /\ \A e \in InMemory(s) : e \in InMemory(queue) /\ r \in item[e].pending

Lists == (\A r \in Relays : ListFor(work[r], r)) /\ ListFor(batch, relay)

ListInv == TypeInv /\ Handed /\ Lists

\* The empty list is a list for any relay.
LEMMA EmptyList == \A r : ListFor(<<>>, r)
BY ShortLists DEF ListFor

\* Without a list in hand only Handed is to be shown.
LEMMA NoLists ==
    ASSUME TypeInv, qpc \notin Offering \cup {"relays"}
    PROVE  Lists
BY EmptyList DEF TypeInv, Stages, Lists, NoWork

\* An event that is new is in no list; enqueue adds it once.
LEMMA EnqueueLists ==
    ASSUME ListInv, NEW e \in Events, Enqueue(e)
    PROVE  Handed' /\ Lists'
<1>1. e \notin InMemory(queue) /\ e \notin InMemory(rows)
  BY DEF ListInv, Handed, Enqueue
<1>2. /\ InMemory(queue') = InMemory(queue) \cup {e} /\ Distinct(queue')
      /\ InMemory(rows') \subseteq InMemory(rows) \cup {e} /\ Distinct(rows')
  <2>1. queue' = Append(queue, e) /\ (rows' = rows \/ rows' = Append(rows, e))
    BY DEF Enqueue
  <2>2. queue \in Seq(Events) /\ rows \in Seq(Events) /\ Distinct(queue) /\ Distinct(rows)
    BY DEF ListInv, TypeInv, TypeOK, Handed
  <2>3. /\ InMemory(Append(queue, e)) = InMemory(queue) \cup {e} /\ Distinct(Append(queue, e))
        /\ InMemory(Append(rows, e)) = InMemory(rows) \cup {e} /\ Distinct(Append(rows, e))
    BY <1>1, <2>2, AppendResult
  <2> QED
    BY <2>1, <2>2, <2>3
<1>3. epc' = [epc EXCEPT ![e] = "unlocked"] /\ work' = work /\ batch' = batch /\ relay' = relay
  BY DEF Enqueue, loopVars
<1>4. Handed'
  BY <1>2, <1>3 DEF ListInv, TypeInv, TypeOK, Handed
<1>5. \A d \in InMemory(queue) : d \in Events /\ d # e /\ item'[d] = item[d]
  <2>1. \A d \in Events \ {e} : item'[d] = item[d]
    BY DEF Enqueue, ListInv, TypeInv, TypeOK
  <2> QED
    BY <1>1, <2>1, ListFinite DEF ListInv, TypeInv, TypeOK
<1>6. ASSUME NEW s, NEW r, ListFor(s, r)
      PROVE  /\ Distinct(s)
             /\ \A d \in InMemory(s) : d \in InMemory(queue') /\ r \in item'[d].pending
  BY <1>2, <1>5, <1>6 DEF ListFor
<1> QED
  BY <1>3, <1>4, <1>6 DEF ListInv, Lists, ListFor

\* What collectWorkLocked hands out is in the queue, pending, and there once.
LEMMA StartPassLists ==
    ASSUME ListInv, StartPass
    PROVE  Handed' /\ Lists'
<1>1. PICK gone \in SUBSET ToDelete : Evict(gone)
  BY DEF StartPass
<1>2. /\ queue' \in Seq(Events) /\ Distinct(queue') /\ Distinct(rows')
      /\ InMemory(queue') \subseteq InMemory(queue) /\ InMemory(rows') \subseteq InMemory(rows)
  BY <1>1, EvictResult DEF ListInv, TypeInv, Handed
<1>3. Handed'
  BY <1>2 DEF ListInv, Handed, StartPass
<1>4. item' = item /\ batch' = batch /\ batch = <<>>
  BY DEF StartPass, ListInv, TypeInv, Stages, Offering
<1>5. ASSUME NEW r \in Relays
      PROVE  /\ Distinct(work'[r])
             /\ \A e \in InMemory(work'[r]) : e \in InMemory(queue') /\ r \in item'[e].pending
  <2> DEFINE p == PendingAt(queue', r)
  <2>1. /\ p \in Seq(Events) /\ Distinct(p)
        /\ \A e \in InMemory(p) : e \in InMemory(queue') /\ r \in item[e].pending
    BY <1>2, PendingAtResult
  <2>2. p # <<>> => Head(p) \in InMemory(p)
    BY <2>1, TailResult
  <2>3. work'[r] = p \/ work'[r] = <<>> \/ (p # <<>> /\ work'[r] = <<Head(p)>>)
    BY DEF StartPass, Collect
  <2> HIDE DEF p
  <2> QED
    BY <1>4, <2>1, <2>2, <2>3, ShortLists
<1> QED
  BY <1>3, <1>4, <1>5, ShortLists DEF Lists, ListFor

\* Taking up a relay's list, or giving it up, keeps the lists.
LEMMA RelayLists ==
    ASSUME ListInv, NEW r \in Relays, Connect(r) \/ ConnectFails(r)
    PROVE  Handed' /\ Lists'
<1>1. queue' = queue /\ rows' = rows /\ epc' = epc /\ item' = item
  BY DEF Connect, ConnectFails
<1>2. work' = [work EXCEPT ![r] = <<>>] /\ work \in [Relays -> Seq(Events)]
  BY DEF Connect, ConnectFails, ListInv, TypeInv, TypeOK
<1>3. (batch' = work[r] /\ relay' = r) \/ (batch' = batch /\ relay' = relay)
  BY DEF Connect, ConnectFails
<1>4. Lists'
  BY <1>1, <1>2, <1>3, ShortLists DEF ListInv, Lists, ListFor
<1> QED
  BY <1>1, <1>4 DEF ListInv, Handed

\* What relay has answered about is off the batch, and its answer changes
\* nothing for the other items or the other relays.
LEMMA AnswerLists ==
    ASSUME ListInv, Published \/ Rejected
    PROVE  Handed' /\ Lists'
<1> DEFINE e == Head(batch)
<1>1. /\ qpc = "answer" /\ batch' = Tail(batch) /\ queue' = queue /\ epc' = epc
      /\ work' = work /\ relay' = relay
  BY DEF Published, Rejected
<1>2. /\ batch # <<>> /\ batch \in Seq(Events) /\ relay \in Relays /\ work[relay] = <<>>
      /\ ListFor(batch, relay) /\ Distinct(batch)
  BY <1>1 DEF ListInv, TypeInv, TypeOK, Stages, Offering, Lists, ListFor
<1>3. /\ e \in InMemory(batch) /\ InMemory(batch') \subseteq InMemory(batch)
      /\ Distinct(batch') /\ e \notin InMemory(batch')
  BY <1>1, <1>2, TailResult
<1>4. \E i : item' = [item EXCEPT ![e] = i] /\ item[e].pending \ {relay} \subseteq i.pending
  <2>1. item[e] \in Items
    BY <1>2, <1>3, ListFinite DEF ListInv, TypeInv, TypeOK
  <2>2. CASE Published
    <3>1. \A gone : item[e].pending \ {relay} \subseteq Delivered(item[e], relay, gone).pending
      BY <2>1 DEF Delivered, Items
    <3> QED
      BY <2>2, <3>1 DEF Published
  <2>3. CASE Rejected
    <3>1. item[e].pending \ {relay} \subseteq TurnedDown(item[e], relay).pending
      BY <2>1 DEF TurnedDown, Items
    <3> QED
      BY <2>3, <3>1 DEF Rejected
  <2> QED
    BY <2>2, <2>3
<1>5. \A d \in Events : /\ d # e => item'[d] = item[d]
                        /\ item[d].pending \ {relay} \subseteq item'[d].pending
  BY <1>4 DEF ListInv, TypeInv, TypeOK
<1>6. InMemory(queue) \subseteq Events
  BY ListFinite DEF ListInv, TypeInv, TypeOK
<1> HIDE DEF e
<1>7. ListFor(batch, relay)'
  BY <1>1, <1>2, <1>3, <1>5, <1>6 DEF ListFor
<1>8. ASSUME NEW r \in Relays
      PROVE  ListFor(work[r], r)'
  <2>1. CASE r = relay
    BY <1>1, <1>2, <2>1, ShortLists DEF ListFor
  <2>2. CASE r # relay
    BY <1>1, <1>5, <1>6, <2>2 DEF ListFor, ListInv, Lists
  <2> QED
    BY <2>1, <2>2
<1>9. Handed'
  <2>1. InMemory(rows') \subseteq InMemory(rows) /\ Distinct(rows')
    <3>1. rows' = rows \/ \E gone : rows' = Without(rows, gone)
      BY DEF Published, Rejected
    <3> QED
      BY <3>1, WithoutResult DEF ListInv, TypeInv, TypeOK, Handed
  <2> QED
    BY <1>1, <2>1 DEF ListInv, Handed
<1> QED
  BY <1>1, <1>7, <1>8, <1>9 DEF Lists

\* Publishing the head of the batch leaves lists of what is still pending.
LEMMA BatchLists ==
    ASSUME ListInv, Offer \/ Arrives \/ BatchDone \/ BatchCut
    PROVE  Handed' /\ Lists'
<1>1. queue' = queue /\ rows' = rows /\ epc' = epc /\ item' = item /\ work' = work
  BY DEF Offer, Arrives, BatchDone, BatchCut, loopVars
<1>2. (batch' = batch /\ relay' = relay) \/ batch' = <<>>
  BY DEF Offer, Arrives, BatchDone, BatchCut, loopVars
<1> QED
  BY <1>1, <1>2, ShortLists DEF ListInv, Lists, ListFor, Handed

\* The end of a pass leaves no list, and a table and queue without doubles.
LEMMA EndPassLists ==
    ASSUME ListInv, EndPass
    PROVE  Handed' /\ Lists'
<1>1. PICK gone \in SUBSET ToDelete : Evict(gone)
  BY DEF EndPass
<1>2. /\ Distinct(queue') /\ Distinct(rows')
      /\ InMemory(queue') \subseteq InMemory(queue) /\ InMemory(rows') \subseteq InMemory(rows)
  BY <1>1, EvictResult DEF ListInv, TypeInv, Handed
<1>3. Handed'
  BY <1>2 DEF ListInv, Handed, EndPass
<1>4. work' = NoWork /\ batch' = <<>>
  BY DEF EndPass, ListInv, TypeInv, Stages, Offering
<1> QED
  BY <1>3, <1>4, ShortLists DEF Lists, ListFor, NoWork

\* The end of a process leaves the table as it is; load copies it.
LEMMA ProcessLists ==
    ASSUME ListInv, Return \/ Crash \/ Restart
    PROVE  Handed' /\ Lists'
<1>1. work' = NoWork /\ batch' = <<>> /\ rows' = rows
  BY DEF Return, Crash, Ends, Restart, loopVars, ListInv, TypeInv, Stages, Offering
<1>2. queue' = <<>> \/ queue' = rows
  BY DEF Return, Crash, Ends, Restart
<1>3. \A e \in Events : epc[e] # "new" => epc'[e] # "new"
  BY DEF Return, Crash, Ends, Restart, ListInv, TypeInv, TypeOK
<1>4. InMemory(rows) \subseteq Events
  BY ListFinite DEF ListInv, TypeInv, TypeOK
<1>5. Handed'
  BY <1>1, <1>2, <1>3, <1>4, ShortLists DEF ListInv, Handed
<1> QED
  BY <1>1, <1>5, ShortLists DEF Lists, ListFor, NoWork

\* No other step touches the lists.
LEMMA OtherLists ==
    ASSUME ListInv,
           \/ Decide \/ Woken \/ NapOver \/ Cancel \/ Tick \/ Older \/ UNCHANGED vars
           \/ \E e \in Events : Signal(e)
    PROVE  Handed' /\ Lists'
<1>1. /\ queue' = queue /\ rows' = rows /\ item' = item /\ work' = work
      /\ batch' = batch /\ relay' = relay
  BY DEF Decide, Woken, NapOver, Goto, Cancel, Tick, Older, Signal, vars, loopVars
<1>2. \A e \in Events : epc[e] # "new" => epc'[e] # "new"
  BY DEF Decide, Woken, NapOver, Goto, Cancel, Tick, Older, Signal, vars, ListInv, TypeInv, TypeOK
<1>3. InMemory(rows) \subseteq Events /\ InMemory(queue) \subseteq Events
  BY ListFinite DEF ListInv, TypeInv, TypeOK
<1> QED
  BY <1>1, <1>2, <1>3 DEF ListInv, Lists, ListFor, Handed

\* The lists the goroutine works through without the lock are never stale.
LEMMA ListCorrect == Spec => []ListInv
<1>1. Init => Handed /\ Lists
  BY ShortLists DEF Init, Handed, Lists, ListFor, NoWork
<1>2. ListInv /\ TypeInv' /\ [Next]_vars => ListInv'
  <2> SUFFICES ASSUME ListInv, [Next]_vars
               PROVE  Handed' /\ Lists'
    BY DEF ListInv
  <2> QED
    BY EnqueueLists, StartPassLists, RelayLists, AnswerLists, BatchLists, EndPassLists,
       ProcessLists, OtherLists DEF Next, Drain
<1> QED
  BY <1>1, <1>2, QueueTypeCorrect, PTL DEF Spec, ListInv, TypeInv

\* publishBatch works without the lock through lists made under it.  However
\* many events are enqueued meanwhile, what it offers a relay is still in the
\* queue and pending there, and no event is offered to a relay twice.
THEOREM WorkStaysFresh == Spec => []WorkFresh
<1>1. ListInv => WorkFresh
  <2> SUFFICES ASSUME ListInv, NEW r \in Relays,
                      NEW left, left = work[r] \o (IF relay = r THEN batch ELSE <<>>)
               PROVE  /\ Distinct(left)
                      /\ \A e \in InMemory(left) : e \in InMemory(queue) /\ r \in item[e].pending
    BY DEF WorkFresh, Distinct
  <2>1. work[r] \in Seq(Events) /\ batch \in Seq(Events)
    BY DEF ListInv, TypeInv, TypeOK
  <2>2. relay = r => work[r] = <<>> \/ batch = <<>>
    BY DEF ListInv, TypeInv, Stages, Offering
  <2>3. left = work[r] \/ (relay = r /\ left = batch)
    <3>1. \A s \in Seq(Events) : s \o <<>> = s /\ <<>> \o s = s
      BY ConcatEmptySeq
    <3>2. CASE relay = r
      BY <2>1, <2>2, <3>1, <3>2
    <3>3. CASE relay # r
      BY <2>1, <3>1, <3>3
    <3> QED
      BY <3>2, <3>3
  <2> QED
    BY <2>3 DEF ListInv, Lists, ListFor
<1> QED
  BY <1>1, ListCorrect, PTL
-----------------------------------------------------------------------------
(* Circuit breakers.                                                       *)

InHand(r) == Len(work[r]) + (IF relay = r THEN Len(batch) ELSE 0)

\* A step that opens and closes no breaker half-way, and takes no relay off
\* the list of probes but resolved ones, keeps the promise.
LEMMA ProbesKept ==
    ASSUME ProbesResolved,
           \A r \in Relays : breakers'[r].state = "halfOpen" =>
               /\ breakers[r].state = "halfOpen"
               /\ r \in probes => r \in probes'
               /\ InHand(r)' \in Nat /\ InHand(r)' <= InHand(r) /\ InHand(r) \in Nat
    PROVE  ProbesResolved'
<1> SUFFICES ASSUME NEW r \in Relays, breakers'[r].state = "halfOpen"
             PROVE  r \in probes' /\ InHand(r)' <= 1
  BY DEF ProbesResolved, InHand
<1>1. r \in probes /\ InHand(r) <= 1
  BY DEF ProbesResolved, InHand
<1>2. /\ r \in probes'
      /\ InHand(r)' \in Nat /\ InHand(r)' <= InHand(r) /\ InHand(r) \in Nat
  BY <1>1
<1> HIDE DEF InHand
<1> QED
  BY <1>1, <1>2

\* How many items a relay has in hand is a number.
LEMMA InHandNumber ==
    ASSUME TypeOK, NEW r \in Relays
    PROVE  InHand(r) \in Nat
BY DEF TypeOK, InHand

\* Only a relay to be probed turns half-open, with one item in hand.
LEMMA StartPassProbes ==
    ASSUME TypeInv, ProbesResolved, StartPass
    PROVE  ProbesResolved'
<1> SUFFICES ASSUME NEW r \in Relays, breakers'[r].state = "halfOpen"
             PROVE  r \in probes' /\ InHand(r)' <= 1
  BY DEF ProbesResolved, InHand
<1>1. breakers[r].state # "halfOpen" /\ breakers[r] \in Breakers
  BY DEF TypeInv, TypeOK, Stages, ProbesResolved, StartPass, Offering
<1>2. Collect(queue')
  BY DEF StartPass
<1>3. r \in probes' /\ PendingAt(queue', r) # <<>> /\ Allow(r) = "probe"
  BY <1>1, <1>2 DEF Collect
<1>4. work'[r] = <<Head(PendingAt(queue', r))>>
  BY <1>2, <1>3 DEF Collect
<1>5. relay' # r
  BY QueueAssumption DEF StartPass, TypeInv, Stages, Offering
<1>6. Len(work'[r]) = 1
  BY <1>4
<1> QED
  BY <1>3, <1>5, <1>6 DEF InHand

\* A relay that does not connect is open again; the others stay as they are.
LEMMA RelayProbes ==
    ASSUME TypeInv, ProbesResolved, NEW q \in Relays, Connect(q) \/ ConnectFails(q)
    PROVE  ProbesResolved'
<1>1. /\ work \in [Relays -> Seq(Events)] /\ batch \in Seq(Events) /\ qpc = "relays"
      /\ relay = NoRelay /\ batch = <<>> /\ breakers \in [Relays -> Breakers]
      /\ work' = [work EXCEPT ![q] = <<>>]
  BY DEF Connect, ConnectFails, TypeInv, TypeOK, Stages, Offering
<1>2. CASE Connect(q)
  <2>1. breakers' = breakers /\ probes' = probes /\ relay' = q /\ batch' = work[q]
    BY <1>2 DEF Connect
  <2>2. ASSUME NEW r \in Relays
        PROVE  InHand(r)' \in Nat /\ InHand(r)' <= InHand(r) /\ InHand(r) \in Nat
    <3>1. Len(work[r]) \in Nat /\ InHand(r) = Len(work[r])
      BY <1>1, QueueAssumption DEF InHand
    <3>2. CASE r = q
      BY <1>1, <2>1, <3>1, <3>2 DEF InHand
    <3>3. CASE r # q
      BY <1>1, <2>1, <3>1, <3>3 DEF InHand
    <3> QED
      BY <3>2, <3>3
  <2> QED
    BY <2>1, <2>2, ProbesKept
<1>3. CASE ConnectFails(q)
  <2>1. /\ probes' = probes \ {q} /\ relay' = relay /\ batch' = batch
        /\ \A r \in Relays : r # q => breakers'[r] = breakers[r]
    BY <1>1, <1>3 DEF ConnectFails, OnFailure
  <2>2. breakers'[q].state # "halfOpen"
    <3>1. breakers[q] \in Breakers
      BY <1>1
    <3>2. \/ breakers'[q].state = "open"
          \/ breakers[q].state # "halfOpen" /\ breakers'[q].state = breakers[q].state
      BY <1>1, <1>3, <3>1 DEF ConnectFails, OnFailure, Breakers
    <3> QED
      BY <3>2
  <2>3. ASSUME NEW r \in Relays, r # q
        PROVE  InHand(r)' = InHand(r) /\ InHand(r) \in Nat
    BY <1>1, <2>1, <2>3, InHandNumber DEF InHand, TypeInv
  <2> QED
    BY <2>1, <2>2, <2>3, ProbesKept
<1> QED
  BY <1>2, <1>3

\* A probe that is through, refused or cut off is settled or left to EndPass.
LEMMA PublishProbes ==
    ASSUME TypeInv, ProbesResolved, Offer \/ Arrives \/ Published \/ Rejected \/ BatchDone \/ BatchCut
    PROVE  ProbesResolved'
<1>1. /\ work \in [Relays -> Seq(Events)] /\ batch \in Seq(Events) /\ work' = work
      /\ breakers \in [Relays -> Breakers] /\ relay \in Relays
  BY DEF Offer, Arrives, Published, Rejected, BatchDone, BatchCut, loopVars, TypeInv, TypeOK, Stages, Offering
<1>2. CASE BatchDone
  <2>1. /\ breakers' = [breakers EXCEPT ![relay] = Fresh] /\ probes' = probes \ {relay}
        /\ relay' = NoRelay /\ batch' = batch
    BY <1>2 DEF BatchDone, OnSuccess
  <2>2. breakers'[relay].state # "halfOpen"
    BY <1>1, <2>1 DEF Fresh
  <2>3. ASSUME NEW r \in Relays, r # relay
        PROVE  InHand(r)' = InHand(r) /\ InHand(r) \in Nat /\ breakers'[r] = breakers[r]
    BY <1>1, <2>1, <2>3, InHandNumber, QueueAssumption DEF InHand, TypeInv
  <2> QED
    BY <2>1, <2>2, <2>3, ProbesKept
<1>3. CASE ~BatchDone
  <2>1. /\ breakers' = breakers /\ probes' = probes
        /\ \/ relay' = relay /\ (batch' = batch \/ (batch' = Tail(batch) /\ batch # <<>>))
           \/ relay' = NoRelay /\ batch' = <<>>
    BY <1>3 DEF Offer, Arrives, Published, Rejected, BatchCut, loopVars, TypeInv, Stages
  <2>2. Len(batch) \in Nat /\ Len(batch') \in Nat /\ Len(batch') <= Len(batch)
    BY <1>1, <2>1
  <2>3. ASSUME NEW r \in Relays
        PROVE  InHand(r)' \in Nat /\ InHand(r)' <= InHand(r) /\ InHand(r) \in Nat
    <3>1. Len(work[r]) \in Nat
      BY <1>1
    <3> QED
      BY <1>1, <2>1, <2>2, <3>1, QueueAssumption DEF InHand
  <2> QED
    BY <2>1, <2>3, ProbesKept
<1> QED
  BY <1>2, <1>3

\* The roll-back at the end of a pass leaves no breaker half-open.
LEMMA EndPassProbes ==
    ASSUME TypeInv, ProbesResolved, EndPass
    PROVE  ProbesResolved'
<1>1. \A r \in Relays : RolledBack[r].state # "halfOpen"
  <2> SUFFICES ASSUME NEW r \in Relays
               PROVE  RolledBack[r].state # "halfOpen"
    OBVIOUS
  <2>1. breakers[r] \in Breakers
    BY DEF TypeInv, TypeOK
  <2> QED
    BY <2>1 DEF RolledBack, ProbesResolved, Breakers
<1>2. PICK old : breakers' = Collected(queue', old)
  BY DEF EndPass
<1>3. \A r \in Relays : breakers'[r].state # "halfOpen"
  BY <1>1, <1>2 DEF Collected, Fresh
<1> QED
  BY <1>3 DEF ProbesResolved

\* Outside a pass no breaker is half-open, and no step makes one so.
LEMMA OtherProbes ==
    ASSUME TypeInv, ProbesResolved,
           \/ Decide \/ Woken \/ NapOver \/ Return \/ Restart \/ Cancel \/ Crash \/ Tick \/ Older
           \/ UNCHANGED vars
           \/ \E e \in Events : Enqueue(e) \/ Signal(e)
    PROVE  ProbesResolved'
<1>1. CASE Return \/ Crash
  <2>1. breakers' = [r \in Relays |-> Fresh]
    BY <1>1 DEF Return, Crash, Ends
  <2> QED
    BY <2>1 DEF ProbesResolved, Fresh
<1>2. CASE ~(Return \/ Crash)
  <2>1. /\ probes' = probes /\ work' = work /\ relay' = relay /\ batch' = batch
        /\ \/ breakers' = breakers
           \/ breakers' = [r \in Relays |-> [breakers[r] EXCEPT !.due = Less(@)]]
    BY <1>2 DEF Decide, Woken, NapOver, Goto, Restart, Cancel, Tick, Older, vars, Enqueue, Signal,
                loopVars
  <2>2. ASSUME NEW r \in Relays
        PROVE  breakers'[r].state = breakers[r].state
    <3>1. breakers[r] \in Breakers
      BY DEF TypeInv, TypeOK
    <3> QED
      BY <2>1, <3>1 DEF Breakers
  <2> QED
    BY <2>1, <2>2 DEF ProbesResolved
<1> QED
  BY <1>1, <1>2

\* "Half-open breakers get at most one item", and a breaker is half-open only
\* while the pass that probes its relay is under way, whichever way that pass
\* ends: allow never denies a relay for good.
THEOREM ProbesAlwaysResolved == Spec => []ProbesResolved
<1>1. Init => ProbesResolved
  BY DEF Init, ProbesResolved, Fresh
<1>2. ProbesResolved /\ TypeInv /\ [Next]_vars => ProbesResolved'
  <2> SUFFICES ASSUME ProbesResolved, TypeInv, [Next]_vars
               PROVE  ProbesResolved'
    OBVIOUS
  <2> QED
    BY StartPassProbes, RelayProbes, PublishProbes, EndPassProbes, OtherProbes DEF Next, Drain
<1> QED
  BY <1>1, <1>2, QueueTypeCorrect, PTL DEF Spec, TypeInv
-----------------------------------------------------------------------------
(* The wake token.                                                         *)

\* A goroutine that sleeps without a timer sleeps on an empty queue, or the
\* token that ends its sleep is there or on the way: enqueue and signal are
\* two steps, and no order of them with the decision to sleep loses a wake-up.
THEOREM NeverSleepsOnWork == Spec => []NoSleepOnWork
<1>1. Init => NoSleepOnWork
  BY DEF Init, NoSleepOnWork
<1>2. NoSleepOnWork /\ TypeInv /\ [Next]_vars => NoSleepOnWork'
  <2> SUFFICES ASSUME NoSleepOnWork, TypeInv, Next \/ UNCHANGED vars, qpc' = "idle"
               PROVE  queue' = <<>> \/ wake' \/ \E e \in Events : epc'[e] = "unlocked"
    BY DEF NoSleepOnWork
  <2>1. CASE \E e \in Events : Enqueue(e)
    BY <2>1 DEF Enqueue, TypeInv, TypeOK
  <2>2. CASE \E e \in Events : Signal(e)
    BY <2>2 DEF Signal
  <2>3. CASE Drain
    <3>1. Decide
      <4>1. /\ ~StartPass /\ ~Published /\ ~Rejected /\ ~BatchDone /\ ~BatchCut /\ ~EndPass
            /\ ~Offer /\ ~Woken /\ ~NapOver /\ ~Return
        BY DEF StartPass, Published, Rejected, BatchDone, BatchCut, EndPass, Offer, Woken, NapOver,
               Return, Goto, Ends
      <4>2. \A r \in Relays : ~Connect(r) /\ ~ConnectFails(r)
        BY DEF Connect, ConnectFails
      <4> QED
        BY <2>3, <4>1, <4>2 DEF Drain
    <3> QED
      BY <3>1 DEF Decide, Goto
  <2>4. CASE Restart \/ Crash
    BY <2>4 DEF Restart, Crash, Ends
  <2>5. CASE Arrives \/ Cancel \/ Tick \/ Older \/ UNCHANGED vars
    <3>1. queue' = queue /\ wake' = wake /\ epc' = epc /\ qpc' = qpc
      BY <2>5 DEF Arrives, Cancel, Tick, Older, vars
    <3> QED
      BY <3>1 DEF NoSleepOnWork
  <2> QED
    BY <2>1, <2>2, <2>3, <2>4, <2>5 DEF Next
<1> QED
  BY <1>1, <1>2, QueueTypeCorrect, PTL DEF Spec, TypeInv
-----------------------------------------------------------------------------
(* The queue implements Delivery.                                          *)

\* An event that has not been handed to enqueue has no fate, one that was
\* given up is out of memory, and a process that is down has none.
FateInv ==
    /\ \A e \in taken \cup gaveUp : epc[e] # "new"
    /\ gaveUp \cap InMemory(queue) = {}
    /\ qpc = "down" => queue = <<>>

DeliveryInv == ListInv /\ FateInv

\* The parts of the type invariant the steps of Delivery are about.
LEMMA DeliveryTypes ==
    ASSUME DeliveryInv
    PROVE  /\ rows \in Seq(Events) /\ queue \in Seq(Events)
           /\ InMemory(rows) \subseteq Events /\ InMemory(queue) \subseteq Events
           /\ epc \in [Events -> {"new", "unlocked", "done"}]
           /\ taken \subseteq Events /\ gaveUp \subseteq Events
           /\ \A e \in InMemory(queue) \cup InMemory(rows) \cup taken \cup gaveUp : epc[e] # "new"
           /\ gaveUp \cap InMemory(queue) = {}
           /\ qpc = "down" => queue = <<>>
           /\ qpc = "answer" => Head(batch) \in InMemory(queue)
<1>1. rows \in Seq(Events) /\ queue \in Seq(Events) /\ batch \in Seq(Events)
  BY DEF DeliveryInv, ListInv, TypeInv, TypeOK
<1>2. InMemory(rows) \subseteq Events /\ InMemory(queue) \subseteq Events
  BY <1>1, ListFinite
<1>3. /\ epc \in [Events -> {"new", "unlocked", "done"}]
      /\ taken \subseteq Events /\ gaveUp \subseteq Events
  BY DEF DeliveryInv, ListInv, TypeInv, TypeOK
<1>4. qpc = "answer" => Head(batch) \in InMemory(queue)
  BY <1>1, TailResult DEF DeliveryInv, ListInv, TypeInv, Stages, Lists, ListFor
<1> QED
  BY <1>1, <1>2, <1>3, <1>4 DEF DeliveryInv, FateInv, ListInv, Handed

\* The fate of an event, case by case, before and after a step.
Decided(e) ==
    /\ epc[e] = "new" => Fate(e) = "new"
    /\ epc[e] # "new" /\ e \in taken => Fate(e) = "delivered"
    /\ epc[e] # "new" /\ e \notin taken /\ e \in gaveUp => Fate(e) = "abandoned"
    /\ epc[e] # "new" /\ e \notin taken /\ e \notin gaveUp
          /\ (e \in InMemory(rows) \/ e \in InMemory(queue)) => Fate(e) = "owed"
    /\ epc[e] # "new" /\ e \notin taken /\ e \notin gaveUp
          /\ e \notin InMemory(rows) /\ e \notin InMemory(queue) => Fate(e) = "lost"

\* Fate is total, and its cases exclude each other.
LEMMA FateDecided ==
    ASSUME NEW e
    PROVE  Decided(e) /\ Decided(e)'
<1>1. Decided(e)
  <2>1. CASE epc[e] = "new"
    BY <2>1 DEF Decided, Fate
  <2>2. CASE epc[e] # "new" /\ e \in taken
    BY <2>2 DEF Decided, Fate
  <2>3. CASE epc[e] # "new" /\ e \notin taken
    BY <2>3 DEF Decided, Fate
  <2> QED
    BY <2>1, <2>2, <2>3
<1>2. Decided(e)'
  <2>1. CASE epc'[e] = "new"
    BY <2>1 DEF Decided, Fate
  <2>2. CASE epc'[e] # "new" /\ e \in taken'
    BY <2>2 DEF Decided, Fate
  <2>3. CASE epc'[e] # "new" /\ e \notin taken'
    BY <2>3 DEF Decided, Fate
  <2> QED
    BY <2>1, <2>2, <2>3
<1> QED
  BY <1>1, <1>2

\* To show a step of Delivery, say what becomes of each event.
LEMMA Becomes ==
    ASSUME NEW es, NEW f, \A e \in Events : Fate(e)' = IF e \in es THEN f ELSE Fate(e)
    PROVE  D!Become(es, f)
BY DEF D!Become

\* enqueue accepts the event, stored or not.
LEMMA EnqueueDelivers ==
    ASSUME DeliveryInv, NEW e \in Events, Enqueue(e)
    PROVE  FateInv' /\ D!Accept(e)
<1>1. /\ epc[e] = "new" /\ epc' = [epc EXCEPT ![e] = "unlocked"] /\ queue' = Append(queue, e)
      /\ rows' = rows \/ rows' = Append(rows, e)
      /\ taken' = taken /\ gaveUp' = gaveUp /\ qpc' = qpc /\ qpc # "down"
  BY DEF Enqueue, Up, history
<1>2. /\ InMemory(queue') = InMemory(queue) \cup {e}
      /\ InMemory(rows') = InMemory(rows) \/ InMemory(rows') = InMemory(rows) \cup {e}
  <2>1. /\ InMemory(Append(queue, e)) = InMemory(queue) \cup {e}
        /\ InMemory(Append(rows, e)) = InMemory(rows) \cup {e}
    BY DeliveryTypes, AppendResult
  <2> QED
    BY <1>1, <2>1
<1>3. \A d \in Events : Fate(d)' = IF d \in {e} THEN "owed" ELSE Fate(d)
  BY <1>1, <1>2, DeliveryTypes DEF Fate
<1>4. FateInv'
  BY <1>1, <1>2, DeliveryTypes DEF FateInv
<1>5. Fate(e) = "new"
  BY <1>1, FateDecided DEF Decided
<1>6. D!Become({e}, "owed")
  BY <1>3, Becomes
<1> QED
  BY <1>2, <1>4, <1>5, <1>6 DEF D!Accept

\* An eviction gives up what it drops before any relay has it.
LEMMA EvictDelivers ==
    ASSUME DeliveryInv, NEW gone \in SUBSET ToDelete, Evict(gone), epc' = epc, qpc' # "down"
    PROVE  FateInv' /\ D!GiveUp
<1> DEFINE es == Dropped(gone) \ taken
           stored == InMemory(rows)
<1>1. /\ InMemory(queue') = InMemory(queue) \ Dropped(gone)
      /\ InMemory(rows') = InMemory(rows) \ gone
      /\ gaveUp' = gaveUp \cup es /\ taken' = taken
      /\ gone \subseteq Dropped(gone) /\ Dropped(gone) \subseteq InMemory(queue)
  BY EvictResult DEF DeliveryInv, ListInv, TypeInv
<1> HIDE DEF es
<1>2. /\ es \subseteq Dropped(gone) /\ es \cap taken = {} /\ Dropped(gone) \subseteq es \cup taken
  BY DEF es
<1>3. FateInv'
  BY <1>1, <1>2, DeliveryTypes DEF FateInv
<1>4. \A e \in Events : Fate(e)' = IF e \in es THEN "abandoned" ELSE Fate(e)
  <2> SUFFICES ASSUME NEW e \in Events
               PROVE  Fate(e)' = IF e \in es THEN "abandoned" ELSE Fate(e)
    OBVIOUS
  <2>1. /\ Decided(e) /\ Decided(e)'
        /\ e \in gaveUp => e \notin InMemory(queue)
        /\ e \in InMemory(queue) => epc[e] # "new"
    BY FateDecided, DeliveryTypes
  <2>2. CASE e \in es
    BY <1>1, <1>2, <2>1, <2>2 DEF Decided
  <2>3. CASE e \notin es
    <3>1. /\ e \in taken' <=> e \in taken
          /\ e \in gaveUp' <=> e \in gaveUp
          /\ epc'[e] = epc[e]
      BY <1>1, <2>3
    <3>2. e \notin taken => /\ e \in InMemory(queue') <=> e \in InMemory(queue)
                            /\ e \in InMemory(rows') <=> e \in InMemory(rows)
      BY <1>1, <1>2, <2>3
    <3> QED
      BY <2>1, <2>3, <3>1, <3>2 DEF Decided
  <2> QED
    BY <2>2, <2>3
<1>5. \A e \in es : e \in Events /\ Fate(e) = "owed"
  <2> SUFFICES ASSUME NEW e \in es
               PROVE  e \in Events /\ Fate(e) = "owed"
    OBVIOUS
  <2>1. e \in InMemory(queue) /\ e \notin taken
    BY <1>1, <1>2
  <2>2. e \in Events /\ e \notin gaveUp /\ epc[e] # "new"
    BY <2>1, DeliveryTypes
  <2> QED
    BY <2>1, <2>2, FateDecided DEF Decided
<1>6. \A e \in gone : Fate(e) = "owed" => e \in es
  <2> SUFFICES ASSUME NEW e \in gone, e \notin es
               PROVE  Fate(e) # "owed"
    OBVIOUS
  <2>1. e \in taken /\ epc[e] # "new"
    BY <1>1, <1>2, DeliveryTypes
  <2> QED
    BY <2>1, FateDecided DEF Decided
<1>7. es \in SUBSET D!Owed
  BY <1>5 DEF D!Owed
<1>8. D!Become(es, "abandoned")
  BY <1>4, Becomes
<1>9. \E g \in SUBSET (stored \ (D!Owed \ es)) : InMemory(rows') = stored \ g
  <2>1. gone \cap stored \in SUBSET (stored \ (D!Owed \ es))
    BY <1>1, <1>6, DeliveryTypes DEF D!Owed
  <2>2. InMemory(rows') = stored \ (gone \cap stored)
    BY <1>1
  <2> QED
    BY <2>1, <2>2
<1>10. D!GiveUp
  BY <1>7, <1>8, <1>9 DEF D!GiveUp
<1> QED
  BY <1>3, <1>10

\* An event arrives at a relay, and its row goes or stays; it may have been
\* at another relay before.
LEMMA ArrivalDelivers ==
    ASSUME DeliveryInv, Arrives \/ Published
    PROVE  FateInv' /\ (D!Deliver(Head(batch)) \/ D!GiveUp)
<1> DEFINE e == Head(batch)
<1>1. /\ qpc = "answer" /\ e \in InMemory(queue) /\ taken' = taken \cup {e} /\ gaveUp' = gaveUp
      /\ queue' = queue /\ epc' = epc /\ qpc' # "down"
  BY DeliveryTypes DEF Arrives, Published
<1>2. InMemory(rows') \in {InMemory(rows), InMemory(rows) \ {e}}
  <2>1. CASE Arrives
    BY <2>1 DEF Arrives
  <2>2. CASE Published
    <3>1. \E gone \in SUBSET {e} : rows' = Without(rows, gone)
      BY <2>2 DEF Published
    <3>2. \A gone : InMemory(Without(rows, gone)) = InMemory(rows) \ gone
      BY WithoutResult, DeliveryTypes
    <3> QED
      BY <3>1, <3>2
  <2> QED
    BY <2>1, <2>2
<1> HIDE DEF e
<1>3. FateInv'
  BY <1>1, DeliveryTypes DEF FateInv
<1>4. \A d \in Events : Fate(d)' = IF d \in {e} THEN "delivered" ELSE Fate(d)
  <2> SUFFICES ASSUME NEW d \in Events
               PROVE  Fate(d)' = IF d = e THEN "delivered" ELSE Fate(d)
    OBVIOUS
  <2>1. Decided(d) /\ Decided(d)'
    BY FateDecided
  <2>2. CASE d = e
    <3>1. epc'[d] # "new" /\ d \in taken'
      BY <1>1, <2>2, DeliveryTypes
    <3> QED
      BY <2>1, <2>2, <3>1 DEF Decided
  <2>3. CASE d # e
    <3>1. /\ d \in taken' <=> d \in taken
          /\ d \in gaveUp' <=> d \in gaveUp
          /\ epc'[d] = epc[d]
          /\ d \in InMemory(queue') <=> d \in InMemory(queue)
          /\ d \in InMemory(rows') <=> d \in InMemory(rows)
      BY <1>1, <1>2, <2>3
    <3> QED
      BY <2>1, <2>3, <3>1 DEF Decided
  <2> QED
    BY <2>2, <2>3
<1>5. e \in Events /\ Fate(e) \in {"owed", "delivered"}
  BY <1>1, DeliveryTypes DEF Fate
<1>6. CASE Fate(e) = "owed"
  <2>1. D!Become({e}, "delivered")
    BY <1>4, Becomes
  <2> QED
    BY <1>2, <1>3, <1>5, <1>6, <2>1 DEF D!Deliver, e
<1>7. CASE Fate(e) = "delivered"
  <2>1. \A d \in Events : Fate(d)' = IF d \in {} THEN "abandoned" ELSE Fate(d)
    BY <1>4, <1>7
  <2>2. D!Become({}, "abandoned")
    BY <2>1, Becomes
  <2>3. e \notin D!Owed
    BY <1>5, <1>7 DEF D!Owed
  <2>4. \E g \in SUBSET (InMemory(rows) \ (D!Owed \ {})) : InMemory(rows') = InMemory(rows) \ g
    <3>1. CASE InMemory(rows') = InMemory(rows)
      <4>1. InMemory(rows') = InMemory(rows) \ {}
        BY <3>1
      <4> QED
        BY <4>1
    <3>2. CASE InMemory(rows') = InMemory(rows) \ {e} /\ e \in InMemory(rows)
      <4>1. {e} \in SUBSET (InMemory(rows) \ (D!Owed \ {}))
        BY <2>3, <3>2
      <4> QED
        BY <3>2, <4>1
    <3> QED
      BY <1>2, <3>1, <3>2
  <2> QED
    BY <1>3, <2>2, <2>4 DEF D!GiveUp
<1> QED
  BY <1>5, <1>6, <1>7

\* The end of a process, orderly or not, loses what is only in memory.
LEMMA EndDelivers ==
    ASSUME DeliveryInv, Return \/ Crash
    PROVE  FateInv' /\ D!Crash
<1>1. /\ queue' = <<>> /\ rows' = rows /\ taken' = taken /\ gaveUp' = gaveUp
      /\ epc' = [e \in Events |-> IF epc[e] = "unlocked" THEN "done" ELSE epc[e]]
  BY DEF Return, Crash, Ends
<1>2. InMemory(queue') = {}
  BY <1>1, ShortLists
<1>3. FateInv'
  BY <1>1, <1>2, DeliveryTypes DEF FateInv
<1>4. \A e \in Events : Fate(e)' = IF e \in D!Owed \ InMemory(rows) THEN "lost" ELSE Fate(e)
  <2> SUFFICES ASSUME NEW e \in Events
               PROVE  Fate(e)' = IF e \in D!Owed /\ e \notin InMemory(rows) THEN "lost"
                                 ELSE Fate(e)
    OBVIOUS
  <2>1. Decided(e) /\ Decided(e)'
    BY FateDecided
  <2>2. e \in D!Owed <=> Fate(e) = "owed"
    BY DEF D!Owed
  <2>3. /\ e \in taken' <=> e \in taken
        /\ e \in gaveUp' <=> e \in gaveUp
        /\ e \in InMemory(rows') <=> e \in InMemory(rows)
        /\ epc'[e] = "new" <=> epc[e] = "new"
    BY <1>1
  <2>4. e \notin InMemory(queue')
    BY <1>2
  <2> QED
    BY <2>1, <2>2, <2>3, <2>4 DEF Decided
<1>5. D!Become(D!Owed \ InMemory(rows), "lost")
  BY <1>4, Becomes
<1> QED
  BY <1>1, <1>3, <1>5 DEF D!Crash

\* A new process takes up what is in the table, what was given up included.
LEMMA RestartDelivers ==
    ASSUME DeliveryInv, Restart
    PROVE  FateInv' /\ D!Recover
<1>1. /\ queue' = rows /\ rows' = rows /\ taken' = taken /\ gaveUp' = gaveUp \ InMemory(rows)
      /\ epc' = epc /\ qpc = "down" /\ qpc' # "down" /\ InMemory(queue) = {}
  BY DeliveryTypes, ShortLists DEF Restart
<1>2. FateInv'
  BY <1>1, DeliveryTypes DEF FateInv
<1> DEFINE es == {e \in InMemory(rows) : [d \in Events |-> Fate(d)][e] = "abandoned"}
<1>3. \A e \in Events : Fate(e)' = IF e \in es THEN "owed" ELSE Fate(e)
  BY <1>1, DeliveryTypes DEF Fate
<1>4. D!Become(es, "owed")
  BY <1>3, Becomes
<1> QED
  BY <1>1, <1>2, <1>4 DEF D!Recover

\* The other steps change nothing Delivery speaks of.
LEMMA QuietDelivers ==
    ASSUME DeliveryInv,
           \/ Offer \/ Rejected \/ BatchDone \/ BatchCut \/ Decide \/ Woken \/ NapOver
           \/ Cancel \/ Tick \/ Older \/ UNCHANGED vars
           \/ \E r \in Relays : Connect(r) \/ ConnectFails(r)
           \/ \E e \in Events : Signal(e)
    PROVE  FateInv' /\ UNCHANGED D!vars
<1>1. /\ queue' = queue /\ rows' = rows /\ taken' = taken /\ gaveUp' = gaveUp
      /\ qpc' = "down" => qpc = "down"
  BY DEF Offer, Rejected, BatchDone, BatchCut, Decide, Woken, NapOver, Goto, Cancel, Tick, Older,
         Connect, ConnectFails, Signal, vars, history
<1>2. \A e \in Events : epc'[e] = "new" <=> epc[e] = "new"
  BY DeliveryTypes DEF Offer, Rejected, BatchDone, BatchCut, Decide, Woken, NapOver, Goto, Cancel,
         Tick, Older, Connect, ConnectFails, Signal, vars
<1>3. \A e \in Events : Fate(e)' = Fate(e)
  BY <1>1, <1>2 DEF Fate
<1>4. FateInv'
  BY <1>1, <1>2, DeliveryTypes DEF FateInv
<1> QED
  BY <1>1, <1>3, <1>4 DEF D!vars

\* The queue keeps its promise to deliver: an event that no relay has stays in
\* the table, or in memory where it could not be stored, until it is given up
\* aloud; with crashes, restarts and failing statements between any two steps.
THEOREM QueueDelivers == Spec => Delivers
<1>1. Init => D!Init /\ FateInv
  <2> SUFFICES ASSUME Init
               PROVE  D!Init /\ FateInv
    OBVIOUS
  <2>1. \A e \in Events : Fate(e) = "new"
    <3> SUFFICES ASSUME NEW e \in Events
                 PROVE  Fate(e) = "new"
      OBVIOUS
    <3>1. epc[e] = "new"
      BY DEF Init
    <3> QED
      BY <3>1, FateDecided DEF Decided
  <2> QED
    BY <2>1, ShortLists DEF Init, D!Init, FateInv
<1>2. DeliveryInv /\ [Next]_vars => FateInv' /\ [D!Next]_(D!vars)
  <2> SUFFICES ASSUME DeliveryInv, [Next]_vars
               PROVE  FateInv' /\ (D!Next \/ UNCHANGED D!vars)
    OBVIOUS
  <2>1. CASE \E e \in Events : Enqueue(e)
    BY <2>1, EnqueueDelivers DEF D!Next
  <2>2. CASE StartPass
    <3>1. \E gone \in SUBSET ToDelete : Evict(gone) /\ epc' = epc /\ qpc' # "down"
      BY <2>2 DEF StartPass
    <3> QED
      BY <3>1, EvictDelivers DEF D!Next
  <2>3. CASE EndPass
    <3>1. \E gone \in SUBSET ToDelete : Evict(gone) /\ epc' = epc /\ qpc' # "down"
      BY <2>3 DEF EndPass
    <3> QED
      BY <3>1, EvictDelivers DEF D!Next
  <2>4. CASE Arrives \/ Published
    <3>1. Head(batch) \in Events
      BY <2>4, DeliveryTypes DEF Arrives, Published
    <3> QED
      BY <2>4, <3>1, ArrivalDelivers DEF D!Next
  <2>5. CASE Return \/ Crash
    BY <2>5, EndDelivers DEF D!Next
  <2>6. CASE Restart
    BY <2>6, RestartDelivers DEF D!Next
  <2> QED
    BY <2>1, <2>2, <2>3, <2>4, <2>5, <2>6, QuietDelivers DEF Next, Drain
<1>3. ListInv /\ FateInv <=> DeliveryInv
  BY DEF DeliveryInv
<1> QED
  BY <1>1, <1>2, <1>3, ListCorrect, PTL DEF Spec, Delivers, D!Spec
=============================================================================
