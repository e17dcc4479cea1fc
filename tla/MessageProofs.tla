--------------------------- MODULE MessageProofs ----------------------------
(***************************************************************************)
(* What becomes of a message, of a caller of !compact, and of a request to *)
(* preempt, for every value of the constants, faults, !stop and shutdown   *)
(* included; last, what the tables keep of the messages when the process   *)
(* ends between two steps, and in which order.                             *)
(***************************************************************************)
EXTENDS OpencrowProofs, Lifecycle, FiniteSetTheorems
-----------------------------------------------------------------------------
(* Conservation and SettledOnce.  RowsInv is the book-keeping of the rows: *)
(* ids are unique, the row in the worker's hands is in no other place, and *)
(* what a row carries fits its source.  On top of it Conservation is       *)
(* inductive: a step moves a row, joins two, copies one under a new id, or *)
(* settles one and lets it go.                                             *)

Distinct(r) == \A i, j \in DOMAIN r.body : r.body[i] = r.body[j] => i = j

Shape(r) ==
    /\ r.src = "user" => Carries(r) # {} /\ Carries(r) \subseteq Prompts
    /\ r.src = "trigger" => Carries(r) # {} /\ Carries(r) \subseteq Triggers
    /\ r.src \in {"heartbeat", "compact"} => Carries(r) = {}

Stored == inbox \cup extra

RowsInv ==
    /\ wpc # "fold" => extra = {}
    /\ inbox \cap extra = {}
    /\ \A r \in Stored : r.id < nextId /\ Shape(r)
    /\ \A r, s \in Stored : r.id = s.id => r = s
    /\ \A r \in extra : r.src = "user"
    /\ wpc \in HoldingPcs =>
           /\ op.row.id < nextId /\ Shape(op.row)
           /\ \A r \in Stored : r.id # op.row.id
    /\ wpc \in {"merge", "fold"} => op.row.src = "user"
    /\ wpc \in HoldingPcs \ {"merge", "fold", "register"} => op.row.src # "compact"
-----------------------------------------------------------------------------
(* Rows and what they carry.                                               *)

NewRow(src, body) == [id |-> nextId, src |-> src, body |-> body]

LEMMA CarriesNothing ==
    ASSUME NEW r, r.body = <<>>
    PROVE  Carries(r) = {} /\ Distinct(r)
BY DEF Carries, Distinct

LEMMA CarriesOne ==
    ASSUME NEW r, NEW m, r.body = <<m>>
    PROVE  Carries(r) = {m} /\ Distinct(r)
BY DEF Carries, Distinct

LEMMA SameBody ==
    ASSUME NEW r, NEW s, r.body = s.body
    PROVE  Carries(r) = Carries(s) /\ (Distinct(r) <=> Distinct(s))
BY DEF Carries, Distinct

\* The body of a row joined with another one.
LEMMA CarriesJoined ==
    ASSUME NEW r \in Rows, NEW s \in Rows, NEW q, q.body = r.body \o s.body
    PROVE  /\ Carries(q) = Carries(r) \cup Carries(s)
           /\ Distinct(r) /\ Distinct(s) /\ Carries(r) \cap Carries(s) = {} => Distinct(q)
<1> DEFINE a == r.body  b == s.body  c == q.body
<1>1. a \in Seq(Messages) /\ b \in Seq(Messages)
  BY DEF Rows
<1>2. /\ Len(a) \in Nat /\ Len(b) \in Nat
      /\ DOMAIN a = 1 .. Len(a) /\ DOMAIN b = 1 .. Len(b)
  BY <1>1, LenProperties
<1>3. c = a \o b
  OBVIOUS
<1> HIDE DEF a, b, c
<1>a. /\ c \in Seq(Messages) /\ Len(c) = Len(a) + Len(b)
      /\ \A i \in 1 .. Len(a) + Len(b) : c[i] = IF i <= Len(a) THEN a[i] ELSE b[i - Len(a)]
  BY <1>1, <1>3, ConcatProperties
<1>4. DOMAIN c = 1 .. Len(a) + Len(b)
  BY <1>a, LenProperties
<1>5. \A i \in DOMAIN a : i \in DOMAIN c /\ c[i] = a[i]
  BY <1>2, <1>a, <1>4
<1>6. \A i \in DOMAIN b : i + Len(a) \in DOMAIN c /\ c[i + Len(a)] = b[i]
  BY <1>2, <1>a, <1>4
<1>7. \A i \in DOMAIN c : \/ i \in DOMAIN a /\ c[i] = a[i]
                          \/ i - Len(a) \in DOMAIN b /\ c[i] = b[i - Len(a)]
  BY <1>2, <1>a, <1>4
<1>8. Carries(q) = Carries(r) \cup Carries(s)
  <2>1. Carries(q) \subseteq Carries(r) \cup Carries(s)
    BY <1>7 DEF Carries, a, b, c
  <2>2. Carries(r) \subseteq Carries(q)
    BY <1>5 DEF Carries, a, c
  <2>3. Carries(s) \subseteq Carries(q)
    BY <1>6 DEF Carries, b, c
  <2> QED
    BY <2>1, <2>2, <2>3
<1>9. ASSUME Distinct(r), Distinct(s), Carries(r) \cap Carries(s) = {}
      PROVE  Distinct(q)
  <2> SUFFICES ASSUME NEW i \in DOMAIN c, NEW j \in DOMAIN c, c[i] = c[j]
               PROVE  i = j
    BY DEF Distinct, c
  <2>1. CASE i \in DOMAIN a /\ j \in DOMAIN a
    BY <1>5, <1>9, <2>1 DEF Distinct, a
  <2>2. CASE i - Len(a) \in DOMAIN b /\ j - Len(a) \in DOMAIN b
    <3>1. c[i] = b[i - Len(a)] /\ c[j] = b[j - Len(a)]
      BY <1>2, <1>a, <1>4, <2>2
    <3>2. i - Len(a) = j - Len(a)
      BY <1>9, <2>2, <3>1 DEF Distinct, b
    <3> QED
      BY <1>2, <1>4, <3>2
  <2>3. ASSUME NEW k \in DOMAIN a, NEW l \in DOMAIN b
        PROVE  a[k] # b[l]
    BY <1>9 DEF Carries, a, b
  <2> QED
    BY <1>7, <2>1, <2>2, <2>3
<1> QED
  BY <1>8, <1>9
-----------------------------------------------------------------------------
(* The book-keeping is inductive.                                          *)

PromptingPcs == HoldingPcs \ {"merge", "fold", "register"}

\* The rows stay where they are, and the worker, if it holds one afterwards,
\* held it before.
LEMMA RowsStay ==
    ASSUME RowsInv, UNCHANGED <<inboxVars, extra>>,
           wpc' \in HoldingPcs => wpc \in HoldingPcs /\ op'.row = op.row,
           wpc' \in {"merge", "fold"} => wpc' = wpc,
           wpc' \in PromptingPcs => wpc \in PromptingPcs \/ op.row.src # "compact",
           wpc' # "fold" => extra = {}
    PROVE  RowsInv'
BY DEF RowsInv, Stored, inboxVars, PromptingPcs, HoldingPcs

\* A new row, with a new id; the worker goes on with what it holds or has
\* just let go of it.
LEMMA RowsGrow ==
    ASSUME TypeInv, RowsInv, NEW src, NEW body, Insert(src, body),
           Shape(NewRow(src, body)), UNCHANGED extra,
           \/ wpc' = wpc /\ op'.row = op.row
           \/ wpc' \notin HoldingPcs /\ wpc # "fold"
    PROVE  RowsInv'
<1>1. nextId \in Nat /\ \A r \in Stored : r.id \in Nat /\ r.id < nextId
  BY DEF TypeInv, TypeOK, WorkerTypeOK, InboxTypeOK, RowsInv, Stored, Rows
<1>2. inbox' = inbox \cup {NewRow(src, body)} /\ nextId' = nextId + 1
  BY DEF Insert, NewRow
<1>3. NewRow(src, body).id = nextId /\ NewRow(src, body) \notin Stored
  BY <1>1 DEF NewRow
<1>4. op.row.id \in Nat
  BY DEF TypeInv, TypeOK, WorkerTypeOK, Ops, Rows
<1> HIDE DEF NewRow
<1>5. \A r \in Stored' : r.id < nextId' /\ Shape(r)
  BY <1>1, <1>2, <1>3 DEF RowsInv, Stored
<1>6. \A r, s \in Stored' : r.id = s.id => r = s
  BY <1>1, <1>2, <1>3 DEF RowsInv, Stored
<1>7. inbox' \cap extra' = {}
  BY <1>2, <1>3 DEF RowsInv, Stored
<1>8. wpc' \in HoldingPcs =>
           /\ op'.row.id < nextId' /\ Shape(op'.row)
           /\ \A r \in Stored' : r.id # op'.row.id
  BY <1>1, <1>2, <1>3, <1>4 DEF RowsInv, Stored
<1>9. /\ wpc' # "fold" => extra' = {}
      /\ \A r \in extra' : r.src = "user"
      /\ wpc' \in {"merge", "fold"} => op'.row.src = "user"
      /\ wpc' \in HoldingPcs \ {"merge", "fold", "register"} => op'.row.src # "compact"
  BY DEF RowsInv, HoldingPcs
<1> QED
  BY <1>5, <1>6, <1>7, <1>8, <1>9 DEF RowsInv

LEMMA RequeueRows ==
    ASSUME TypeInv, RowsInv, wpc \in PromptingPcs, wpc' = "park", UNCHANGED extra, RequeueRow
    PROVE  RowsInv'
<1>1. CASE Insert(op.row.src, op.row.body)
  <2>1. Shape(NewRow(op.row.src, op.row.body))
    BY SameBody DEF RowsInv, PromptingPcs, Shape, NewRow
  <2> QED
    BY <1>1, <2>1, RowsGrow DEF HoldingPcs, PromptingPcs
<1>2. CASE UNCHANGED inboxVars
  BY <1>2, RowsStay DEF HoldingPcs, PromptingPcs, RowsInv
<1> QED
  BY <1>1, <1>2 DEF RequeueRow

LEMMA WorkRows ==
    ASSUME TypeInv, RowsInv, Work
    PROVE  RowsInv'
<1> USE DEF Moves, Work, HoldingPcs, PromptingPcs
<1>a. op \in Ops
  BY DEF TypeInv, TypeOK, WorkerTypeOK
<1>b. wpc # "fold" => extra = {}
  BY DEF RowsInv
<1>1. CASE DrainEnds \/ DequeueFails \/ Woken \/ Exit \/ Exited
  BY <1>1, <1>b, RowsStay DEF DrainEnds, DequeueFails, Woken, Exit, Exited, inboxVars
<1>2. ASSUME NEW r \in inbox, Dequeue(r)
      PROVE  RowsInv'
  <2>1. op'.row = r /\ inbox' = inbox \ {r} /\ UNCHANGED <<nextId, extra>>
    BY <1>2 DEF Dequeue, Remove, NoOp
  <2>2. wpc' = IF r.src = "user" THEN "merge" ELSE "register"
    BY <1>2 DEF Dequeue
  <2> QED
    BY <2>1, <2>2, <1>b, <1>2 DEF RowsInv, Stored, Dequeue
<1>3. CASE MergeUserItems
  <2>1. inbox' = inbox \ UserRows /\ extra' = UserRows /\ UNCHANGED <<nextId, op>> /\ wpc' = "fold"
        /\ extra = {} /\ wpc = "merge"
    BY <1>3, <1>b DEF MergeUserItems, RemoveUserRows
  <2> QED
    BY <2>1 DEF RowsInv, Stored, UserRows
<1>4. CASE MergeFails \/ Folded
  BY <1>4, <1>b, RowsStay DEF MergeFails, Folded, inboxVars
<1>5. ASSUME NEW r \in extra, Fold(r)
      PROVE  RowsInv'
  <2>1. /\ op'.row = [op.row EXCEPT !.body = op.row.body \o r.body]
        /\ extra' = extra \ {r} /\ UNCHANGED <<wpc, inbox, nextId>> /\ wpc = "fold"
    BY <1>5, <1>a DEF Fold, inboxVars, Ops
  <2>2. op.row \in Rows /\ r \in Rows
    BY <1>a, <1>5 DEF Ops, TypeInv, TypeOK, WorkerTypeOK
  <2>3. op'.row.id = op.row.id /\ op'.row.src = op.row.src
        /\ op'.row.body = op.row.body \o r.body
    BY <2>1, <2>2 DEF Rows
  <2>4. Carries(op'.row) = Carries(op.row) \cup Carries(r)
    BY <2>2, <2>3, CarriesJoined
  <2>5. Shape(op'.row)
    BY <2>1, <2>3, <2>4 DEF RowsInv, Stored, Shape
  <2> QED
    BY <2>1, <2>3, <2>5 DEF RowsInv, Stored
<1>6. CASE Register
  BY <1>6, <1>a, <1>b, RowsStay DEF Register, inboxVars, Ops
<1>7. CASE Release
  BY <1>7, <1>b, RowsStay DEF Release, inboxVars
<1>8. CASE SkipHeartbeat \/ BeginPrompt
  BY <1>8, <1>b, RowsStay DEF SkipHeartbeat, BeginPrompt, inboxVars
<1>9. CASE NoRoom
  <2>1. CASE op.row.src = "trigger"
    BY <1>9, <2>1, RequeueRows DEF NoRoom
  <2>2. CASE op.row.src # "trigger"
    BY <1>9, <2>2, <1>b, RowsStay DEF NoRoom, inboxVars
  <2> QED
    BY <2>1, <2>2
<1>10. CASE EnsurePi
  BY <1>10, <1>a, <1>b, RowsStay DEF EnsurePi, inboxVars, Ops
<1>11. CASE SpawnFails \/ Spawn \/ Store
  BY <1>11, <1>a, <1>b, RowsStay DEF SpawnFails, Spawn, Store, inboxVars, Ops
<1>12. CASE Send \/ SendFails \/ AwaitFails \/ Reject \/ Retry \/ Retried
  BY <1>12, <1>a, <1>b, RowsStay
     DEF Send, SendFails, AwaitFails, Reject, Retry, Retried, AfterSendError, inboxVars, Ops
<1>13. CASE SendAbort
  BY <1>13, <1>a, <1>b, RowsStay DEF SendAbort, inboxVars, Ops
<1>14. ASSUME NEW reply \in Replies \ {"none"}, Answer(reply)
       PROVE  RowsInv'
  BY <1>14, <1>a, <1>b, RowsStay DEF Answer, inboxVars, Ops
<1>15. CASE RepromptEnds \/ CompactEnds
  BY <1>15, <1>a, <1>b, RowsStay DEF RepromptEnds, CompactEnds, inboxVars, Ops
<1>16. CASE RequeuePreempted
  <2>1. CASE op.row.src # "heartbeat"
    BY <1>16, <2>1, RequeueRows DEF RequeuePreempted
  <2>2. CASE op.row.src = "heartbeat"
    BY <1>16, <2>2, <1>b, RowsStay DEF RequeuePreempted
  <2> QED
    BY <2>1, <2>2
<1>17. CASE FailWithoutPi \/ FailAndKill \/ FailKilled \/ Deliver
  BY <1>17, <1>b, RowsStay DEF FailWithoutPi, FailAndKill, FailKilled, Deliver, inboxVars
<1>18. CASE TakeCompact
  BY <1>18, <1>a, <1>b, RowsStay DEF TakeCompact, inboxVars, Ops
<1> QED
  BY <1>1, <1>2, <1>3, <1>4, <1>5, <1>6, <1>7, <1>8, <1>9, <1>10, <1>11, <1>12, <1>13,
     <1>14, <1>15, <1>16, <1>17, <1>18
     DEF WorkerStep, LoopStep, PiStep

\* What Enqueue inserts for a prompt, a trigger, a tick or a !compact.
LEMMA NewShape ==
    /\ \A p \in Prompts : Shape(NewRow("user", <<p>>))
    /\ \A t \in Triggers : Shape(NewRow("trigger", <<t>>))
    /\ Shape(NewRow("heartbeat", <<>>))
    /\ Shape(NewRow("compact", <<>>))
<1>1. ASSUME NEW p \in Prompts
      PROVE  Shape(NewRow("user", <<p>>))
  <2>1. NewRow("user", <<p>>).src = "user" /\ NewRow("user", <<p>>).body = <<p>>
    BY DEF NewRow
  <2>2. Carries(NewRow("user", <<p>>)) = {p}
    BY <2>1, CarriesOne
  <2> QED
    BY <2>1, <2>2 DEF Shape
<1>2. ASSUME NEW t \in Triggers
      PROVE  Shape(NewRow("trigger", <<t>>))
  <2>1. NewRow("trigger", <<t>>).src = "trigger" /\ NewRow("trigger", <<t>>).body = <<t>>
    BY DEF NewRow
  <2>2. Carries(NewRow("trigger", <<t>>)) = {t}
    BY <2>1, CarriesOne
  <2> QED
    BY <2>1, <2>2 DEF Shape
<1>3. ASSUME NEW src \in {"heartbeat", "compact"}
      PROVE  Shape(NewRow(src, <<>>))
  <2>1. NewRow(src, <<>>).src = src /\ NewRow(src, <<>>).body = <<>>
    BY DEF NewRow
  <2>2. Carries(NewRow(src, <<>>)) = {}
    BY <2>1, CarriesNothing
  <2> QED
    BY <2>1, <2>2 DEF Shape
<1> QED
  BY <1>1, <1>2, <1>3

\* Steps of other goroutines that insert nothing leave the rows alone.
LEMMA RowsUntouched ==
    ASSUME RowsInv, UNCHANGED <<inboxVars, extra, wpc>>, op'.row = op.row
    PROVE  RowsInv'
BY DEF RowsInv, Stored, inboxVars

LEMMA CancelKeepsRow ==
    ASSUME op \in Ops, Cancel
    PROVE  op'.row = op.row /\ op'.since = op.since /\ op'.cancelled = TRUE
BY DEF Cancel, Ops

LEMMA HandlerRows ==
    ASSUME TypeInv, RowsInv, NEW t \in Threads, Continue(t)
    PROVE  RowsInv'
<1> USE DEF workerVars
<1>a. op \in Ops
  BY DEF TypeInv, TypeOK, WorkerTypeOK
<1>1. CASE t \in Notifiers /\ Notify(t)
  <2>1. op'.row = op.row
    BY <1>1, <1>a, CancelKeepsRow DEF Notify, NotifyLock
  <2> QED
    BY <1>1, <2>1, RowsUntouched DEF Notify, NotifyLock
<1>2. CASE t \in Notifiers /\ Wake(t)
  BY <1>2, RowsUntouched DEF Wake, NotifyWake
<1>3. CASE t \in Prompts /\ EnqueuePrompt(t)
  BY <1>3, NewShape, RowsGrow DEF EnqueuePrompt
<1>4. CASE t \in Prompts /\ RefusePrompt(t)
  BY <1>4, RowsUntouched DEF RefusePrompt
<1>5. CASE t \in Stops /\ ReadCancel(t)
  BY <1>5, RowsUntouched DEF ReadCancel
<1>6. CASE t \in Stops /\ CallCancel(t)
  <2>1. op'.row = op.row
    BY <1>6, <1>a, CancelKeepsRow DEF CallCancel
  <2> QED
    BY <1>6, <2>1, RowsUntouched DEF CallCancel
<1>7. CASE t \in Restarts /\ (RestartStop(t) \/ RestartDone(t))
  BY <1>7, RowsUntouched DEF RestartStop, RestartDone
<1>8. CASE t \in Compacts /\ EnqueueCompact(t)
  BY <1>8, NewShape, RowsGrow DEF EnqueueCompact
<1>9. CASE t \in Compacts /\ (ClaimSlot(t) \/ RefuseCompact(t) \/ CompactReturns(t))
  BY <1>9, RowsUntouched DEF ClaimSlot, RefuseCompact, CompactReturns
<1>10. CASE t = Reaper /\ (ReaperStop \/ ReaperDone)
  BY <1>10, RowsUntouched DEF ReaperStop, ReaperDone
<1> QED
  BY <1>1, <1>2, <1>3, <1>4, <1>5, <1>6, <1>7, <1>8, <1>9, <1>10 DEF Continue

LEMMA ArriveRows ==
    ASSUME TypeInv, RowsInv, Arrive \/ Rest \/ UNCHANGED vars
    PROVE  RowsInv'
<1> USE DEF workerVars, handlerVars
<1>1. ASSUME NEW t \in Triggers, EnqueueTrigger(t)
      PROVE  RowsInv'
  BY <1>1, NewShape, RowsGrow DEF EnqueueTrigger
<1>2. CASE Tick
  BY <1>2, NewShape, RowsGrow DEF Tick
<1>3. CASE \/ \E p \in Prompts : SetRoomID(p)
           \/ \E t \in Triggers : RefuseTrigger(t)
           \/ \E s \in Stops : CheckActive(s)
           \/ \E h \in Restarts : RestartFlag(h)
           \/ \E c \in Compacts : CompactActive(c)
           \/ ReaperCheck
  BY <1>3, RowsUntouched
     DEF SetRoomID, RefuseTrigger, CheckActive, RestartFlag, CompactActive, ReaperCheck
<1>4. CASE TimePasses \/ PiExits \/ Shutdown \/ Rest \/ UNCHANGED vars
  BY <1>4, RowsUntouched DEF TimePasses, PiExits, Shutdown, Rest, vars
<1> QED
  BY <1>1, <1>2, <1>3, <1>4 DEF Arrive

LEMMA InitRows == Init => RowsInv
BY DEF Init, InboxInit, WorkerInit, RowsInv, Stored, HoldingPcs

LEMMA NextRows == TypeInv /\ RowsInv /\ [Next]_vars => RowsInv'
BY WorkRows, HandlerRows, ArriveRows DEF Next
-----------------------------------------------------------------------------
(* Conservation.                                                           *)

PendingPcs == {"queued", "waking", "done"}

\* A message nobody has tried to enqueue is not settled.
NotYet == \A m \in Messages : hpc[m] \in {"new", "prepared"} => fate[m] = "none"

ConservationInv == Conservation /\ NotYet

Once == \A m \in Messages : fate[m] # "none" => fate'[m] = fate[m]

LEMMA CarriedPending ==
    ASSUME Conservation, NEW r \in Live, NEW m \in Messages, m \in Carries(r)
    PROVE  fate[m] = "none" /\ hpc[m] \in PendingPcs
BY DEF Conservation, Pending, PendingPcs

\* The rows stay, up to the place they are in, and no message changes sides.
LEMMA LiveStays ==
    ASSUME ConservationInv, Live' = Live, UNCHANGED fate,
           \A m \in Messages :
               /\ hpc'[m] \in PendingPcs <=> hpc[m] \in PendingPcs
               /\ hpc'[m] \in {"new", "prepared"} => hpc[m] \in {"new", "prepared"}
    PROVE  ConservationInv' /\ Once
<1>1. \A m \in Messages : Pending(m)' <=> Pending(m)
  BY DEF Pending, PendingPcs
<1>2. Conservation'
  BY <1>1 DEF ConservationInv, Conservation
<1>3. NotYet' /\ Once
  BY DEF ConservationInv, NotYet, Once
<1> QED
  BY <1>2, <1>3 DEF ConservationInv

\* A row is let go of when its messages, if it has any, are settled.
LEMMA LiveLeaves ==
    ASSUME ConservationInv, NEW r \in Live, Live' = Live \ {r}, UNCHANGED hpc,
           \A m \in Messages :
               IF m \in Carries(r) THEN fate'[m] # "none" ELSE fate'[m] = fate[m]
    PROVE  ConservationInv' /\ Once
<1>1. \A m \in Carries(r) \cap Messages : fate[m] = "none" /\ hpc[m] \in PendingPcs
  BY CarriedPending DEF ConservationInv
<1>2. ASSUME NEW m \in Messages
      PROVE  Pending(m)' <=> \E s \in Live' : m \in Carries(s)
  <2>1. CASE m \in Carries(r)
    BY <2>1 DEF Pending, ConservationInv, Conservation
  <2>2. CASE m \notin Carries(r)
    BY <2>2 DEF Pending, ConservationInv, Conservation
  <2> QED
    BY <2>1, <2>2
<1>3. Conservation'
  BY <1>2 DEF ConservationInv, Conservation
<1>4. NotYet' /\ Once
  BY <1>1 DEF ConservationInv, NotYet, Once, PendingPcs
<1> QED
  BY <1>3, <1>4 DEF ConservationInv

\* A row is replaced by one with the same body.
LEMMA LiveCopies ==
    ASSUME ConservationInv, NEW r \in Live, NEW s, s.body = r.body,
           Live' = (Live \ {r}) \cup {s}, UNCHANGED <<hpc, fate>>
    PROVE  ConservationInv' /\ Once
<1>1. Carries(s) = Carries(r) /\ (Distinct(s) <=> Distinct(r))
  BY SameBody
<1>2. \A m \in Messages : Pending(m)' <=> \E q \in Live' : m \in Carries(q)
  BY <1>1 DEF Pending, ConservationInv, Conservation
<1>3. \A p, q \in Live' : p = q \/ Carries(p) \cap Carries(q) = {}
  BY <1>1 DEF ConservationInv, Conservation
<1>4. \A p \in Live' : Distinct(p)
  BY <1>1 DEF ConservationInv, Conservation, Distinct
<1>5. Conservation'
  BY <1>2, <1>3, <1>4 DEF Conservation, Distinct
<1>6. NotYet' /\ Once
  BY DEF ConservationInv, NotYet, Once
<1> QED
  BY <1>5, <1>6 DEF ConservationInv

\* Two rows become one that carries what both did.
LEMMA LiveJoins ==
    ASSUME ConservationInv, NEW r \in Live, NEW s \in Live, r # s, NEW t,
           Carries(t) = Carries(r) \cup Carries(s), Distinct(t),
           Live' = (Live \ {r, s}) \cup {t}, UNCHANGED <<hpc, fate>>
    PROVE  ConservationInv' /\ Once
<1>1. \A m \in Messages : Pending(m)' <=> \E q \in Live' : m \in Carries(q)
  BY DEF Pending, ConservationInv, Conservation
<1>2. \A p, q \in Live' : p = q \/ Carries(p) \cap Carries(q) = {}
  BY DEF ConservationInv, Conservation
<1>3. \A p \in Live' : Distinct(p)
  BY DEF ConservationInv, Conservation, Distinct
<1>4. Conservation'
  BY <1>1, <1>2, <1>3 DEF Conservation, Distinct
<1>5. NotYet' /\ Once
  BY DEF ConservationInv, NotYet, Once
<1> QED
  BY <1>4, <1>5 DEF ConservationInv

\* A row comes in with a message that was not enqueued before, or with none.
LEMMA LiveGains ==
    ASSUME ConservationInv, NEW r, Distinct(r), Carries(r) \subseteq Messages,
           Live' = Live \cup {r}, UNCHANGED fate,
           \A m \in Messages :
               IF m \in Carries(r)
               THEN hpc[m] \in {"new", "prepared"} /\ hpc'[m] = "queued"
               ELSE hpc'[m] = hpc[m]
    PROVE  ConservationInv' /\ Once
<1>1. ASSUME NEW m \in Messages, m \in Carries(r)
      PROVE  fate[m] = "none" /\ \A s \in Live : m \notin Carries(s)
  BY <1>1, CarriedPending DEF ConservationInv, NotYet, PendingPcs
<1>2. ASSUME NEW m \in Messages
      PROVE  Pending(m)' <=> \E s \in Live' : m \in Carries(s)
  <2>1. CASE m \in Carries(r)
    BY <1>1, <2>1 DEF Pending
  <2>2. CASE m \notin Carries(r)
    BY <2>2 DEF Pending, ConservationInv, Conservation
  <2> QED
    BY <2>1, <2>2
<1>3. \A s \in Live : Carries(r) \cap Carries(s) = {}
  BY <1>1
<1>4. Conservation'
  BY <1>2, <1>3 DEF ConservationInv, Conservation, Distinct
<1>5. NotYet' /\ Once
  BY DEF ConservationInv, NotYet, Once
<1> QED
  BY <1>4, <1>5 DEF ConservationInv
-----------------------------------------------------------------------------
(* Every step of the worker is one of these.                               *)

MessagesInv == TypeInv /\ RowsInv /\ ConservationInv

LEMMA HeldRow ==
    ASSUME RowsInv, wpc \in HoldingPcs
    PROVE  Live = Stored \cup {op.row} /\ op.row \in Live /\ op.row \notin Stored
BY DEF RowsInv, Live, Stored

LEMMA WorkerKeeps ==
    ASSUME MessagesInv, UNCHANGED <<inbox, extra, hpc, fate>>,
           wpc' \in HoldingPcs <=> wpc \in HoldingPcs,
           wpc \in HoldingPcs => op'.row = op.row
    PROVE  ConservationInv' /\ Once
<1>1. Live' = Live
  BY DEF Live
<1> QED
  BY <1>1, LiveStays DEF MessagesInv

LEMMA WorkerSettles ==
    ASSUME MessagesInv, wpc \in HoldingPcs, wpc' \notin HoldingPcs,
           UNCHANGED <<inbox, extra, hpc>>, NEW outcome, outcome # "none", Settle(outcome)
    PROVE  ConservationInv' /\ Once
<1>1. Live' = Live \ {op.row} /\ op.row \in Live
  BY HeldRow DEF MessagesInv, Live, Stored
<1>2. \A m \in Messages :
          IF m \in Carries(op.row) THEN fate'[m] # "none" ELSE fate'[m] = fate[m]
  BY DEF Settle
<1> QED
  BY <1>1, <1>2, LiveLeaves DEF MessagesInv

\* A marker is dropped: there is nothing to settle.
LEMMA WorkerDropsMarker ==
    ASSUME MessagesInv, wpc \in HoldingPcs, wpc' \notin HoldingPcs,
           UNCHANGED <<inbox, extra, hpc, fate>>, op.row.src \in {"heartbeat", "compact"}
    PROVE  ConservationInv' /\ Once
<1>1. Live' = Live \ {op.row} /\ op.row \in Live
  BY HeldRow DEF MessagesInv, Live, Stored
<1>2. Carries(op.row) = {}
  BY DEF MessagesInv, RowsInv, Shape
<1> QED
  BY <1>1, <1>2, LiveLeaves DEF MessagesInv

LEMMA WorkerRequeues ==
    ASSUME MessagesInv, wpc \in HoldingPcs, wpc' \notin HoldingPcs,
           UNCHANGED <<extra, hpc>>, RequeueRow
    PROVE  ConservationInv' /\ Once
<1>1. CASE Insert(op.row.src, op.row.body) /\ UNCHANGED fate
  <2> DEFINE copy == NewRow(op.row.src, op.row.body)
  <2>1. copy.body = op.row.body
    BY DEF NewRow
  <2>2. Live' = (Live \ {op.row}) \cup {copy} /\ op.row \in Live
    BY <1>1, HeldRow DEF MessagesInv, Live, Stored, Insert, NewRow
  <2> HIDE DEF copy
  <2> QED
    BY <1>1, <2>1, <2>2, LiveCopies DEF MessagesInv
<1>2. CASE Settle("dropped") /\ UNCHANGED inboxVars
  BY <1>2, WorkerSettles DEF inboxVars
<1> QED
  BY <1>1, <1>2 DEF RequeueRow

LEMMA WorkConservation ==
    ASSUME MessagesInv, Work
    PROVE  ConservationInv' /\ Once
<1> USE DEF Moves, Work, HoldingPcs, inboxVars
<1>a. op \in Ops /\ extra \subseteq Rows
  BY DEF MessagesInv, TypeInv, TypeOK, WorkerTypeOK
<1>b. wpc # "fold" => extra = {}
  BY DEF MessagesInv, RowsInv
<1>1. CASE DrainEnds \/ DequeueFails \/ Woken \/ Exit \/ Exited
  BY <1>1, WorkerKeeps DEF DrainEnds, DequeueFails, Woken, Exit, Exited
<1>2. ASSUME NEW r \in inbox, Dequeue(r)
      PROVE  ConservationInv' /\ Once
  <2>1. op'.row = r /\ inbox' = inbox \ {r} /\ UNCHANGED <<extra, fate, hpc>>
        /\ wpc = "drain" /\ wpc' \in HoldingPcs
    BY <1>2 DEF Dequeue, Remove, NoOp
  <2>2. Live' = Live
    BY <1>2, <2>1 DEF Live
  <2> QED
    BY <2>1, <2>2, LiveStays DEF MessagesInv
<1>3. CASE MergeUserItems
  <2>1. Live' = Live
    BY <1>3, <1>b DEF MergeUserItems, RemoveUserRows, UserRows, Live
  <2> QED
    BY <1>3, <2>1, LiveStays DEF MessagesInv, MergeUserItems
<1>4. CASE MergeFails \/ Folded
  BY <1>4, WorkerKeeps DEF MergeFails, Folded
<1>5. ASSUME NEW r \in extra, Fold(r)
      PROVE  ConservationInv' /\ Once
  <2>1. op.row \in Rows /\ r \in Rows
    BY <1>a, <1>5 DEF Ops
  <2>2. op'.row.body = op.row.body \o r.body
    BY <1>5, <1>a, <2>1 DEF Fold, Ops, Rows
  <2>3. /\ extra' = extra \ {r} /\ UNCHANGED <<wpc, inbox, hpc, fate>> /\ wpc = "fold"
    BY <1>5 DEF Fold
  <2>4. op.row \in Live /\ r \in Live /\ op.row # r
    BY <2>3, <1>5, HeldRow DEF MessagesInv, Stored, Live
  <2>5. Live' = (Live \ {op.row, r}) \cup {op'.row}
    BY <2>3, <2>4, HeldRow DEF MessagesInv, RowsInv, Stored, Live
  <2>6. Carries(op.row) \cap Carries(r) = {} /\ Distinct(op.row) /\ Distinct(r)
    BY <2>4 DEF MessagesInv, ConservationInv, Conservation, Distinct
  <2>7. Carries(op'.row) = Carries(op.row) \cup Carries(r) /\ Distinct(op'.row)
    BY <2>1, <2>2, <2>6, CarriesJoined
  <2> QED
    BY <2>3, <2>4, <2>5, <2>7, LiveJoins DEF MessagesInv
<1>6. CASE Register
  <2>1. CASE op.row.src = "compact"
    BY <1>6, <2>1, WorkerDropsMarker DEF Register
  <2>2. CASE op.row.src # "compact"
    BY <1>6, <1>a, <2>2, WorkerKeeps DEF Register, Ops
  <2> QED
    BY <2>1, <2>2
<1>7. CASE Release
  BY <1>7, WorkerKeeps DEF Release
<1>8. CASE SkipHeartbeat
  BY <1>8, WorkerDropsMarker DEF SkipHeartbeat
<1>9. CASE NoRoom
  <2>1. CASE op.row.src = "trigger"
    BY <1>9, <2>1, WorkerRequeues DEF NoRoom
  <2>2. CASE op.row.src # "trigger"
    BY <1>9, <2>2, WorkerSettles DEF NoRoom
  <2> QED
    BY <2>1, <2>2
<1>10. CASE BeginPrompt \/ SpawnFails \/ Store
  BY <1>10, WorkerKeeps DEF BeginPrompt, SpawnFails, Store
<1>11. CASE EnsurePi \/ Spawn
  BY <1>11, <1>a, WorkerKeeps DEF EnsurePi, Spawn, Ops
<1>12. CASE Send \/ SendFails \/ AwaitFails \/ Reject \/ Retry \/ Retried
  BY <1>12, <1>a, WorkerKeeps
     DEF Send, SendFails, AwaitFails, Reject, Retry, Retried, AfterSendError, Ops
<1>13. CASE SendAbort
  BY <1>13, <1>a, WorkerKeeps DEF SendAbort, Ops
<1>14. ASSUME NEW reply \in Replies \ {"none"}, Answer(reply)
       PROVE  ConservationInv' /\ Once
  BY <1>14, <1>a, WorkerKeeps DEF Answer, Ops
<1>15. CASE RepromptEnds \/ CompactEnds
  BY <1>15, <1>a, WorkerKeeps DEF RepromptEnds, CompactEnds, Ops
<1>16. CASE RequeuePreempted
  <2>1. CASE op.row.src # "heartbeat"
    BY <1>16, <2>1, WorkerRequeues DEF RequeuePreempted
  <2>2. CASE op.row.src = "heartbeat"
    BY <1>16, <2>2, WorkerDropsMarker DEF RequeuePreempted
  <2> QED
    BY <2>1, <2>2
<1>17. CASE FailWithoutPi \/ FailKilled
  BY <1>17, WorkerSettles DEF FailWithoutPi, FailKilled, Failure
<1>18. CASE FailAndKill
  BY <1>18, WorkerKeeps DEF FailAndKill
<1>19. CASE Deliver
  BY <1>19, WorkerSettles DEF Deliver
<1>20. CASE TakeCompact
  BY <1>20, <1>a, WorkerKeeps DEF TakeCompact, Ops
<1> QED
  BY <1>1, <1>2, <1>3, <1>4, <1>5, <1>6, <1>7, <1>8, <1>9, <1>10, <1>11, <1>12, <1>13,
     <1>14, <1>15, <1>16, <1>17, <1>18, <1>19, <1>20
     DEF WorkerStep, LoopStep, PiStep
-----------------------------------------------------------------------------
(* Every step of the other goroutines is one of these.                     *)

\* A command or a marker that inserts nothing, or a notification.
LEMMA HandlerKeeps ==
    ASSUME MessagesInv, UNCHANGED <<inbox, extra, wpc, fate>>, op'.row = op.row,
           NEW t, NEW from, NEW to, Step(t, from, to),
           \/ t \notin Messages
           \/ from \in {"queued", "waking"} /\ to \in {"waking", "done"}
           \/ from = "new" /\ to = "prepared"
    PROVE  ConservationInv' /\ Once
<1>1. Live' = Live
  BY DEF Live
<1>2. \A m \in Messages :
          /\ hpc'[m] \in PendingPcs <=> hpc[m] \in PendingPcs
          /\ hpc'[m] \in {"new", "prepared"} => hpc[m] \in {"new", "prepared"}
  BY DEF Step, PendingPcs, MessagesInv, TypeInv, TypeOK
<1> QED
  BY <1>1, <1>2, LiveStays DEF MessagesInv

\* Enqueue succeeds.
LEMMA HandlerEnqueues ==
    ASSUME MessagesInv, UNCHANGED <<op, extra, wpc, fate>>,
           NEW src, NEW body, Insert(src, body), NEW t \in Threads, NEW from, Step(t, from, "queued"),
           \/ t \in Messages /\ body = <<t>> /\ from \in {"new", "prepared"}
           \/ t \notin Messages /\ body = <<>>
    PROVE  ConservationInv' /\ Once
<1> DEFINE row == NewRow(src, body)
<1>1. row.body = body
  BY DEF NewRow
<1>2. Live' = Live \cup {row}
  BY DEF Live, Insert, NewRow
<1> HIDE DEF row
<1>3. Distinct(row) /\ Carries(row) = IF t \in Messages THEN {t} ELSE {}
  BY <1>1, CarriesOne, CarriesNothing
<1>4. \A m \in Messages :
          IF m \in Carries(row)
          THEN hpc[m] \in {"new", "prepared"} /\ hpc'[m] = "queued"
          ELSE hpc'[m] = hpc[m]
  BY <1>3 DEF Step, MessagesInv, TypeInv, TypeOK
<1> QED
  BY <1>2, <1>3, <1>4, LiveGains DEF MessagesInv

\* Enqueue fails: the message is settled without ever having been pending.
LEMMA HandlerRefuses ==
    ASSUME MessagesInv, UNCHANGED <<inboxVars, op, extra, wpc>>,
           NEW m \in Messages, NEW from \in {"new", "prepared"}, Step(m, from, "done"),
           NEW outcome, outcome # "none", fate' = [fate EXCEPT ![m] = outcome]
    PROVE  ConservationInv' /\ Once
<1>1. Live' = Live
  BY DEF Live, inboxVars
<1>2. m \in Threads /\ hpc[m] \in {"new", "prepared"} /\ fate[m] = "none"
  BY DEF Step, Messages, Threads, Commands, MessagesInv, ConservationInv, NotYet
<1>3. \A n \in Messages \ {m} : hpc'[n] = hpc[n] /\ fate'[n] = fate[n]
  BY DEF Step, MessagesInv, TypeInv, TypeOK, WorkerTypeOK
<1>4. fate'[m] = outcome /\ hpc'[m] = "done"
  BY <1>2 DEF Step, MessagesInv, TypeInv, TypeOK, WorkerTypeOK
<1>5. \A r \in Live : m \notin Carries(r)
  BY <1>2, CarriedPending DEF PendingPcs, MessagesInv, ConservationInv
<1>6. \A n \in Messages : Pending(n)' <=> \E r \in Live' : n \in Carries(r)
  BY <1>1, <1>3, <1>4, <1>5 DEF Pending, MessagesInv, ConservationInv, Conservation
<1>7. Conservation'
  BY <1>1, <1>6 DEF MessagesInv, ConservationInv, Conservation
<1>8. NotYet' /\ Once
  BY <1>2, <1>3, <1>4 DEF MessagesInv, ConservationInv, NotYet, Once
<1> QED
  BY <1>7, <1>8 DEF ConservationInv

LEMMA HandlerConservation ==
    ASSUME MessagesInv, NEW t \in Threads, Continue(t)
    PROVE  ConservationInv' /\ Once
<1> USE DEF workerVars, inboxVars
<1>a. op \in Ops
  BY DEF MessagesInv, TypeInv, TypeOK, WorkerTypeOK
<1>b. /\ t \in Messages => t \in Prompts \cup Triggers
      /\ t \in Stops \cup Restarts \cup Compacts \cup {Reaper, Ticker} => t \notin Messages
  BY ThreadsAssumption DEF Messages
<1>1. CASE t \in Notifiers /\ Notify(t)
  <2>1. op'.row = op.row
    BY <1>1, <1>a, CancelKeepsRow DEF Notify, NotifyLock
  <2> QED
    BY <1>1, <2>1, HandlerKeeps DEF Notify, NotifyLock
<1>2. CASE t \in Notifiers /\ Wake(t)
  <2>1. t \in Messages => AfterNotify(t) = "done"
    BY <1>b, ThreadsAssumption DEF AfterNotify
  <2> QED
    BY <1>2, <2>1, HandlerKeeps DEF Wake, NotifyWake
<1>3. CASE t \in Prompts /\ EnqueuePrompt(t)
  BY <1>3, HandlerEnqueues DEF EnqueuePrompt, Messages
<1>4. CASE t \in Prompts /\ RefusePrompt(t)
  BY <1>4, HandlerRefuses DEF RefusePrompt, Messages
<1>5. CASE t \in Stops /\ ReadCancel(t)
  BY <1>5, <1>b, HandlerKeeps DEF ReadCancel
<1>6. CASE t \in Stops /\ CallCancel(t)
  <2>1. op'.row = op.row
    BY <1>6, <1>a, CancelKeepsRow DEF CallCancel
  <2> QED
    BY <1>6, <1>b, <2>1, HandlerKeeps DEF CallCancel
<1>7. CASE t \in Restarts /\ (RestartStop(t) \/ RestartDone(t))
  BY <1>7, <1>b, HandlerKeeps DEF RestartStop, RestartDone
<1>8. CASE t \in Compacts /\ EnqueueCompact(t)
  BY <1>8, <1>b, HandlerEnqueues DEF EnqueueCompact
<1>9. CASE t \in Compacts /\ (ClaimSlot(t) \/ RefuseCompact(t) \/ CompactReturns(t))
  BY <1>9, <1>b, HandlerKeeps DEF ClaimSlot, RefuseCompact, CompactReturns
<1>10. CASE t = Reaper /\ (ReaperStop \/ ReaperDone)
  BY <1>10, <1>b, HandlerKeeps DEF ReaperStop, ReaperDone
<1> QED
  BY <1>1, <1>2, <1>3, <1>4, <1>5, <1>6, <1>7, <1>8, <1>9, <1>10 DEF Continue

LEMMA ArriveConservation ==
    ASSUME MessagesInv, Arrive \/ Rest \/ UNCHANGED vars
    PROVE  ConservationInv' /\ Once
<1> USE DEF workerVars, handlerVars, inboxVars
<1>1. ASSUME NEW p \in Prompts, SetRoomID(p)
      PROVE  ConservationInv' /\ Once
  BY <1>1, HandlerKeeps DEF SetRoomID, Begin
<1>2. ASSUME NEW t \in Triggers, EnqueueTrigger(t)
      PROVE  ConservationInv' /\ Once
  BY <1>2, HandlerEnqueues DEF EnqueueTrigger, Messages, Threads
<1>3. ASSUME NEW t \in Triggers, RefuseTrigger(t)
      PROVE  ConservationInv' /\ Once
  BY <1>3, HandlerRefuses DEF RefuseTrigger, Messages
<1>4. ASSUME NEW s \in Stops, CheckActive(s)
      PROVE  ConservationInv' /\ Once
  BY <1>4, ThreadsAssumption, HandlerKeeps DEF CheckActive, Begin
<1>5. ASSUME NEW h \in Restarts, RestartFlag(h)
      PROVE  ConservationInv' /\ Once
  BY <1>5, ThreadsAssumption, HandlerKeeps DEF RestartFlag, Begin
<1>6. ASSUME NEW c \in Compacts, CompactActive(c)
      PROVE  ConservationInv' /\ Once
  BY <1>6, ThreadsAssumption, HandlerKeeps DEF CompactActive, Begin
<1>7. CASE Tick
  BY <1>7, ThreadsAssumption, HandlerEnqueues DEF Tick, Threads
<1>8. CASE ReaperCheck
  BY <1>8, ThreadsAssumption, HandlerKeeps DEF ReaperCheck
<1>9. CASE TimePasses \/ PiExits \/ Shutdown \/ Rest \/ UNCHANGED vars
  <2>1. Live' = Live /\ UNCHANGED <<hpc, fate>>
    BY <1>9 DEF TimePasses, PiExits, Shutdown, Rest, vars, Live
  <2> QED
    BY <2>1, LiveStays DEF MessagesInv
<1> QED
  BY <1>1, <1>2, <1>3, <1>4, <1>5, <1>6, <1>7, <1>8, <1>9 DEF Arrive
-----------------------------------------------------------------------------
LEMMA InitMessages == Init => MessagesInv
<1> SUFFICES ASSUME Init PROVE MessagesInv
  OBVIOUS
<1>1. Live = {} /\ \A m \in Messages : hpc[m] = "new" /\ fate[m] = "none"
  BY DEF Init, InboxInit, WorkerInit, Live, HoldingPcs, Messages, Threads, Commands
<1>2. ConservationInv
  BY <1>1 DEF ConservationInv, Conservation, Pending, NotYet
<1> QED
  BY <1>2, InitType, InitRows DEF MessagesInv

LEMMA NextMessages == MessagesInv /\ [Next]_vars => MessagesInv' /\ Once
BY NextType, NextRows, WorkConservation, HandlerConservation, ArriveConservation
   DEF MessagesInv, Next

\* No message is lost, duplicated or carried by two rows, on any path through
\* merging, preemption, retries and requeues, under any faults.
THEOREM MessagesConserved == Spec => []Conservation
<1>1. MessagesInv => Conservation
  BY DEF MessagesInv, ConservationInv
<1> QED
  BY InitMessages, NextMessages, <1>1, PTL DEF Spec

\* What became of a message is final.
THEOREM MessagesSettledOnce == Spec => SettledOnce
<1>1. MessagesInv /\ [Next]_vars => [Once]_vars
  BY NextMessages
<1> QED
  BY InitMessages, NextMessages, <1>1, PTL DEF Spec, SettledOnce, Once

-----------------------------------------------------------------------------
(* Two things that hang on a row and on a variable in memory at once: the  *)
(* channel of a !compact caller and its row (CompactCallerServed), and the *)
(* rows enqueued while an operation runs and its cancelled context         *)
(* (PreemptionDelivered).                                                  *)

\* The caller in the slot has put its row in the table or is about to, there
\* is no other compact row, and a caller with a row in the table, or waiting,
\* is in the slot until the worker has taken its channel.
CompactInv ==
    /\ \A r, s \in CompactRows : r = s
    /\ CompactRows # {} =>
           slot # NoCaller /\ hpc[slot] \in {"queued", "waking", "waiting", "done"}
    /\ slot # NoCaller => CompactRows # {} \/ hpc[slot] = "slotted"
    /\ \A c \in Compacts : hpc[c] = "slotted" => slot = c
    /\ \A c \in Compacts : hpc[c] \in {"queued", "waking", "waiting"} =>
           c \in answered \/ slot = c \/ (wpc = "compacting" /\ op.caller = c)

\* The compact row whose channel the worker is about to take has left the table.
TakingInv ==
    wpc = "compact" =>
        op.row.src = "compact" /\ op.row.id < nextId /\ op.row \notin inbox

LEMMA WorkTaking ==
    ASSUME TypeInv, RowsInv, TakingInv, Work
    PROVE  TakingInv'
<1>a. op \in Ops
  BY DEF TypeInv, TypeOK, WorkerTypeOK
<1>1. ASSUME Register
      PROVE  TakingInv'
  BY <1>1, <1>a DEF Register, TakingInv, RowsInv, HoldingPcs, Stored, Ops, inboxVars
<1>2. ASSUME ~Register
      PROVE  wpc' # "compact"
  BY <1>2 DEF Work, WorkerStep, LoopStep, PiStep, Moves, DrainEnds, DequeueFails, Dequeue,
     Woken, Exit, Exited, MergeUserItems, MergeFails, Fold, Folded, Release, SkipHeartbeat,
     NoRoom, BeginPrompt, EnsurePi, SpawnFails, Spawn, Store, Send, SendFails, AwaitFails,
     Retry, Retried, RequeuePreempted, FailWithoutPi, FailAndKill, FailKilled, Deliver,
     TakeCompact, Answer, RepromptEnds, CompactEnds, SendAbort, Reject, AfterSendError
<1> QED
  BY <1>1, <1>2 DEF TakingInv

LEMMA CompactStays ==
    ASSUME TypeInv, CompactInv, CompactRows' = CompactRows, UNCHANGED <<slot, answered, hpc>>,
           wpc = "compacting" => wpc' = "compacting" /\ op'.caller = op.caller
    PROVE  CompactInv'
BY DEF CompactInv

\* The worker works on a row that is not a compact row.
LEMMA PromptingStays ==
    ASSUME TypeInv, CompactInv, UNCHANGED <<inbox, slot, answered, hpc>>,
           wpc \notin {"register", "compact", "compacting"},
           wpc' \notin {"register", "compact", "compacting"}
    PROVE  CompactInv'
<1>1. CompactRows' = CompactRows
  BY DEF CompactRows
<1> QED
  BY <1>1, CompactStays

LEMMA RequeueStays ==
    ASSUME TypeInv, RowsInv, CompactInv, UNCHANGED <<slot, answered, hpc>>,
           wpc \in PromptingPcs, wpc' = "park", RequeueRow
    PROVE  CompactInv'
<1>1. op.row.src # "compact" /\ wpc \notin {"register", "compact", "compacting"}
  BY DEF RowsInv, PromptingPcs, HoldingPcs
<1>2. CompactRows' = CompactRows
  BY <1>1 DEF RequeueRow, Insert, inboxVars, CompactRows
<1> QED
  BY <1>1, <1>2, CompactStays

LEMMA WorkCompact ==
    ASSUME TypeInv, RowsInv, TakingInv, CompactInv, Work
    PROVE  CompactInv'
<1> USE DEF Moves, Work, inboxVars
<1>a. op \in Ops
  BY DEF TypeInv, TypeOK, WorkerTypeOK
<1>1. CASE DrainEnds \/ DequeueFails \/ Woken \/ Exit \/ Exited
  BY <1>1, PromptingStays DEF DrainEnds, DequeueFails, Woken, Exit, Exited
<1>2. ASSUME NEW r \in inbox, Dequeue(r)
      PROVE  CompactInv'
  <2>1. /\ op'.row = r /\ inbox' = inbox \ {r} /\ UNCHANGED <<slot, answered, hpc>>
        /\ wpc = "drain" /\ wpc' = IF r.src = "user" THEN "merge" ELSE "register"
    BY <1>2 DEF Dequeue, Remove, NoOp
  <2>2. CompactRows' = CompactRows
    BY <1>2, <2>1 DEF CompactRows
  <2> QED
    BY <2>1, <2>2, CompactStays
<1>3. CASE MergeUserItems
  <2>1. CompactRows' = CompactRows
    BY <1>3 DEF MergeUserItems, RemoveUserRows, UserRows, CompactRows
  <2> QED
    BY <1>3, <2>1, CompactStays DEF MergeUserItems
<1>4. CASE MergeFails \/ Folded
  <2>1. op.row.src = "user" /\ wpc' = "register" /\ wpc \in {"merge", "fold"}
    BY <1>4 DEF MergeFails, Folded, RowsInv
  <2>2. CompactRows' = CompactRows
    BY <1>4, <2>1 DEF MergeFails, Folded, CompactRows
  <2> QED
    BY <1>4, <2>1, <2>2, CompactStays DEF MergeFails, Folded
<1>5. ASSUME NEW r \in extra, Fold(r)
      PROVE  CompactInv'
  BY <1>5, PromptingStays DEF Fold
<1>6. CASE Register
  <2>1. op'.row = op.row
    BY <1>6, <1>a DEF Register, Ops
  <2>2. CompactRows' = CompactRows
    BY <1>6, <2>1 DEF Register, CompactRows
  <2> QED
    BY <1>6, <2>2, CompactStays DEF Register
<1>7. CASE Release
  BY <1>7, PromptingStays DEF Release
<1>8. CASE SkipHeartbeat \/ BeginPrompt
  BY <1>8, PromptingStays DEF SkipHeartbeat, BeginPrompt
<1>9. CASE NoRoom
  <2>1. CASE op.row.src = "trigger"
    BY <1>9, <2>1, RequeueStays DEF NoRoom, PromptingPcs, HoldingPcs
  <2>2. CASE op.row.src # "trigger"
    BY <1>9, <2>2, PromptingStays DEF NoRoom
  <2> QED
    BY <2>1, <2>2
<1>10. CASE EnsurePi \/ SpawnFails \/ Spawn \/ Store
  BY <1>10, PromptingStays DEF EnsurePi, SpawnFails, Spawn, Store
<1>11. CASE Send \/ SendFails \/ AwaitFails \/ Reject \/ Retry \/ Retried
  BY <1>11, PromptingStays DEF Send, SendFails, AwaitFails, Reject, Retry, Retried, AfterSendError
<1>12. CASE SendAbort
  <2>1. op'.row = op.row /\ op'.caller = op.caller
    BY <1>12, <1>a DEF SendAbort, Ops
  <2>2. CompactRows' = CompactRows
    BY <1>12, <2>1 DEF SendAbort, CompactRows
  <2> QED
    BY <1>12, <2>1, <2>2, CompactStays DEF SendAbort
<1>13. ASSUME NEW reply \in Replies \ {"none"}, Answer(reply)
       PROVE  CompactInv'
  BY <1>13, PromptingStays DEF Answer
<1>14. CASE RepromptEnds
  BY <1>14, PromptingStays DEF RepromptEnds
<1>15. CASE CompactEnds
  <2>1. CompactRows' = CompactRows
    BY <1>15 DEF CompactEnds, CompactRows
  <2> QED
    BY <1>15, <2>1 DEF CompactEnds, CompactInv
<1>16. CASE RequeuePreempted
  <2>1. CASE op.row.src # "heartbeat"
    BY <1>16, <2>1, RequeueStays DEF RequeuePreempted, PromptingPcs, HoldingPcs
  <2>2. CASE op.row.src = "heartbeat"
    BY <1>16, <2>2, PromptingStays DEF RequeuePreempted
  <2> QED
    BY <2>1, <2>2
<1>17. CASE FailWithoutPi \/ FailAndKill \/ FailKilled \/ Deliver
  BY <1>17, PromptingStays DEF FailWithoutPi, FailAndKill, FailKilled, Deliver
<1>18. CASE TakeCompact
  <2>1. wpc = "compact" /\ slot' = NoCaller /\ UNCHANGED <<inbox, hpc>>
    BY <1>18 DEF TakeCompact
  <2>a. op'.row = op.row /\ op'.caller = slot
    BY <1>18, <1>a DEF TakeCompact, Ops
  <2>b. wpc' \in {"compacting", "release"} /\ answered \subseteq answered'
    BY <1>18 DEF TakeCompact
  <2>c. slot # NoCaller => slot \in answered' \/ wpc' = "compacting"
    BY <1>18 DEF TakeCompact
  <2>2. op.row \in CompactRows /\ op.row \notin inbox
    BY <2>1 DEF CompactRows, TakingInv
  <2>3. CompactRows' = {}
    BY <2>1, <2>b, <2>2 DEF CompactInv, CompactRows
  <2>4. slot # NoCaller /\ \A c \in Compacts : hpc[c] # "slotted"
    BY <2>2 DEF CompactInv
  <2>5. \A c \in Compacts : hpc[c] \in {"queued", "waking", "waiting"} => c \in answered \/ slot = c
    BY <2>1 DEF CompactInv
  <2>6. \A c \in Compacts : hpc[c] \in {"queued", "waking", "waiting"} =>
            c \in answered' \/ (wpc' = "compacting" /\ op'.caller = c)
    BY <2>4, <2>5, <2>a, <2>b, <2>c
  <2> QED
    BY <2>1, <2>3, <2>4, <2>6 DEF CompactInv
<1> QED
  BY <1>1, <1>2, <1>3, <1>4, <1>5, <1>6, <1>7, <1>8, <1>9, <1>10, <1>11, <1>12, <1>13,
     <1>14, <1>15, <1>16, <1>17, <1>18
     DEF WorkerStep, LoopStep, PiStep

\* A step of another goroutine than a !compact handler.
LEMMA OthersStay ==
    ASSUME TypeInv, CompactInv, CompactRows' = CompactRows, UNCHANGED <<slot, answered, wpc>>,
           op'.caller = op.caller, \A c \in Compacts : hpc'[c] = hpc[c]
    PROVE  CompactInv'
<1>1. slot # NoCaller => slot \in Compacts
  BY DEF TypeInv, TypeOK, WorkerTypeOK
<1> QED
  BY <1>1 DEF CompactInv

\* Cancelling, or a new row of another source, leaves the compact rows alone.
LEMMA SameCompactRows ==
    ASSUME TypeInv, wpc' = wpc, op' = op \/ Cancel,
           \/ inbox' = inbox
           \/ \E src \in Sources \ {"compact"}, body \in Seq(Messages) : Insert(src, body)
    PROVE  CompactRows' = CompactRows /\ op'.caller = op.caller /\ op'.row = op.row
<1>1. op \in Ops
  BY DEF TypeInv, TypeOK, WorkerTypeOK
<1>2. op'.caller = op.caller /\ op'.row = op.row
  BY <1>1 DEF Cancel, Ops
<1>3. {r \in inbox' : r.src = "compact"} = {r \in inbox : r.src = "compact"}
  BY DEF Insert
<1> QED
  BY <1>2, <1>3 DEF CompactRows

LEMMA HandlerCompact ==
    ASSUME TypeInv, CompactInv, NEW t \in Threads, Continue(t)
    PROVE  CompactInv'
<1> USE DEF workerVars, handlerVars, inboxVars, Step
<1>a. /\ hpc \in [Threads -> HandlerPcs] /\ Compacts \subseteq Threads
      /\ slot # NoCaller => slot \in Compacts
  BY DEF TypeInv, TypeOK, WorkerTypeOK, Threads, Commands
<1>b. \A c \in Compacts : c \notin Prompts \cup Stops \cup Restarts \cup {Reaper}
  BY ThreadsAssumption DEF Messages
<1>1. CASE Notify(t) \/ Wake(t)
  <2>1. op' = op \/ Cancel
    BY <1>1 DEF Notify, Wake, NotifyLock, NotifyWake
  <2>2. /\ CompactRows' = CompactRows /\ op'.caller = op.caller
        /\ UNCHANGED <<slot, answered, wpc>>
    BY <1>1, <2>1, SameCompactRows DEF Notify, Wake, NotifyLock, NotifyWake
  <2>3. CASE t \notin Compacts
    <3>1. \A c \in Compacts : hpc'[c] = hpc[c]
      BY <1>1, <1>a, <2>3 DEF Notify, Wake
    <3> QED
      BY <2>2, <3>1, OthersStay
  <2>4. CASE t \in Compacts
    <3>1. t # Ticker
      BY <2>4, ThreadsAssumption
    <3>2. /\ hpc[t] \in {"queued", "waking"} /\ hpc'[t] \in {"waking", "waiting"}
          /\ \A c \in Compacts \ {t} : hpc'[c] = hpc[c]
      BY <1>1, <1>a, <2>4, <3>1 DEF Notify, Wake, AfterNotify
    <3> QED
      BY <1>a, <2>2, <2>4, <3>2 DEF CompactInv
  <2> QED
    BY <2>3, <2>4
<1>2. ASSUME t \in Prompts, EnqueuePrompt(t) \/ RefusePrompt(t)
      PROVE  CompactInv'
  <2>1. <<t>> \in Seq(Messages) /\ "user" \in Sources \ {"compact"}
    BY <1>2 DEF Messages, Sources
  <2>2. CompactRows' = CompactRows /\ op'.caller = op.caller
    BY <1>2, <2>1, SameCompactRows DEF EnqueuePrompt, RefusePrompt
  <2>3. \A c \in Compacts : hpc'[c] = hpc[c]
    BY <1>2, <1>a, <1>b DEF EnqueuePrompt, RefusePrompt
  <2> QED
    BY <1>2, <2>2, <2>3, OthersStay DEF EnqueuePrompt, RefusePrompt
<1>3. ASSUME t \in Stops \/ t \in Restarts \/ t = Reaper,
             \/ ReadCancel(t) \/ CallCancel(t) \/ RestartStop(t) \/ RestartDone(t)
             \/ ReaperStop \/ ReaperDone
      PROVE  CompactInv'
  <2>1. /\ inbox' = inbox /\ (op' = op \/ Cancel) /\ UNCHANGED <<slot, answered, wpc>>
        /\ \E u \in {t, Reaper}, pc \in HandlerPcs : hpc' = [hpc EXCEPT ![u] = pc]
    BY <1>3 DEF ReadCancel, CallCancel, RestartStop, RestartDone, ReaperStop, ReaperDone, HandlerPcs
  <2>2. CompactRows' = CompactRows /\ op'.caller = op.caller
    BY <2>1, SameCompactRows
  <2>3. \A c \in Compacts : hpc'[c] = hpc[c]
    BY <1>3, <2>1, <1>a, <1>b
  <2> QED
    BY <2>1, <2>2, <2>3, OthersStay
<1>4. ASSUME t \in Compacts
      PROVE  /\ t \in Threads /\ t # NoCaller
             /\ \A c \in Compacts \ {t}, pc \in HandlerPcs : [hpc EXCEPT ![t] = pc][c] = hpc[c]
             /\ \A pc \in HandlerPcs : [hpc EXCEPT ![t] = pc][t] = pc
  BY <1>4, <1>a, CompactsAssumption
<1>5. ASSUME t \in Compacts, ClaimSlot(t)
      PROVE  CompactInv'
  <2>1. CompactRows' = CompactRows /\ UNCHANGED <<answered, wpc, op>>
    BY <1>5 DEF ClaimSlot, CompactRows
  <2>2. hpc[t] = "checked" /\ \A c \in Compacts \ {t} : hpc'[c] = hpc[c]
    BY <1>5, <1>a DEF ClaimSlot
  <2>3. CASE slot = NoCaller
    <3>1. slot' = t /\ hpc'[t] = "slotted"
      BY <1>5, <1>a, <2>3 DEF ClaimSlot
    <3>2. CompactRows = {} /\ \A c \in Compacts : hpc[c] # "slotted"
      BY <2>3, CompactsAssumption DEF CompactInv
    <3>3. \A c \in Compacts : hpc[c] \in {"queued", "waking", "waiting"} =>
              c \in answered \/ (wpc = "compacting" /\ op.caller = c)
      BY <2>3, CompactsAssumption DEF CompactInv
    <3> QED
      BY <1>5, <2>1, <2>2, <3>1, <3>2, <3>3 DEF CompactInv
  <2>4. CASE slot # NoCaller
    <3>1. slot' = slot /\ hpc'[t] = "done"
      BY <1>5, <1>a, <2>4 DEF ClaimSlot
    <3>2. slot # t
      BY <2>2, <2>4 DEF CompactInv
    <3> QED
      BY <1>5, <1>a, <2>1, <2>2, <2>4, <3>1, <3>2 DEF CompactInv
  <2> QED
    BY <2>3, <2>4
<1>6. ASSUME t \in Compacts, EnqueueCompact(t)
      PROVE  CompactInv'
  <2>1. /\ hpc[t] = "slotted" /\ hpc'[t] = "queued" /\ UNCHANGED <<slot, answered, wpc, op>>
        /\ \A c \in Compacts \ {t} : hpc'[c] = hpc[c]
    BY <1>6, <1>a DEF EnqueueCompact
  <2>2. slot = t /\ slot # NoCaller /\ CompactRows = {}
    BY <1>6, <2>1, CompactsAssumption DEF CompactInv
  <2>3. CompactRows' = {[id |-> nextId, src |-> "compact", body |-> <<>>]}
    BY <1>6, <2>1, <2>2 DEF EnqueueCompact, Insert, CompactRows
  <2> QED
    BY <2>1, <2>2, <2>3 DEF CompactInv
<1>7. ASSUME t \in Compacts, RefuseCompact(t)
      PROVE  CompactInv'
  <2>1. /\ hpc[t] = "slotted" /\ hpc'[t] = "done" /\ slot' = NoCaller
        /\ UNCHANGED <<answered, wpc, op>> /\ \A c \in Compacts \ {t} : hpc'[c] = hpc[c]
    BY <1>7, <1>a DEF RefuseCompact
  <2>2. slot = t /\ slot # NoCaller /\ CompactRows = {}
    BY <1>7, <2>1, CompactsAssumption DEF CompactInv
  <2>3. CompactRows' = {}
    BY <1>7, <2>2 DEF RefuseCompact, CompactRows
  <2>4. \A c \in Compacts \ {t} : hpc[c] # "slotted"
    BY <2>2 DEF CompactInv
  <2>5. \A c \in Compacts \ {t} : hpc[c] \in {"queued", "waking", "waiting"} =>
            c \in answered \/ (wpc = "compacting" /\ op.caller = c)
    BY <2>2 DEF CompactInv
  <2> QED
    BY <2>1, <2>3, <2>4, <2>5 DEF CompactInv
<1>8. ASSUME t \in Compacts, CompactReturns(t)
      PROVE  CompactInv'
  <2>1. /\ hpc[t] = "waiting" /\ hpc'[t] = "done" /\ UNCHANGED <<slot, answered, wpc, op, inbox>>
        /\ \A c \in Compacts \ {t} : hpc'[c] = hpc[c]
    BY <1>8, <1>a DEF CompactReturns
  <2>2. CompactRows' = CompactRows
    BY <2>1 DEF CompactRows
  <2> QED
    BY <1>a, <2>1, <2>2 DEF CompactInv
<1> QED
  BY <1>1, <1>2, <1>3, <1>5, <1>6, <1>7, <1>8 DEF Continue

LEMMA ArriveCompact ==
    ASSUME TypeInv, CompactInv, Arrive \/ Rest
    PROVE  CompactInv'
<1> USE DEF workerVars, handlerVars, inboxVars, Step
<1>a. /\ hpc \in [Threads -> HandlerPcs] /\ Compacts \subseteq Threads
      /\ slot # NoCaller => slot \in Compacts
  BY DEF TypeInv, TypeOK, WorkerTypeOK, Threads, Commands
<1>b. \A c \in Compacts : c \notin Messages \cup Stops \cup Restarts \cup {Ticker, Reaper}
  BY ThreadsAssumption
<1>1. ASSUME NEW c \in Compacts, CompactActive(c)
      PROVE  CompactInv'
  <2>1. /\ hpc[c] = "new" /\ hpc'[c] \in {"checked", "done"}
        /\ \A d \in Compacts \ {c} : hpc'[d] = hpc[d]
    BY <1>1, <1>a DEF CompactActive, Begin
  <2>2. UNCHANGED <<slot, answered, wpc, op, inbox>> /\ CompactRows' = CompactRows
    BY <1>1 DEF CompactActive, CompactRows
  <2>3. slot # c
    BY <1>1, <2>1, CompactsAssumption DEF CompactInv
  <2> QED
    BY <1>a, <2>1, <2>2, <2>3 DEF CompactInv
<1>2. ASSUME UNCHANGED <<op, slot, answered, wpc>>,
             \/ inbox' = inbox
             \/ \E src \in Sources \ {"compact"}, body \in Seq(Messages) : Insert(src, body),
             \/ hpc' = hpc
             \/ \E u \in Messages \cup Stops \cup Restarts \cup {Ticker, Reaper}, pc \in HandlerPcs :
                    hpc' = [hpc EXCEPT ![u] = pc]
      PROVE  CompactInv'
  <2>1. CompactRows' = CompactRows
    BY <1>2, SameCompactRows
  <2>2. \A c \in Compacts : hpc'[c] = hpc[c]
    BY <1>2, <1>a, <1>b
  <2> QED
    BY <1>2, <2>1, <2>2, OthersStay
<1>3. ASSUME NEW t \in Triggers, EnqueueTrigger(t) \/ RefuseTrigger(t)
      PROVE  CompactInv'
  <2>1. <<t>> \in Seq(Messages) /\ "trigger" \in Sources \ {"compact"} /\ t \in Messages
    BY <1>3 DEF Messages, Sources
  <2> QED
    BY <1>2, <1>3, <2>1 DEF EnqueueTrigger, RefuseTrigger, HandlerPcs
<1>4. CASE Tick
  <2>1. <<>> \in Seq(Messages) /\ "heartbeat" \in Sources \ {"compact"}
    BY DEF Sources
  <2> QED
    BY <1>2, <1>4, <2>1 DEF Tick, HandlerPcs
<1>5. ASSUME NEW p \in Prompts, SetRoomID(p)
      PROVE  CompactInv'
  BY <1>2, <1>5 DEF SetRoomID, Begin, HandlerPcs, Messages
<1>6. ASSUME NEW s \in Stops, CheckActive(s)
      PROVE  CompactInv'
  BY <1>2, <1>6 DEF CheckActive, Begin, HandlerPcs
<1>7. ASSUME NEW h \in Restarts, RestartFlag(h)
      PROVE  CompactInv'
  BY <1>2, <1>7 DEF RestartFlag, Begin, HandlerPcs
<1>8. CASE ReaperCheck
  BY <1>2, <1>8 DEF ReaperCheck, HandlerPcs
<1>9. CASE TimePasses \/ PiExits \/ Shutdown \/ Rest
  BY <1>2, <1>9 DEF TimePasses, PiExits, Shutdown, Rest, vars
<1> QED
  BY <1>1, <1>3, <1>4, <1>5, <1>6, <1>7, <1>8, <1>9 DEF Arrive

LEMMA OthersTaking ==
    ASSUME TypeInv, TakingInv, (\E t \in Threads : Continue(t)) \/ Arrive \/ Rest
    PROVE  TakingInv'
<1> USE DEF workerVars, handlerVars, inboxVars
<1>a. op \in Ops /\ nextId \in Nat
  BY DEF TypeInv, TypeOK, WorkerTypeOK, InboxTypeOK
<1>1. wpc' = wpc /\ (op' = op \/ Cancel)
  BY DEF Continue, Notify, NotifyLock, Wake, NotifyWake, EnqueuePrompt, RefusePrompt, ReadCancel,
         CallCancel, RestartStop, RestartDone, ClaimSlot, EnqueueCompact, RefuseCompact,
         CompactReturns, ReaperStop, ReaperDone, Arrive, SetRoomID, EnqueueTrigger,
         RefuseTrigger, CheckActive, RestartFlag, CompactActive, Tick, ReaperCheck,
         TimePasses, PiExits, Shutdown, Rest, vars
<1>2. op'.row = op.row
  BY <1>1, <1>a DEF Cancel, Ops
<1>3. UNCHANGED inboxVars \/ \E src \in Sources, body \in {<<>>} \cup {<<m>> : m \in Messages} : Insert(src, body)
  BY DEF Continue, Notify, NotifyLock, Wake, NotifyWake, EnqueuePrompt, RefusePrompt, ReadCancel,
         CallCancel, RestartStop, RestartDone, ClaimSlot, EnqueueCompact, RefuseCompact,
         CompactReturns, ReaperStop, ReaperDone, Arrive, SetRoomID, EnqueueTrigger,
         RefuseTrigger, CheckActive, RestartFlag, CompactActive, Tick, ReaperCheck,
         TimePasses, PiExits, Shutdown, Rest, vars, Sources, Messages
<1>4. CASE UNCHANGED inboxVars
  BY <1>1, <1>2, <1>4 DEF TakingInv
<1>5. ASSUME NEW src \in Sources, NEW body, Insert(src, body)
      PROVE  TakingInv'
  <2>1. op.row.id # nextId \/ wpc # "compact"
    BY <1>a DEF TakingInv, Ops, Rows
  <2>2. nextId' = nextId + 1 /\ \A r \in inbox' \ inbox : r.id = nextId
    BY <1>5 DEF Insert
  <2>3. op.row.id \in Nat
    BY <1>a DEF Ops, Rows
  <2>4. wpc = "compact" => op.row.id < nextId'
    BY <1>a, <2>2, <2>3 DEF TakingInv
  <2> QED
    BY <1>1, <1>2, <2>1, <2>2, <2>4 DEF TakingInv
<1> QED
  BY <1>3, <1>4, <1>5

ChannelInv == MessagesInv /\ TakingInv /\ CompactInv

LEMMA InitChannel == Init => ChannelInv
<1> SUFFICES ASSUME Init PROVE ChannelInv
  OBVIOUS
<1>1. CompactRows = {} /\ \A c \in Compacts : hpc[c] = "new"
  BY DEF Init, InboxInit, WorkerInit, CompactRows, Threads, Commands
<1>2. slot = NoCaller /\ wpc = "drain"
  BY DEF Init, WorkerInit
<1> QED
  BY <1>1, <1>2, InitMessages DEF ChannelInv, TakingInv, CompactInv

LEMMA NextChannel == ChannelInv /\ [Next]_vars => ChannelInv'
<1> SUFFICES ASSUME ChannelInv, [Next]_vars PROVE ChannelInv'
  OBVIOUS
<1>1. MessagesInv' /\ TypeInv /\ RowsInv
  BY NextMessages DEF ChannelInv, MessagesInv
<1>2. CASE UNCHANGED vars
  BY <1>1, <1>2 DEF vars, workerVars, handlerVars, inboxVars, ChannelInv, TakingInv, CompactInv,
     CompactRows
<1>3. CASE Next
  BY <1>1, <1>3, WorkTaking, WorkCompact, OthersTaking, HandlerCompact, ArriveCompact
     DEF ChannelInv, Next
<1> QED
  BY <1>2, <1>3

LEMMA ChannelServed ==
    ASSUME ChannelInv
    PROVE  CompactCallerServed
<1>1. Cardinality(CompactRows) <= 1
  <2>1. CASE CompactRows = {}
    BY <2>1, FS_EmptySet
  <2>2. ASSUME NEW r \in CompactRows
        PROVE  Cardinality(CompactRows) = 1
    <3>1. CompactRows = {r}
      BY DEF ChannelInv, CompactInv
    <3> QED
      BY <3>1, FS_Singleton
  <2> QED
    BY <2>1, <2>2
<1> QED
  BY <1>1 DEF ChannelInv, CompactInv, CompactCallerServed

\* A caller of Compact never waits for a channel nobody holds, under any
\* faults: the row and the channel, written one after the other, stay together.
THEOREM CompactCallersServed == Spec => []CompactCallerServed
BY InitChannel, NextChannel, ChannelServed, PTL DEF Spec
-----------------------------------------------------------------------------
(* Preemption.                                                             *)

\* While it holds the messages of its row, the operation runs with the
\* priority a requeued row gets.
DeliveryInv ==
    /\ wpc \in PromptingPcs => current = Priority(op.row)
    /\ PreemptionDelivered

LEMMA DeliveredStays ==
    ASSUME PreemptionDelivered, current' = current, op'.since = op.since, CtxDone => CtxDone',
           \A r \in inbox' : Notified(r)' => (r \in inbox /\ Notified(r)) \/ ~(Priority(r) < current)
    PROVE  PreemptionDelivered'
BY DEF PreemptionDelivered

LEMMA WorkStays ==
    ASSUME DeliveryInv, UNCHANGED <<inbox, hpc, slot, current, shutdown>>,
           op'.row = op.row, op'.since = op.since, op'.cancelled = op.cancelled,
           wpc' \in PromptingPcs => wpc \in PromptingPcs
    PROVE  DeliveryInv'
<1>1. \A r \in inbox' : Notified(r)' => r \in inbox /\ Notified(r)
  BY DEF Notified
<1>2. CtxDone => CtxDone'
  BY DEF CtxDone
<1> QED
  BY <1>1, <1>2, DeliveredStays DEF DeliveryInv

LEMMA WorkUnregistered ==
    ASSUME current' = -1, wpc' \notin PromptingPcs
    PROVE  DeliveryInv'
BY DEF DeliveryInv, PreemptionDelivered

LEMMA RequeueDelivery ==
    ASSUME TypeInv, DeliveryInv, wpc \in PromptingPcs, wpc' = "park", RequeueRow,
           UNCHANGED <<hpc, slot, current, shutdown, op>>
    PROVE  DeliveryInv'
<1>1. current = Priority(op.row) /\ wpc' \notin PromptingPcs
  BY DEF DeliveryInv, PromptingPcs, HoldingPcs
<1>2. ASSUME NEW r \in inbox', Notified(r)'
      PROVE  (r \in inbox /\ Notified(r)) \/ Priority(r) = current
  BY <1>1, <1>2 DEF RequeueRow, Insert, inboxVars, Notified, Priority
<1>3. current \in Int
  BY DEF TypeInv, TypeOK, WorkerTypeOK
<1>4. CtxDone => CtxDone'
  BY DEF CtxDone
<1> QED
  BY <1>1, <1>2, <1>3, <1>4, DeliveredStays DEF DeliveryInv

LEMMA WorkDelivery ==
    ASSUME MessagesInv, Registered, DeliveryInv, Work
    PROVE  DeliveryInv'
<1> USE DEF Moves, Work, inboxVars, PromptingPcs, HoldingPcs, RegisteredPcs
<1>a. op \in Ops /\ TypeInv /\ RowsInv
  BY DEF MessagesInv, TypeInv, TypeOK, WorkerTypeOK
<1>b. wpc \notin RegisteredPcs => current = -1
  BY DEF Registered
<1>1. CASE DrainEnds \/ DequeueFails \/ Woken \/ Exit \/ Exited
  BY <1>1, <1>b, WorkUnregistered DEF DrainEnds, DequeueFails, Woken, Exit, Exited
<1>2. ASSUME NEW r \in inbox, Dequeue(r)
      PROVE  DeliveryInv'
  BY <1>2, <1>b, WorkUnregistered DEF Dequeue
<1>3. CASE MergeUserItems \/ MergeFails \/ Folded
  BY <1>3, <1>b, WorkUnregistered DEF MergeUserItems, MergeFails, Folded
<1>4. ASSUME NEW r \in extra, Fold(r)
      PROVE  DeliveryInv'
  BY <1>4, <1>b, WorkUnregistered DEF Fold
<1>5. CASE Register
  <2>1. /\ op'.row = op.row /\ op'.since = nextId /\ inbox' = inbox
        /\ current' = Priority(op.row)
    BY <1>5, <1>a DEF Register, Ops
  <2>2. \A r \in inbox : r.id < nextId /\ r.id \in Nat
    BY <1>a DEF RowsInv, Stored, TypeInv, TypeOK, InboxTypeOK, Rows
  <2>3. nextId \in Nat
    BY <1>a DEF TypeInv, TypeOK, InboxTypeOK
  <2> QED
    BY <2>1, <2>2, <2>3 DEF DeliveryInv, PreemptionDelivered
<1>6. CASE Release
  BY <1>6, WorkUnregistered DEF Release
<1>7. CASE SkipHeartbeat \/ BeginPrompt
  BY <1>7, WorkStays DEF SkipHeartbeat, BeginPrompt
<1>8. CASE NoRoom
  <2>1. CASE op.row.src = "trigger"
    BY <1>8, <1>a, <2>1, RequeueDelivery DEF NoRoom
  <2>2. CASE op.row.src # "trigger"
    BY <1>8, <2>2, WorkStays DEF NoRoom
  <2> QED
    BY <2>1, <2>2
<1>9. CASE EnsurePi
  <2>1. op'.row = op.row /\ op'.since = op.since /\ op'.cancelled = op.cancelled
    BY <1>9, <1>a DEF EnsurePi, Ops
  <2> QED
    BY <1>9, <2>1, WorkStays DEF EnsurePi
<1>10. CASE SpawnFails \/ Spawn \/ Store
  <2>1. op'.row = op.row /\ op'.since = op.since /\ op'.cancelled = op.cancelled
    BY <1>10, <1>a DEF SpawnFails, Spawn, Store, Ops
  <2> QED
    BY <1>10, <2>1, WorkStays DEF SpawnFails, Spawn, Store
<1>11. CASE Send \/ SendFails \/ AwaitFails \/ Reject \/ SendAbort \/ Retry \/ Retried
  <2>1. op'.row = op.row /\ op'.since = op.since /\ op'.cancelled = op.cancelled
    BY <1>11, <1>a DEF Send, SendFails, AwaitFails, Reject, SendAbort, Retry, Retried, Ops
  <2> QED
    BY <1>11, <2>1, WorkStays DEF Send, SendFails, AwaitFails, Reject, SendAbort, Retry,
       Retried, AfterSendError
<1>12. ASSUME NEW reply \in Replies \ {"none"}, Answer(reply)
       PROVE  DeliveryInv'
  <2>1. op'.row = op.row /\ op'.since = op.since /\ op'.cancelled = op.cancelled
    BY <1>12, <1>a DEF Answer, Ops
  <2> QED
    BY <1>12, <2>1, WorkStays DEF Answer
<1>13. CASE RepromptEnds \/ CompactEnds
  <2>1. op'.row = op.row /\ op'.since = op.since /\ op'.cancelled = op.cancelled
    BY <1>13, <1>a DEF RepromptEnds, CompactEnds, Ops
  <2> QED
    BY <1>13, <2>1, WorkStays DEF RepromptEnds, CompactEnds
<1>14. CASE RequeuePreempted
  <2>1. CASE op.row.src # "heartbeat"
    BY <1>14, <1>a, <2>1, RequeueDelivery DEF RequeuePreempted
  <2>2. CASE op.row.src = "heartbeat"
    BY <1>14, <2>2, WorkStays DEF RequeuePreempted
  <2> QED
    BY <2>1, <2>2
<1>15. CASE FailWithoutPi \/ FailAndKill \/ FailKilled \/ Deliver
  BY <1>15, WorkStays DEF FailWithoutPi, FailAndKill, FailKilled, Deliver
<1>16. CASE TakeCompact
  <2>1. op'.row = op.row /\ op'.since = op.since /\ op'.cancelled = op.cancelled
    BY <1>16, <1>a DEF TakeCompact, Ops
  <2>2. \A r \in inbox' : Notified(r)' => r \in inbox /\ Notified(r)
    BY <1>16 DEF TakeCompact, Notified
  <2>3. CtxDone => CtxDone'
    BY <1>16, <2>1 DEF TakeCompact, CtxDone
  <2>4. current' = current /\ wpc' \notin PromptingPcs
    BY <1>16 DEF TakeCompact
  <2> QED
    BY <2>1, <2>2, <2>3, <2>4, DeliveredStays DEF DeliveryInv
<1> QED
  BY <1>1, <1>2, <1>3, <1>4, <1>5, <1>6, <1>7, <1>8, <1>9, <1>10, <1>11, <1>12, <1>13,
     <1>14, <1>15, <1>16
     DEF WorkerStep, LoopStep, PiStep

\* The goroutine of every message in the table has enqueued it.
LEMMA CarriedQueued ==
    ASSUME MessagesInv, NEW r \in inbox, NEW m \in Carries(r)
    PROVE  m \in Messages /\ hpc[m] \in {"queued", "waking", "done"}
<1>1. Shape(r) /\ r.src \in Sources
  BY DEF MessagesInv, RowsInv, Stored, TypeInv, TypeOK, InboxTypeOK, Rows
<1>2. m \in Messages
  BY <1>1 DEF Shape, Messages, Sources
<1> QED
  BY <1>2 DEF MessagesInv, ConservationInv, Conservation, Pending, Live

QueuedPcs == {"waking", "waiting", "done"}

\* Nobody goes through Notify, and a !compact caller in the slot has done so before.
LEMMA NotifiedBefore ==
    ASSUME MessagesInv, NEW r \in inbox, Notified(r)',
           \A t \in Messages \cup {Ticker} : hpc[t] = "queued" => hpc'[t] = "queued",
           slot' # NoCaller /\ hpc'[slot'] \in QueuedPcs => slot = slot' /\ hpc[slot] \in QueuedPcs
    PROVE  Notified(r)
<1>1. \A m \in Carries(r) : m \in Messages /\ hpc[m] \in {"queued", "waking", "done"}
  BY CarriedQueued
<1>2. CASE r.src = "heartbeat"
  BY <1>2 DEF Notified
<1>3. CASE r.src = "compact"
  BY <1>3 DEF Notified, QueuedPcs
<1>4. CASE r.src \notin {"heartbeat", "compact"}
  BY <1>1, <1>4 DEF Notified
<1> QED
  BY <1>2, <1>3, <1>4

LEMMA HandlerStays ==
    ASSUME MessagesInv, DeliveryInv, UNCHANGED <<wpc, current>>, op' = op \/ Cancel,
           shutdown => shutdown',
           \A r \in inbox' : Notified(r)' => (r \in inbox /\ Notified(r)) \/ ~(Priority(r) < current)
    PROVE  DeliveryInv'
<1>1. op \in Ops
  BY DEF MessagesInv, TypeInv, TypeOK, WorkerTypeOK
<1>2. op'.row = op.row /\ op'.since = op.since /\ (op.cancelled => op'.cancelled)
  BY <1>1 DEF Cancel, Ops
<1>3. CtxDone => CtxDone'
  BY <1>2 DEF CtxDone
<1> QED
  BY <1>2, <1>3, DeliveredStays DEF DeliveryInv

\* A row that t has just inserted is not notified.
LEMMA InsertDelivery ==
    ASSUME ChannelInv, DeliveryInv, NEW src \in Sources, NEW body, Insert(src, body),
           UNCHANGED <<wpc, op, current, slot, shutdown>>,
           NEW t \in Threads, Step(t, hpc[t], "queued"),
           \/ t \in Messages /\ src \in {"user", "trigger"} /\ body = <<t>>
           \/ t = Ticker /\ src = "heartbeat"
           \/ t \in Compacts /\ src = "compact" /\ hpc[t] = "slotted"
    PROVE  DeliveryInv'
<1>a. hpc \in [Threads -> HandlerPcs] /\ Compacts \subseteq Threads /\ Messages \subseteq Threads
      /\ Ticker \in Threads
  BY DEF ChannelInv, MessagesInv, TypeInv, TypeOK, Threads, Commands, Messages
<1>b. slot # NoCaller => slot \in Compacts
  BY DEF ChannelInv, MessagesInv, TypeInv, TypeOK, WorkerTypeOK
<1>1. hpc'[t] = "queued" /\ \A u \in Threads \ {t} : hpc'[u] = hpc[u]
  BY <1>a DEF Step
<1>2. ASSUME NEW r \in inbox', Notified(r)', r \notin inbox
      PROVE  FALSE
  <2>1. r.src = src /\ r.body = body
    BY <1>2 DEF Insert
  <2>2. CASE t \in Messages /\ src \in {"user", "trigger"} /\ body = <<t>>
    <3>1. t \in Carries(r)
      BY <2>1, <2>2, CarriesOne
    <3> QED
      BY <1>1, <1>2, <2>1, <2>2, <3>1 DEF Notified
  <2>3. CASE t = Ticker /\ src = "heartbeat"
    BY <1>1, <1>2, <2>1, <2>3 DEF Notified
  <2>4. CASE t \in Compacts /\ src = "compact" /\ hpc[t] = "slotted"
    <3>1. slot = t
      BY <2>4 DEF ChannelInv, CompactInv
    <3> QED
      BY <1>1, <1>2, <2>1, <2>4, <3>1 DEF Notified
  <2> QED
    BY <2>2, <2>3, <2>4
<1>3. ASSUME NEW r \in inbox, Notified(r)'
      PROVE  Notified(r)
  <2>1. \A u \in Messages \cup {Ticker} : hpc[u] = "queued" => hpc'[u] = "queued"
    BY <1>a, <1>1
  <2>2. slot' # NoCaller /\ hpc'[slot'] \in QueuedPcs => slot = slot' /\ hpc[slot] \in QueuedPcs
    BY <1>a, <1>b, <1>1 DEF QueuedPcs
  <2> QED
    BY <1>3, <2>1, <2>2, NotifiedBefore DEF ChannelInv
<1> QED
  BY <1>2, <1>3, HandlerStays DEF ChannelInv

\* A step that notifies nobody and inserts nothing.
LEMMA QuietDelivery ==
    ASSUME ChannelInv, DeliveryInv, UNCHANGED <<inbox, wpc, current>>, op' = op \/ Cancel,
           shutdown => shutdown',
           \A t \in Messages \cup {Ticker} : hpc[t] = "queued" => hpc'[t] = "queued",
           slot' # NoCaller /\ hpc'[slot'] \in QueuedPcs => slot = slot' /\ hpc[slot] \in QueuedPcs
    PROVE  DeliveryInv'
BY HandlerStays, NotifiedBefore DEF ChannelInv

\* Whoever notifies with a higher priority than the running operation's cancels it.
LEMMA NotifyDelivery ==
    ASSUME ChannelInv, DeliveryInv, NEW t \in Notifiers, Notify(t)
    PROVE  DeliveryInv'
<1> USE DEF inboxVars
<1>a. /\ hpc \in [Threads -> HandlerPcs] /\ t \in Threads
      /\ Compacts \subseteq Threads /\ Messages \subseteq Threads /\ Ticker \in Threads
  BY DEF ChannelInv, MessagesInv, TypeInv, TypeOK, Threads, Commands, Messages, Notifiers
<1>b. slot # NoCaller => slot \in Compacts
  BY DEF ChannelInv, MessagesInv, TypeInv, TypeOK, WorkerTypeOK
<1>c. op \in Ops /\ current \in Int
  BY DEF ChannelInv, MessagesInv, TypeInv, TypeOK, WorkerTypeOK
<1>d. \A p \in Prompts : p \notin Triggers \cup Compacts \cup {Ticker}
  BY MessagesAssumption, ThreadsAssumption DEF Messages
<1>e. \A u \in Triggers : u \notin Prompts \cup Compacts \cup {Ticker}
  BY MessagesAssumption, ThreadsAssumption DEF Messages
<1>f. \A c \in Compacts : c \notin Messages \cup {Ticker}
  BY ThreadsAssumption
<1>1. /\ hpc[t] = "queued" /\ hpc'[t] = "waking" /\ \A u \in Threads \ {t} : hpc'[u] = hpc[u]
      /\ UNCHANGED <<inbox, wpc, current, slot, shutdown>> /\ (op' = op \/ Cancel)
  BY <1>a DEF Notify, Step, NotifyLock
<1>2. CASE Preempts(NotifyPriority(t))
  <2>1. Cancel
    BY <1>2 DEF Notify, NotifyLock
  <2>2. op'.cancelled = TRUE /\ op'.row = op.row
    BY <2>1, <1>c DEF Cancel, Ops
  <2> QED
    BY <1>1, <2>2 DEF DeliveryInv, PreemptionDelivered, CtxDone
<1>3. CASE ~Preempts(NotifyPriority(t))
  <2>1. ASSUME NEW r \in inbox, Notified(r)', ~Notified(r)
        PROVE  Priority(r) = NotifyPriority(t)
    <3>1. r.src \in Sources /\ Shape(r)
      BY DEF ChannelInv, MessagesInv, RowsInv, Stored, TypeInv, TypeOK, InboxTypeOK, Rows
    <3>2. \A m \in Carries(r) : m \in Messages /\ hpc[m] \in {"queued", "waking", "done"}
      BY CarriedQueued DEF ChannelInv
    <3>3. CASE r.src = "heartbeat"
      <4>1. t = Ticker
        BY <1>a, <1>1, <2>1, <3>3 DEF Notified
      <4> QED
        BY <1>e, <3>3, <4>1 DEF NotifyPriority, Priority, PriorityOf
    <3>4. CASE r.src = "compact"
      <4>1. t = slot /\ slot \in Compacts
        BY <1>a, <1>b, <1>1, <2>1, <3>4 DEF Notified
      <4> QED
        BY <1>f, <3>4, <4>1 DEF NotifyPriority, Priority, PriorityOf, Messages
    <3>5. CASE r.src \in {"user", "trigger"}
      <4>1. t \in Carries(r)
        BY <1>a, <1>1, <2>1, <3>2, <3>5 DEF Notified
      <4>2. r.src = "user" => t \in Prompts
        BY <3>1, <4>1 DEF Shape
      <4>3. r.src = "trigger" => t \in Triggers
        BY <3>1, <4>1 DEF Shape
      <4> QED
        BY <1>d, <1>e, <3>5, <4>2, <4>3 DEF NotifyPriority, Priority, PriorityOf
    <3> QED
      BY <3>1, <3>3, <3>4, <3>5 DEF Sources
  <2>2. current # -1 => ~(NotifyPriority(t) < current)
    BY <1>3 DEF Preempts
  <2>3. CASE current = -1
    BY <1>1, <2>3, <1>c DEF DeliveryInv, PreemptionDelivered, Cancel, Ops
  <2>4. CASE current # -1
    BY <1>1, <2>1, <2>2, <2>4, HandlerStays DEF ChannelInv
  <2> QED
    BY <2>3, <2>4
<1> QED
  BY <1>2, <1>3

LEMMA HandlerDelivery ==
    ASSUME ChannelInv, DeliveryInv, NEW t \in Threads, Continue(t)
    PROVE  DeliveryInv'
<1> USE DEF workerVars, handlerVars, inboxVars, Step
<1>a. /\ hpc \in [Threads -> HandlerPcs] /\ Ticker \in Threads
      /\ Compacts \subseteq Threads /\ Messages \subseteq Threads
  BY DEF ChannelInv, MessagesInv, TypeInv, TypeOK, Threads, Commands, Messages
<1>b. slot # NoCaller => slot \in Compacts
  BY DEF ChannelInv, MessagesInv, TypeInv, TypeOK, WorkerTypeOK
<1>c. \A c \in Compacts : c \notin Messages \cup {Ticker} \cup Stops \cup Restarts \cup {Reaper}
  BY ThreadsAssumption
<1>1. ASSUME t \in Notifiers, Notify(t)
      PROVE  DeliveryInv'
  BY <1>1, NotifyDelivery
<1>2. ASSUME t \in Notifiers, Wake(t)
      PROVE  DeliveryInv'
  <2>1. hpc[t] = "waking" /\ UNCHANGED <<slot, op, inbox, wpc, current, shutdown>>
        /\ hpc' = [hpc EXCEPT ![t] = AfterNotify(t)]
    BY <1>2 DEF Wake, NotifyWake
  <2>2. \A u \in Messages \cup {Ticker} : hpc[u] = "queued" => hpc'[u] = "queued"
    BY <1>a, <2>1
  <2>3. slot' # NoCaller /\ hpc'[slot'] \in QueuedPcs => slot = slot' /\ hpc[slot] \in QueuedPcs
    BY <1>a, <1>b, <2>1 DEF QueuedPcs
  <2> QED
    BY <2>1, <2>2, <2>3, QuietDelivery
<1>3. ASSUME t \in Prompts, EnqueuePrompt(t)
      PROVE  DeliveryInv'
  BY <1>3, InsertDelivery DEF EnqueuePrompt, Messages, Sources
<1>4. ASSUME t \notin Compacts,
             \/ RefusePrompt(t) \/ ReadCancel(t) \/ CallCancel(t)
             \/ RestartStop(t) \/ RestartDone(t) \/ (t = Reaper /\ (ReaperStop \/ ReaperDone))
      PROVE  DeliveryInv'
  <2>1. /\ hpc[t] # "queued" /\ UNCHANGED <<slot, inbox, wpc, current, shutdown>>
        /\ (op' = op \/ Cancel)
        /\ \E pc \in HandlerPcs : hpc' = [hpc EXCEPT ![t] = pc]
    BY <1>4 DEF RefusePrompt, ReadCancel, CallCancel, RestartStop, RestartDone, ReaperStop,
       ReaperDone, HandlerPcs
  <2>2. \A u \in Messages \cup {Ticker} : hpc[u] = "queued" => hpc'[u] = "queued"
    BY <1>a, <2>1
  <2>3. slot' # NoCaller /\ hpc'[slot'] \in QueuedPcs => slot = slot' /\ hpc[slot] \in QueuedPcs
    BY <1>4, <1>a, <1>b, <2>1
  <2> QED
    BY <2>1, <2>2, <2>3, QuietDelivery
<1>5. ASSUME t \in Compacts, ClaimSlot(t) \/ RefuseCompact(t) \/ CompactReturns(t)
      PROVE  DeliveryInv'
  <2>1. UNCHANGED <<inbox, wpc, current, shutdown, op>>
    BY <1>5 DEF ClaimSlot, RefuseCompact, CompactReturns
  <2>2. \A u \in Threads \ {t} : hpc'[u] = hpc[u]
    BY <1>5, <1>a DEF ClaimSlot, RefuseCompact, CompactReturns
  <2>3. \A u \in Messages \cup {Ticker} : hpc[u] = "queued" => hpc'[u] = "queued"
    BY <1>a, <1>c, <1>5, <2>2
  <2>4. slot' # NoCaller /\ hpc'[slot'] \in QueuedPcs => slot = slot' /\ hpc[slot] \in QueuedPcs
    <3>1. CASE ClaimSlot(t)
      <4>1. slot # NoCaller => slot # t
        BY <3>1 DEF ClaimSlot, ChannelInv, CompactInv
      <4>2. slot = NoCaller => hpc'[slot'] = "slotted"
        BY <1>a, <1>5, <3>1 DEF ClaimSlot
      <4>3. slot # NoCaller => slot' = slot
        BY <3>1 DEF ClaimSlot
      <4> QED
        BY <1>a, <1>b, <2>2, <4>1, <4>2, <4>3 DEF QueuedPcs
    <3>2. CASE RefuseCompact(t)
      BY <3>2 DEF RefuseCompact
    <3>3. CASE CompactReturns(t)
      BY <1>a, <1>b, <2>2, <3>3 DEF CompactReturns, QueuedPcs
    <3> QED
      BY <1>5, <3>1, <3>2, <3>3
  <2> QED
    BY <2>1, <2>3, <2>4, QuietDelivery
<1>6. ASSUME t \in Compacts, EnqueueCompact(t)
      PROVE  DeliveryInv'
  BY <1>6, InsertDelivery DEF EnqueueCompact, Sources
<1>7. t \in Prompts \cup Stops \cup Restarts \cup {Reaper} => t \notin Compacts
  BY <1>c DEF Messages
<1> QED
  BY <1>1, <1>2, <1>3, <1>4, <1>5, <1>6, <1>7 DEF Continue

LEMMA ArriveDelivery ==
    ASSUME ChannelInv, DeliveryInv, Arrive \/ Rest \/ UNCHANGED vars
    PROVE  DeliveryInv'
<1> USE DEF workerVars, handlerVars, inboxVars, Step
<1>a. /\ hpc \in [Threads -> HandlerPcs] /\ Ticker \in Threads
      /\ Compacts \subseteq Threads /\ Messages \subseteq Threads
  BY DEF ChannelInv, MessagesInv, TypeInv, TypeOK, Threads, Commands, Messages
<1>b. slot # NoCaller => slot \in Compacts /\ hpc[slot] # "new"
  BY DEF ChannelInv, CompactInv, MessagesInv, TypeInv, TypeOK, WorkerTypeOK
<1>1. ASSUME UNCHANGED <<inbox, slot, wpc, current, op>>, shutdown => shutdown',
             \/ hpc' = hpc
             \/ \E u \in Threads, pc \in HandlerPcs : hpc[u] = "new" /\ hpc' = [hpc EXCEPT ![u] = pc]
      PROVE  DeliveryInv'
  <2>1. \A u \in Messages \cup {Ticker} : hpc[u] = "queued" => hpc'[u] = "queued"
    BY <1>a, <1>1
  <2>2. slot' # NoCaller /\ hpc'[slot'] \in QueuedPcs => slot = slot' /\ hpc[slot] \in QueuedPcs
    BY <1>a, <1>b, <1>1
  <2> QED
    BY <1>1, <2>1, <2>2, QuietDelivery
<1>2. ASSUME NEW t \in Triggers, EnqueueTrigger(t)
      PROVE  DeliveryInv'
  BY <1>2, InsertDelivery DEF EnqueueTrigger, Messages, Sources, Threads
<1>3. CASE Tick
  BY <1>3, InsertDelivery DEF Tick, Sources, Threads
<1>4. ASSUME NEW p \in Prompts, SetRoomID(p)
      PROVE  DeliveryInv'
  BY <1>1, <1>4 DEF SetRoomID, Begin, HandlerPcs, Threads, Commands
<1>5. ASSUME NEW t \in Triggers, RefuseTrigger(t)
      PROVE  DeliveryInv'
  BY <1>1, <1>5 DEF RefuseTrigger, HandlerPcs, Threads
<1>6. ASSUME NEW s \in Stops, CheckActive(s)
      PROVE  DeliveryInv'
  BY <1>1, <1>6 DEF CheckActive, Begin, HandlerPcs, Threads, Commands
<1>7. ASSUME NEW h \in Restarts, RestartFlag(h)
      PROVE  DeliveryInv'
  BY <1>1, <1>7 DEF RestartFlag, Begin, HandlerPcs, Threads, Commands
<1>8. ASSUME NEW c \in Compacts, CompactActive(c)
      PROVE  DeliveryInv'
  BY <1>1, <1>8 DEF CompactActive, Begin, HandlerPcs, Threads, Commands
<1>9. CASE ReaperCheck
  BY <1>1, <1>9 DEF ReaperCheck, HandlerPcs, Threads
<1>10. CASE TimePasses \/ PiExits \/ Shutdown \/ Rest \/ UNCHANGED vars
  BY <1>1, <1>10 DEF TimePasses, PiExits, Shutdown, Rest, vars
<1> QED
  BY <1>2, <1>3, <1>4, <1>5, <1>6, <1>7, <1>8, <1>9, <1>10 DEF Arrive

\* Notify and the registration of an operation never miss each other, under
\* any faults: a notified row with a higher priority than the running
\* operation, enqueued since that one registered, finds it cancelled.
THEOREM PreemptionsDelivered == Spec => []PreemptionDelivered
<1>1. Init => DeliveryInv
  BY DEF Init, WorkerInit, DeliveryInv, PreemptionDelivered, PromptingPcs, HoldingPcs
<1>2. ChannelInv /\ RegisteredInv /\ DeliveryInv /\ [Next]_vars => DeliveryInv'
  BY WorkDelivery, HandlerDelivery, ArriveDelivery DEF Next, ChannelInv, RegisteredInv
<1>3. DeliveryInv => PreemptionDelivered
  BY DEF DeliveryInv
<1> QED
  BY <1>1, <1>2, <1>3, InitChannel, NextChannel, RegistrationCorrect, PTL DEF Spec
-----------------------------------------------------------------------------
(* Crashes and restarts: the bot implements Mailbox (Lifecycle.Keeps).     *)
(* Where a message is follows from three sets, what the rows of the table  *)
(* carry, what the worker has taken out, and the reminders, in their table *)
(* or due: KeepsInv makes them disjoint and what is in one of them         *)
(* unsettled.                                                              *)

Carried(rows) == UNION {Carries(r) : r \in rows}

Table == Carried(inbox)

Hands == Carried(extra \cup (IF wpc \in HoldingPcs THEN {op.row} ELSE {}))

\* The dispatcher takes a reminder out before anybody else has heard of it.
DueInv ==
    /\ reminders \cup due \subseteq Reminders
    /\ reminders \cap due = {}
    /\ \A t \in reminders : hpc[t] = "new"
    /\ \A t \in due : hpc[t] \in {"new", "prepared"}

KeepsInv == MessagesInv /\ DueInv

LEMMA TableAndHands ==
    ASSUME RowsInv, NEW m
    PROVE  /\ m \in Table <=> \E r \in inbox : m \in Carries(r)
           /\ m \in Hands <=> \E r \in Live \ inbox : m \in Carries(r)
<1>1. Live \ inbox = extra \cup (IF wpc \in HoldingPcs THEN {op.row} ELSE {})
  BY DEF RowsInv, Live, Stored
<1> QED
  BY <1>1 DEF Table, Hands, Carried

\* What is in the table or in the hands of the worker is there once, and a
\* message of the bot which has been enqueued and not settled.
LEMMA Disjoint ==
    ASSUME MessagesInv
    PROVE  /\ Table \cap Hands = {}
           /\ Table \cup Hands \subseteq Messages
           /\ \A m \in Table \cup Hands : fate[m] = "none" /\ hpc[m] \in PendingPcs
           /\ \A m \in Messages : Pending(m) => m \in Table \cup Hands
<1>a. RowsInv /\ Conservation /\ TypeOK
  BY DEF MessagesInv, ConservationInv, TypeInv
<1>1. Table \cap Hands = {}
  <2> SUFFICES ASSUME NEW m \in Table, m \in Hands
               PROVE  FALSE
    OBVIOUS
  <2>1. PICK r \in inbox : m \in Carries(r)
    BY <1>a, TableAndHands
  <2>2. PICK s \in Live \ inbox : m \in Carries(s)
    BY <1>a, TableAndHands
  <2>3. r \in Live /\ r # s
    BY <2>1, <2>2 DEF Live
  <2> QED
    BY <1>a, <2>1, <2>2, <2>3 DEF Conservation
<1>2. \A m \in Table \cup Hands : \E r \in Live : m \in Carries(r)
  BY <1>a, TableAndHands DEF Live
<1>3. ASSUME NEW m \in Table \cup Hands
      PROVE  m \in Messages
  <2>1. PICK r \in Live : m \in Carries(r)
    BY <1>2
  <2>2. r.body \in Seq(Messages)
    BY <1>a, <2>1 DEF Live, TypeOK, InboxTypeOK, WorkerTypeOK, Rows, Ops
  <2>3. PICK i \in DOMAIN r.body : r.body[i] = m
    BY <2>1 DEF Carries
  <2> HIDE DEF Messages
  <2> QED
    BY <2>2, <2>3, ElementOfSeq, LenProperties
<1>4. \A m \in Table \cup Hands : fate[m] = "none" /\ hpc[m] \in PendingPcs
  BY <1>a, <1>2, <1>3, CarriedPending
<1>5. \A m \in Messages : Pending(m) => m \in Table \cup Hands
  <2> SUFFICES ASSUME NEW m \in Messages, Pending(m)
               PROVE  m \in Table \cup Hands
    OBVIOUS
  <2>1. PICK r \in Live : m \in Carries(r)
    BY <1>a DEF Conservation
  <2> QED
    BY <1>a, <2>1, TableAndHands
<1> QED
  BY <1>1, <1>3, <1>4, <1>5

\* Where a message is.
Sorted ==
    \A m \in Messages :
        /\ InTable(m) <=> m \in reminders \cup Table
        /\ Held(m) <=> m \in due \cup Hands
        /\ InTable(m) => fate[m] = "none" /\ ~Held(m) /\ Place(m) = "kept"
        /\ Held(m) => fate[m] = "none" /\ Place(m) = "taken"
        /\ fate[m] = "none" /\ ~InTable(m) /\ ~Held(m) => Place(m) = "outside"
        /\ fate[m] = "dropped" => Place(m) = "lost"
        /\ fate[m] \notin {"none", "dropped"} => Place(m) = "settled"
        /\ Place(m) \in M!Places

LEMMA PlacesSorted == KeepsInv => Sorted
<1> SUFFICES ASSUME KeepsInv, NEW m \in Messages
             PROVE  Sorted!(m)
  BY DEF Sorted
<1>1. /\ InTable(m) <=> m \in reminders \cup Table
      /\ Held(m) <=> m \in due \cup Hands
  BY TableAndHands DEF KeepsInv, MessagesInv, InTable, Held
<1>2. /\ m \in Table \cup Hands => fate[m] = "none" /\ hpc[m] \in PendingPcs
      /\ m \notin Table \cap Hands
  BY Disjoint DEF KeepsInv
<1>3. m \in reminders \cup due => fate[m] = "none" /\ hpc[m] \in {"new", "prepared"}
                                   /\ m \notin reminders \cap due
  BY DEF KeepsInv, DueInv, MessagesInv, ConservationInv, NotYet
<1>4. \/ InTable(m) /\ ~Held(m) /\ fate[m] = "none"
      \/ ~InTable(m) /\ Held(m) /\ fate[m] = "none"
      \/ ~InTable(m) /\ ~Held(m)
  BY <1>1, <1>2, <1>3 DEF PendingPcs
<1> QED
  BY <1>1, <1>4 DEF Place, M!Places

LEMMA SortedNext == KeepsInv' => Sorted'
BY PlacesSorted, PTL
-----------------------------------------------------------------------------
(* A step of the bot is a step of the mailbox when it moves messages one   *)
(* way.                                                                    *)

LEMMA OneWay ==
    ASSUME KeepsInv, KeepsInv', NEW from, NEW to, <<from, to>> \in M!Ways,
           \A m \in Messages : Place(m)' = Place(m) \/ (Place(m) = from /\ Place(m)' = to)
    PROVE  M!Next
<1>1. \A m \in Messages : Place(m)' \in M!Places
  BY SortedNext DEF Sorted
<1>2. M!Moves \subseteq {<<from, to>>}
  BY DEF M!Moves
<1> QED
  BY <1>1, <1>2 DEF M!Next
-----------------------------------------------------------------------------
(* The worker.  Whatever it does, it takes messages out of the table, puts *)
(* all that it holds back, or settles all that it holds.                   *)

TakesOut ==
    /\ Table' \subseteq Table
    /\ Hands' = Hands \cup (Table \ Table')
    /\ UNCHANGED fate

PutsBack ==
    /\ Hands' = {} /\ Table' = Table \cup Hands
    /\ UNCHANGED fate

SettlesAll(outcome) ==
    /\ Hands' = {} /\ Table' = Table
    /\ \A m \in Messages : fate'[m] = IF m \in Hands THEN outcome ELSE fate[m]

Shifts == TakesOut \/ PutsBack \/ \E outcome \in Fates \ {"none"} : SettlesAll(outcome)

LEMMA ShiftsNone ==
    ASSUME UNCHANGED <<inbox, extra, fate>>, wpc' \in HoldingPcs <=> wpc \in HoldingPcs,
           wpc \in HoldingPcs => op'.row = op.row
    PROVE  Shifts
<1>1. Table' = Table /\ Hands' = Hands
  BY DEF Table, Hands, Carried
<1> QED
  BY <1>1 DEF Shifts, TakesOut

LEMMA HandsOnly ==
    ASSUME extra = {}, wpc \in HoldingPcs
    PROVE  Hands = Carries(op.row)
BY DEF Hands, Carried

LEMMA ShiftsMarker ==
    ASSUME RowsInv, wpc \in HoldingPcs, wpc' \notin HoldingPcs, extra = {},
           UNCHANGED <<inbox, extra, fate>>, op.row.src \in {"heartbeat", "compact"}
    PROVE  Shifts
<1>1. Hands = {}
  BY HandsOnly DEF RowsInv, Shape
<1>2. Table' = Table /\ Hands' = {}
  BY DEF Table, Hands, Carried
<1> QED
  BY <1>1, <1>2 DEF Shifts, TakesOut

LEMMA ShiftsSettled ==
    ASSUME wpc \in HoldingPcs, wpc' \notin HoldingPcs, extra = {},
           UNCHANGED <<inbox, extra>>, NEW outcome \in Fates \ {"none"}, Settle(outcome)
    PROVE  Shifts
<1>1. Hands = Carries(op.row)
  BY HandsOnly
<1>2. Table' = Table /\ Hands' = {}
  BY DEF Table, Hands, Carried
<1>3. SettlesAll(outcome)
  BY <1>1, <1>2 DEF SettlesAll, Settle
<1> QED
  BY <1>3 DEF Shifts

LEMMA ShiftsBack ==
    ASSUME wpc \in HoldingPcs, wpc' \notin HoldingPcs, extra = {}, UNCHANGED extra, RequeueRow
    PROVE  Shifts
<1>1. CASE Insert(op.row.src, op.row.body) /\ UNCHANGED fate
  <2> DEFINE copy == NewRow(op.row.src, op.row.body)
  <2>1. Carries(copy) = Carries(op.row)
    BY SameBody DEF NewRow
  <2>2. inbox' = inbox \cup {copy}
    BY <1>1 DEF Insert, NewRow
  <2> HIDE DEF copy
  <2>3. Table' = Table \cup Carries(op.row)
    BY <2>1, <2>2 DEF Table, Carried
  <2>4. Hands' = {} /\ Hands = Carries(op.row)
    BY HandsOnly DEF Hands, Carried
  <2> QED
    BY <1>1, <2>3, <2>4 DEF Shifts, PutsBack
<1>2. CASE Settle("dropped") /\ UNCHANGED inboxVars
  BY <1>2, ShiftsSettled DEF inboxVars, Fates
<1> QED
  BY <1>1, <1>2 DEF RequeueRow

LEMMA WorkShifts ==
    ASSUME MessagesInv, Work
    PROVE  Shifts
<1> USE DEF Moves, Work, HoldingPcs, inboxVars
<1>a. op \in Ops /\ extra \subseteq Rows
  BY DEF MessagesInv, TypeInv, TypeOK, WorkerTypeOK
<1>b. RowsInv /\ (wpc # "fold" => extra = {})
  BY DEF MessagesInv, RowsInv
<1>1. CASE DrainEnds \/ DequeueFails \/ Woken \/ Exit \/ Exited
  BY <1>1, ShiftsNone DEF DrainEnds, DequeueFails, Woken, Exit, Exited
<1>2. ASSUME NEW r \in inbox, Dequeue(r)
      PROVE  Shifts
  <2>1. op'.row = r /\ inbox' = inbox \ {r} /\ UNCHANGED <<extra, fate, hpc>>
        /\ wpc = "drain" /\ wpc' \in HoldingPcs
    BY <1>2 DEF Dequeue, Remove, NoOp
  <2>2. Hands = {} /\ Hands' = Carries(r)
    BY <1>b, <2>1 DEF Hands, Carried
  <2>3. Table' \subseteq Table /\ Table = Table' \cup Carries(r)
    BY <2>1 DEF Table, Carried
  <2>4. Carries(r) \cap Table' = {}
    <3> SUFFICES ASSUME NEW m \in Carries(r), m \in Table'
                 PROVE  FALSE
      OBVIOUS
    <3>1. PICK s \in inbox \ {r} : m \in Carries(s)
      BY <2>1 DEF Table, Carried
    <3> QED
      BY <3>1 DEF MessagesInv, ConservationInv, Conservation, Live
  <2> QED
    BY <2>1, <2>2, <2>3, <2>4 DEF Shifts, TakesOut
<1>3. CASE MergeUserItems
  <2>1. inbox' = inbox \ UserRows /\ extra' = UserRows /\ UNCHANGED <<fate, op>>
        /\ wpc = "merge" /\ wpc' \in HoldingPcs /\ extra = {} /\ UserRows \subseteq inbox
    BY <1>3, <1>b DEF MergeUserItems, RemoveUserRows, UserRows
  <2>2. Hands' = Hands \cup Carried(UserRows)
    BY <2>1 DEF Hands, Carried
  <2>3. Table' \subseteq Table /\ Table = Table' \cup Carried(UserRows)
    BY <2>1 DEF Table, Carried
  <2>4. Carried(UserRows) \cap Table' = {}
    <3> SUFFICES ASSUME NEW m \in Carried(UserRows), m \in Table'
                 PROVE  FALSE
      OBVIOUS
    <3>1. PICK r \in UserRows : m \in Carries(r)
      BY DEF Carried
    <3>2. PICK s \in inbox \ UserRows : m \in Carries(s)
      BY <2>1 DEF Table, Carried
    <3> QED
      BY <2>1, <3>1, <3>2 DEF MessagesInv, ConservationInv, Conservation, Live
  <2> QED
    BY <2>1, <2>2, <2>3, <2>4 DEF Shifts, TakesOut
<1>4. CASE MergeFails \/ Folded
  BY <1>4, ShiftsNone DEF MergeFails, Folded
<1>5. ASSUME NEW r \in extra, Fold(r)
      PROVE  Shifts
  <2>1. op.row \in Rows /\ r \in Rows
    BY <1>a, <1>5 DEF Ops
  <2>2. op'.row.body = op.row.body \o r.body
    BY <1>5, <1>a, <2>1 DEF Fold, Ops, Rows
  <2>3. /\ extra' = extra \ {r} /\ UNCHANGED <<wpc, inbox, hpc, fate>> /\ wpc = "fold"
    BY <1>5 DEF Fold
  <2>4. Carries(op'.row) = Carries(op.row) \cup Carries(r)
    BY <2>1, <2>2, CarriesJoined
  <2>5. Hands' = Hands /\ Table' = Table
    BY <2>3, <2>4, <1>5 DEF Hands, Table, Carried
  <2> QED
    BY <2>3, <2>5 DEF Shifts, TakesOut
<1>6. CASE Register
  <2>1. CASE op.row.src = "compact"
    BY <1>6, <1>b, <2>1, ShiftsMarker DEF Register
  <2>2. CASE op.row.src # "compact"
    BY <1>6, <1>a, <2>2, ShiftsNone DEF Register, Ops
  <2> QED
    BY <2>1, <2>2
<1>7. CASE Release
  BY <1>7, ShiftsNone DEF Release
<1>8. CASE SkipHeartbeat
  BY <1>8, <1>b, ShiftsMarker DEF SkipHeartbeat
<1>9. CASE NoRoom
  <2>1. CASE op.row.src = "trigger"
    BY <1>9, <1>b, <2>1, ShiftsBack DEF NoRoom
  <2>2. CASE op.row.src # "trigger"
    BY <1>9, <1>b, <2>2, ShiftsSettled DEF NoRoom, Fates
  <2> QED
    BY <2>1, <2>2
<1>10. CASE BeginPrompt \/ SpawnFails \/ Store
  BY <1>10, ShiftsNone DEF BeginPrompt, SpawnFails, Store
<1>11. CASE EnsurePi \/ Spawn
  BY <1>11, <1>a, ShiftsNone DEF EnsurePi, Spawn, Ops
<1>12. CASE Send \/ SendFails \/ AwaitFails \/ Reject \/ Retry \/ Retried
  BY <1>12, <1>a, ShiftsNone
     DEF Send, SendFails, AwaitFails, Reject, Retry, Retried, AfterSendError, Ops
<1>13. CASE SendAbort
  BY <1>13, <1>a, ShiftsNone DEF SendAbort, Ops
<1>14. ASSUME NEW reply \in Replies \ {"none"}, Answer(reply)
       PROVE  Shifts
  BY <1>14, <1>a, ShiftsNone DEF Answer, Ops
<1>15. CASE RepromptEnds \/ CompactEnds
  BY <1>15, <1>a, ShiftsNone DEF RepromptEnds, CompactEnds, Ops
<1>16. CASE RequeuePreempted
  <2>1. CASE op.row.src # "heartbeat"
    BY <1>16, <1>b, <2>1, ShiftsBack DEF RequeuePreempted
  <2>2. CASE op.row.src = "heartbeat"
    BY <1>16, <1>b, <2>2, ShiftsMarker DEF RequeuePreempted
  <2> QED
    BY <2>1, <2>2
<1>17. CASE FailWithoutPi \/ FailKilled
  BY <1>17, <1>b, ShiftsSettled DEF FailWithoutPi, FailKilled, Failure, Fates
<1>18. CASE FailAndKill
  BY <1>18, ShiftsNone DEF FailAndKill
<1>19. CASE Deliver
  BY <1>19, <1>b, ShiftsSettled DEF Deliver, Fates
<1>20. CASE TakeCompact
  BY <1>20, <1>a, ShiftsNone DEF TakeCompact, Ops
<1> QED
  BY <1>1, <1>2, <1>3, <1>4, <1>5, <1>6, <1>7, <1>8, <1>9, <1>10, <1>11, <1>12, <1>13,
     <1>14, <1>15, <1>16, <1>17, <1>18, <1>19, <1>20
     DEF WorkerStep, LoopStep, PiStep

LEMMA WorkKeeps ==
    ASSUME KeepsInv, KeepsInv', Shifts, UNCHANGED <<reminders, due>>
    PROVE  M!Next
<1>a. Sorted /\ Sorted'
  BY PlacesSorted, SortedNext
<1>b. Table \cap Hands = {} /\ reminders \cap Table = {} /\ due \cap Hands = {}
      /\ Table \cup Hands \cup reminders \cup due \subseteq Messages
  <2>1. Table \cap Hands = {} /\ Table \cup Hands \subseteq Messages
        /\ \A m \in Table \cup Hands : hpc[m] \in PendingPcs
    BY Disjoint DEF KeepsInv
  <2>2. /\ reminders \cup due \subseteq Messages
        /\ \A m \in reminders \cup due : hpc[m] \in {"new", "prepared"}
    BY RemindersAssumption DEF KeepsInv, DueInv, Messages
  <2> QED
    BY <2>1, <2>2 DEF PendingPcs
<1>1. CASE TakesOut
  <2>1. \A m \in Messages : Place(m)' = Place(m) \/ (Place(m) = "kept" /\ Place(m)' = "taken")
    BY <1>a, <1>b, <1>1 DEF Sorted, TakesOut
  <2> QED
    BY <2>1, OneWay DEF M!Ways
<1>2. CASE PutsBack
  <2>1. \A m \in Messages : Place(m)' = Place(m) \/ (Place(m) = "taken" /\ Place(m)' = "kept")
    BY <1>a, <1>b, <1>2 DEF Sorted, PutsBack
  <2> QED
    BY <2>1, OneWay DEF M!Ways
<1>3. ASSUME NEW outcome \in Fates \ {"none"}, SettlesAll(outcome)
      PROVE  M!Next
  <2> DEFINE to == IF outcome = "dropped" THEN "lost" ELSE "settled"
  <2>1. \A m \in Messages : Place(m)' = Place(m) \/ (Place(m) = "taken" /\ Place(m)' = to)
    <3> SUFFICES ASSUME NEW m \in Messages
                 PROVE  Place(m)' = Place(m) \/ (Place(m) = "taken" /\ Place(m)' = to)
      OBVIOUS
    <3>1. CASE m \in Hands
      BY <1>a, <1>3, <3>1 DEF Sorted, SettlesAll
    <3>2. CASE m \notin Hands
      BY <1>a, <1>3, <3>2 DEF Sorted, SettlesAll
    <3> QED
      BY <3>1, <3>2
  <2>2. <<"taken", to>> \in M!Ways
    BY DEF M!Ways
  <2> QED
    BY <2>1, <2>2, OneWay
<1> QED
  BY <1>1, <1>2, <1>3 DEF Shifts
-----------------------------------------------------------------------------
(* The other goroutines.                                                   *)

\* A message that Enqueue may be called for next.
Fresh(m) ==
    \/ m \in Prompts /\ hpc[m] = "prepared"
    \/ m \in Triggers /\ hpc[m] = "new"

Accepted(m) ==
    /\ Fresh(m) /\ hpc'[m] = "queued"
    /\ Table' = Table \cup {m}
    /\ UNCHANGED fate

Refused(m) ==
    /\ Fresh(m) /\ hpc'[m] = "done"
    /\ Table' = Table
    /\ fate' = [fate EXCEPT ![m] = "refused"]

Leaves ==
    /\ Hands' = Hands
    /\ \/ Table' = Table /\ UNCHANGED fate
       \/ \E m \in Messages : Accepted(m) \/ Refused(m)

\* A trigger that is neither new nor enqueued is in the dispatcher's hands.
Waits == \A t \in Triggers : hpc[t] = "prepared" => hpc'[t] = "prepared"

LEMMA HandsStay ==
    ASSUME UNCHANGED <<extra, wpc>>, op'.row = op.row
    PROVE  Hands' = Hands
BY DEF Hands, Carried

LEMMA TableGains ==
    ASSUME NEW src, NEW body, Insert(src, body)
    PROVE  Table' = Table \cup Carries(NewRow(src, body))
<1> DEFINE row == NewRow(src, body)
<1>1. inbox' = inbox \cup {row}
  BY DEF Insert, NewRow
<1> HIDE DEF row
<1>2. Table' = Table \cup Carries(row)
  BY <1>1 DEF Table, Carried
<1> QED
  BY <1>2 DEF row

LEMMA InsertLeaves ==
    ASSUME MessagesInv, UNCHANGED <<extra, wpc, op, fate>>, NEW src, NEW body, Insert(src, body),
           NEW t \in Threads, Step(t, hpc[t], "queued"),
           \/ t \in Messages /\ Fresh(t) /\ body = <<t>>
           \/ t \notin Triggers /\ body = <<>>
    PROVE  Leaves /\ Waits
<1>a. hpc \in [Threads -> HandlerPcs] /\ Triggers \subseteq Threads
  BY DEF MessagesInv, TypeInv, TypeOK, Threads
<1>b. NewRow(src, body).body = body
  BY DEF NewRow
<1>1. Hands' = Hands
  BY HandsStay
<1>2. hpc' = [hpc EXCEPT ![t] = "queued"] /\ hpc'[t] = "queued"
  BY <1>a DEF Step
<1>3. CASE t \in Messages /\ Fresh(t) /\ body = <<t>>
  <2>1. Table' = Table \cup {t}
    BY <1>3, <1>b, TableGains, CarriesOne
  <2>2. Accepted(t)
    BY <1>2, <1>3, <2>1 DEF Accepted
  <2>3. t \in Triggers => hpc[t] # "prepared"
    BY <1>3, MessagesAssumption DEF Fresh
  <2> QED
    BY <1>1, <1>2, <1>3, <1>a, <2>2, <2>3 DEF Leaves, Waits
<1>4. CASE t \notin Triggers /\ body = <<>>
  <2>1. Table' = Table
    BY <1>4, <1>b, TableGains, CarriesNothing
  <2> QED
    BY <1>1, <1>2, <1>4, <1>a, <2>1 DEF Leaves, Waits
<1> QED
  BY <1>3, <1>4

LEMMA RefusalLeaves ==
    ASSUME MessagesInv, UNCHANGED <<inboxVars, extra, wpc, op>>, NEW m \in Messages,
           Fresh(m), Step(m, hpc[m], "done"), fate' = [fate EXCEPT ![m] = "refused"]
    PROVE  Leaves /\ Waits
<1>a. hpc \in [Threads -> HandlerPcs] /\ Messages \subseteq Threads
  BY DEF MessagesInv, TypeInv, TypeOK, Threads, Commands, Messages
<1>1. Hands' = Hands /\ Table' = Table
  BY HandsStay DEF Table, inboxVars
<1>2. hpc' = [hpc EXCEPT ![m] = "done"] /\ hpc'[m] = "done"
  BY <1>a DEF Step
<1>3. m \in Triggers => hpc[m] # "prepared"
  BY MessagesAssumption DEF Fresh
<1>4. Refused(m)
  BY <1>1, <1>2 DEF Refused
<1>5. Waits
  BY <1>a, <1>2, <1>3 DEF Waits, Messages
<1> QED
  BY <1>1, <1>4, <1>5 DEF Leaves

LEMMA QuietLeaves ==
    ASSUME MessagesInv, UNCHANGED <<inbox, extra, wpc, fate>>, op'.row = op.row,
           NEW t \in Threads, NEW to, hpc' = [hpc EXCEPT ![t] = to],
           t \in Triggers => hpc[t] # "prepared"
    PROVE  Leaves /\ Waits
<1>a. hpc \in [Threads -> HandlerPcs] /\ Triggers \subseteq Threads
  BY DEF MessagesInv, TypeInv, TypeOK, Threads
<1>1. Hands' = Hands /\ Table' = Table
  BY HandsStay DEF Table
<1> QED
  BY <1>a, <1>1 DEF Leaves, Waits

LEMMA ContinueLeaves ==
    ASSUME MessagesInv, NEW t \in Threads, Continue(t)
    PROVE  Leaves /\ Waits
<1> USE DEF workerVars, inboxVars, Step
<1>a. op \in Ops
  BY DEF MessagesInv, TypeInv, TypeOK, WorkerTypeOK
<1>b. t \in Prompts \cup Stops \cup Restarts \cup Compacts \cup {Reaper, Ticker} => t \notin Triggers
  BY ThreadsAssumption, MessagesAssumption DEF Messages
<1>1. CASE t \in Notifiers /\ Notify(t)
  <2>1. op'.row = op.row
    BY <1>1, <1>a, CancelKeepsRow DEF Notify, NotifyLock
  <2> QED
    BY <1>1, <2>1, QuietLeaves DEF Notify, NotifyLock
<1>2. CASE t \in Notifiers /\ Wake(t)
  BY <1>2, QuietLeaves DEF Wake, NotifyWake
<1>3. CASE t \in Prompts /\ EnqueuePrompt(t)
  BY <1>3, InsertLeaves DEF EnqueuePrompt, Messages, Fresh
<1>4. CASE t \in Prompts /\ RefusePrompt(t)
  BY <1>4, RefusalLeaves DEF RefusePrompt, Messages, Fresh
<1>5. CASE t \in Stops /\ ReadCancel(t)
  BY <1>5, <1>b, QuietLeaves DEF ReadCancel
<1>6. CASE t \in Stops /\ CallCancel(t)
  <2>1. op'.row = op.row
    BY <1>6, <1>a, CancelKeepsRow DEF CallCancel
  <2> QED
    BY <1>6, <1>b, <2>1, QuietLeaves DEF CallCancel
<1>7. CASE t \in Restarts /\ (RestartStop(t) \/ RestartDone(t))
  BY <1>7, <1>b, QuietLeaves DEF RestartStop, RestartDone
<1>8. CASE t \in Compacts /\ EnqueueCompact(t)
  BY <1>8, <1>b, InsertLeaves DEF EnqueueCompact
<1>9. CASE t \in Compacts /\ (ClaimSlot(t) \/ RefuseCompact(t) \/ CompactReturns(t))
  BY <1>9, <1>b, QuietLeaves DEF ClaimSlot, RefuseCompact, CompactReturns
<1>10. CASE t = Reaper /\ (ReaperStop \/ ReaperDone)
  BY <1>10, <1>b, QuietLeaves DEF ReaperStop, ReaperDone
<1> QED
  BY <1>1, <1>2, <1>3, <1>4, <1>5, <1>6, <1>7, <1>8, <1>9, <1>10 DEF Continue

LEMMA ArriveLeaves ==
    ASSUME MessagesInv, Arrive \/ Rest \/ UNCHANGED vars
    PROVE  Leaves /\ Waits
<1> USE DEF workerVars, handlerVars, inboxVars, Step
<1>b. \A t \in Prompts \cup Stops \cup Restarts \cup Compacts \cup {Reaper, Ticker} :
          t \notin Triggers /\ t \in Threads
  BY ThreadsAssumption, MessagesAssumption DEF Messages, Threads, Commands
<1>1. ASSUME NEW p \in Prompts, SetRoomID(p)
      PROVE  Leaves /\ Waits
  BY <1>1, <1>b, QuietLeaves DEF SetRoomID, Begin
<1>2. ASSUME NEW t \in Triggers, EnqueueTrigger(t)
      PROVE  Leaves /\ Waits
  BY <1>2, InsertLeaves DEF EnqueueTrigger, Messages, Threads, Fresh
<1>3. ASSUME NEW t \in Triggers, RefuseTrigger(t)
      PROVE  Leaves /\ Waits
  BY <1>3, RefusalLeaves DEF RefuseTrigger, Messages, Fresh
<1>4. ASSUME NEW s \in Stops, CheckActive(s)
      PROVE  Leaves /\ Waits
  BY <1>4, <1>b, QuietLeaves DEF CheckActive, Begin
<1>5. ASSUME NEW h \in Restarts, RestartFlag(h)
      PROVE  Leaves /\ Waits
  BY <1>5, <1>b, QuietLeaves DEF RestartFlag, Begin
<1>6. ASSUME NEW c \in Compacts, CompactActive(c)
      PROVE  Leaves /\ Waits
  BY <1>6, <1>b, QuietLeaves DEF CompactActive, Begin
<1>7. CASE Tick
  BY <1>7, <1>b, InsertLeaves DEF Tick
<1>8. CASE ReaperCheck
  BY <1>8, <1>b, QuietLeaves DEF ReaperCheck
<1>9. CASE TimePasses \/ PiExits \/ Shutdown \/ Rest \/ UNCHANGED vars
  <2>1. UNCHANGED <<inbox, extra, wpc, fate, hpc, op>>
    BY <1>9 DEF TimePasses, PiExits, Shutdown, Rest, vars
  <2> QED
    BY <2>1, HandsStay DEF Leaves, Waits, Table
<1> QED
  BY <1>1, <1>2, <1>3, <1>4, <1>5, <1>6, <1>7, <1>8, <1>9 DEF Arrive

\* A step of the bot that is not the worker's, reminders left alone.
LEMMA HandlerKeepsPlaces ==
    ASSUME KeepsInv, KeepsInv', Leaves, UNCHANGED <<reminders, due>>,
           \A t \in Reminders : hpc[t] = "new" => hpc'[t] = "new"
    PROVE  M!Next
<1>a. Sorted /\ Sorted'
  BY PlacesSorted, SortedNext
<1>1. CASE Table' = Table /\ UNCHANGED fate
  <2>1. \A m \in Messages : Place(m)' = Place(m)
    BY <1>a, <1>1 DEF Sorted, Leaves
  <2>2. <<"kept", "taken">> \in M!Ways
    BY DEF M!Ways
  <2> QED
    BY <2>1, <2>2, OneWay
<1>2. ASSUME NEW m \in Messages, Fresh(m), hpc'[m] \in {"queued", "done"}
      PROVE  Place(m) = "outside"
  <2>1. m \notin reminders \cup due
    BY <1>2, RemindersAssumption, MessagesAssumption DEF KeepsInv, DueInv, Fresh
  <2>2. m \notin Table \cup Hands
    BY <1>2, Disjoint DEF KeepsInv, Fresh, PendingPcs
  <2>3. fate[m] = "none"
    BY <1>2 DEF KeepsInv, MessagesInv, ConservationInv, NotYet, Fresh
  <2> QED
    BY <1>a, <2>1, <2>2, <2>3 DEF Sorted
<1>3. ASSUME NEW m \in Messages, Accepted(m)
      PROVE  M!Next
  <2>1. Place(m) = "outside" /\ Place(m)' = "kept"
    BY <1>a, <1>2, <1>3 DEF Sorted, Accepted
  <2>2. \A n \in Messages \ {m} : Place(n)' = Place(n)
    BY <1>a, <1>3 DEF Sorted, Accepted, Leaves
  <2> QED
    BY <2>1, <2>2, OneWay DEF M!Ways
<1>4. ASSUME NEW m \in Messages, Refused(m)
      PROVE  M!Next
  <2>0. fate'[m] = "refused" /\ \A n \in Messages \ {m} : fate'[n] = fate[n]
    BY <1>4 DEF Refused, KeepsInv, MessagesInv, TypeInv, TypeOK, WorkerTypeOK
  <2>1. Place(m) = "outside" /\ Place(m)' = "settled"
    BY <1>a, <1>2, <1>4, <2>0 DEF Sorted, Refused
  <2>2. \A n \in Messages \ {m} : Place(n)' = Place(n)
    BY <1>a, <1>4, <2>0 DEF Sorted, Refused, Leaves
  <2> QED
    BY <2>1, <2>2, OneWay DEF M!Ways
<1> QED
  BY <1>1, <1>3, <1>4 DEF Leaves
-----------------------------------------------------------------------------
(* The dispatcher.                                                         *)

LEMMA BotKeeps ==
    ASSUME KeepsInv, Bot
    PROVE  KeepsInv' /\ M!Next
<1>a. [Next]_vars /\ UNCHANGED <<reminders, due>>
      /\ \A t \in Reminders : hpc[t] = "new" => hpc'[t] = "new"
  BY DEF Bot
<1>b. MessagesInv'
  BY <1>a, NextMessages DEF KeepsInv
<1>1. (Work /\ Shifts /\ Waits) \/ (Leaves /\ Waits)
  <2>1. CASE Work
    BY <2>1, WorkShifts DEF KeepsInv, Work, Waits
  <2>2. CASE ~Work
    BY <1>a, <2>2, ContinueLeaves, ArriveLeaves DEF KeepsInv, Next
  <2> QED
    BY <2>1, <2>2
<1>2. DueInv'
  BY <1>a, <1>1, RemindersAssumption DEF KeepsInv, DueInv, Waits
<1>3. KeepsInv'
  BY <1>b, <1>2 DEF KeepsInv
<1>4. M!Next
  BY <1>a, <1>1, <1>3, WorkKeeps, HandlerKeepsPlaces
<1> QED
  BY <1>3, <1>4

\* Nothing of the bot changes but the place of t.
LEMMA StepOnly ==
    ASSUME KeepsInv, UNCHANGED <<inboxVars, wpc, op, extra>>, NEW t \in due, NEW from, NEW to,
           Step(t, from, to)
    PROVE  /\ Table' = Table /\ Hands' = Hands /\ Live' = Live
           /\ t \in Reminders /\ t \in Triggers /\ t \in Messages /\ t \in Threads
           /\ hpc[t] = from /\ hpc'[t] = to
           /\ \A u \in Threads \ {t} : hpc'[u] = hpc[u]
           /\ RowsInv'
<1>1. t \in Reminders /\ t \in Triggers /\ t \in Messages /\ t \in Threads
  BY RemindersAssumption DEF KeepsInv, DueInv, Messages, Threads
<1>2. hpc \in [Threads -> HandlerPcs]
  BY DEF KeepsInv, MessagesInv, TypeInv, TypeOK
<1>3. Table' = Table /\ Hands' = Hands /\ Live' = Live
  BY DEF Table, Hands, Carried, Live, inboxVars
<1>4. RowsInv'
  BY RowsUntouched DEF KeepsInv, MessagesInv
<1> QED
  BY <1>1, <1>2, <1>3, <1>4 DEF Step

LEMMA StepOnlyType ==
    ASSUME TypeInv, UNCHANGED <<inboxVars, slotVars, idle, wpc, op, extra, current, wake, slot,
                                answered, roomKnown, shutdown, holds, order>>,
           SpentOrNot, fate' \in [Messages -> Fates], hpc' \in [Threads -> HandlerPcs]
    PROVE  TypeInv'
<1>1. PiSlotTypeOK' /\ Len(procs') = Len(procs)
  BY SlotStutterType DEF TypeInv, TypeOK, PiSlotTypeOK
<1>2. InboxTypeOK'
  BY InboxStutterType DEF TypeInv, TypeOK
<1>3. WorkerTypeOK'
  BY <1>1 DEF TypeInv, TypeOK, WorkerTypeOK
<1> QED
  BY <1>1, <1>2, <1>3 DEF TypeInv, TypeOK

LEMMA FaultIsSpending ==
    ASSUME CtxDbFault
    PROVE  SpentOrNot
BY DEF CtxDbFault, DbFault, SpentOrNot, Faults

LEMMA DueRemindersKeeps ==
    ASSUME KeepsInv, DueReminders
    PROVE  KeepsInv' /\ M!Next
<1>1. PICK ts \in SUBSET reminders \ {{}} : reminders' = reminders \ ts /\ due' = ts
  BY DEF DueReminders
<1>2. UNCHANGED vars /\ due = {}
  BY DEF DueReminders
<1>3. MessagesInv'
  BY <1>2, NextMessages DEF KeepsInv
<1>4. DueInv'
  BY <1>1, <1>2 DEF KeepsInv, DueInv, vars, handlerVars
<1>5. KeepsInv' /\ Sorted /\ Sorted'
  BY <1>3, <1>4, PlacesSorted, SortedNext DEF KeepsInv
<1>6. Table' = Table /\ Hands' = Hands /\ UNCHANGED fate
  BY <1>2 DEF vars, inboxVars, workerVars, Table, Hands, Carried
<1>7. \A m \in Messages : Place(m)' = Place(m) \/ (Place(m) = "kept" /\ Place(m)' = "taken")
  BY <1>1, <1>2, <1>5, <1>6 DEF Sorted
<1> QED
  BY <1>5, <1>7, OneWay DEF M!Ways

LEMMA EnqueueReminderKeeps ==
    ASSUME KeepsInv, NEW t \in Reminders, EnqueueReminder(t)
    PROVE  KeepsInv' /\ M!Next
<1>a. EnqueueTrigger(t) /\ t \in due /\ due' = due \ {t} /\ UNCHANGED reminders
  BY DEF EnqueueReminder
<1>b. t \in Triggers /\ t \in Messages /\ t \in Threads
  BY RemindersAssumption DEF Messages, Threads
<1>1. MessagesInv'
  BY <1>a, <1>b, NextMessages DEF KeepsInv, Next, Arrive
<1>2. hpc'[t] = "queued" /\ (\A u \in Threads \ {t} : hpc'[u] = hpc[u]) /\ UNCHANGED fate
  BY <1>a, <1>b DEF EnqueueTrigger, Step, workerVars, KeepsInv, MessagesInv, TypeInv, TypeOK
<1>3. Table' = Table \cup {t}
  <2>1. Carries(NewRow("trigger", <<t>>)) = {t}
    BY CarriesOne DEF NewRow
  <2> QED
    BY <1>a, <2>1, TableGains DEF EnqueueTrigger
<1>4. Hands' = Hands
  BY <1>a, HandsStay DEF EnqueueTrigger, workerVars
<1>5. DueInv'
  BY <1>a, <1>b, <1>2, RemindersAssumption DEF KeepsInv, DueInv, Threads
<1>6. KeepsInv' /\ Sorted /\ Sorted'
  BY <1>1, <1>5, PlacesSorted, SortedNext DEF KeepsInv
<1>7. \A m \in Messages : Place(m)' = Place(m) \/ (Place(m) = "taken" /\ Place(m)' = "kept")
  BY <1>a, <1>2, <1>3, <1>4, <1>6 DEF Sorted
<1> QED
  BY <1>6, <1>7, OneWay DEF M!Ways

LEMMA EnqueueFailsKeeps ==
    ASSUME KeepsInv, NEW t \in Reminders, EnqueueFails(t)
    PROVE  KeepsInv' /\ M!Next
<1>a. t \in due /\ Step(t, "new", "prepared") /\ UNCHANGED <<reminders, due>>
      /\ UNCHANGED <<inboxVars, wpc, op, extra, fate>>
  BY DEF EnqueueFails, lifeVars, workerVars
<1>b. /\ Table' = Table /\ Hands' = Hands /\ Live' = Live
      /\ t \in Reminders /\ t \in Triggers /\ t \in Messages /\ t \in Threads
      /\ hpc[t] = "new" /\ hpc'[t] = "prepared"
      /\ \A u \in Threads \ {t} : hpc'[u] = hpc[u]
      /\ RowsInv'
  BY <1>a, StepOnly
<1>1. TypeInv'
  <2>1. hpc' \in [Threads -> HandlerPcs] /\ fate' \in [Messages -> Fates]
    BY <1>a DEF Step, KeepsInv, MessagesInv, TypeInv, TypeOK, WorkerTypeOK, HandlerPcs
  <2> QED
    BY <2>1, FaultIsSpending, StepOnlyType DEF EnqueueFails, workerVars, KeepsInv, MessagesInv
<1>2. ConservationInv'
  BY <1>a, HandlerKeeps DEF KeepsInv, inboxVars
<1>3. DueInv'
  BY <1>a, <1>b, RemindersAssumption DEF KeepsInv, DueInv, Threads
<1>4. KeepsInv' /\ Sorted /\ Sorted'
  BY <1>b, <1>1, <1>2, <1>3, PlacesSorted, SortedNext DEF KeepsInv, MessagesInv
<1>5. \A m \in Messages : Place(m)' = Place(m)
  BY <1>a, <1>b, <1>4 DEF Sorted
<1>6. <<"kept", "taken">> \in M!Ways
  BY DEF M!Ways
<1> QED
  BY <1>4, <1>5, <1>6, OneWay

LEMMA ReinsertKeeps ==
    ASSUME KeepsInv, NEW t \in Reminders, Reinsert(t)
    PROVE  KeepsInv' /\ M!Next
<1>a. /\ t \in due /\ Step(t, "prepared", "new")
      /\ reminders' = reminders \cup {t} /\ due' = due \ {t}
      /\ UNCHANGED <<inboxVars, wpc, op, extra, fate>>
  BY DEF Reinsert, workerVars
<1>b. /\ Table' = Table /\ Hands' = Hands /\ Live' = Live
      /\ t \in Reminders /\ t \in Triggers /\ t \in Messages /\ t \in Threads
      /\ hpc[t] = "prepared" /\ hpc'[t] = "new"
      /\ \A u \in Threads \ {t} : hpc'[u] = hpc[u]
      /\ RowsInv'
  BY <1>a, StepOnly
<1>1. TypeInv'
  <2>1. hpc' \in [Threads -> HandlerPcs] /\ fate' \in [Messages -> Fates]
    BY <1>a DEF Step, KeepsInv, MessagesInv, TypeInv, TypeOK, WorkerTypeOK, HandlerPcs
  <2> QED
    BY <2>1, StepOnlyType DEF Reinsert, SpentOrNot, workerVars, KeepsInv, MessagesInv
<1>2. ConservationInv'
  <2>1. \A m \in Messages :
            /\ hpc'[m] \in PendingPcs <=> hpc[m] \in PendingPcs
            /\ hpc'[m] \in {"new", "prepared"} => hpc[m] \in {"new", "prepared"}
    BY <1>b DEF PendingPcs, Messages, Threads, Commands
  <2> QED
    BY <1>a, <1>b, <2>1, LiveStays DEF KeepsInv, MessagesInv
<1>3. DueInv'
  BY <1>a, <1>b, RemindersAssumption DEF KeepsInv, DueInv, Threads
<1>4. KeepsInv' /\ Sorted /\ Sorted'
  BY <1>b, <1>1, <1>2, <1>3, PlacesSorted, SortedNext DEF KeepsInv, MessagesInv
<1>5. \A m \in Messages : Place(m)' = Place(m) \/ (Place(m) = "taken" /\ Place(m)' = "kept")
  BY <1>a, <1>b, <1>4 DEF Sorted
<1> QED
  BY <1>4, <1>5, OneWay DEF M!Ways

LEMMA ReinsertFailsKeeps ==
    ASSUME KeepsInv, NEW t \in Reminders, ReinsertFails(t)
    PROVE  KeepsInv' /\ M!Next
<1>a. /\ t \in due /\ Step(t, "prepared", "done")
      /\ UNCHANGED reminders /\ due' = due \ {t}
      /\ fate' = [fate EXCEPT ![t] = "dropped"]
      /\ UNCHANGED <<inboxVars, wpc, op, extra>>
  BY DEF ReinsertFails
<1>b. /\ Table' = Table /\ Hands' = Hands /\ Live' = Live
      /\ t \in Reminders /\ t \in Triggers /\ t \in Messages /\ t \in Threads
      /\ hpc[t] = "prepared" /\ hpc'[t] = "done"
      /\ \A u \in Threads \ {t} : hpc'[u] = hpc[u]
      /\ RowsInv'
  BY <1>a, StepOnly
<1>c. /\ fate' \in [Messages -> Fates] /\ fate'[t] = "dropped"
      /\ \A m \in Messages \ {t} : fate'[m] = fate[m]
  BY <1>a, <1>b DEF KeepsInv, MessagesInv, TypeInv, TypeOK, WorkerTypeOK, Fates
<1>1. TypeInv'
  <2>1. hpc' \in [Threads -> HandlerPcs]
    BY <1>a DEF Step, KeepsInv, MessagesInv, TypeInv, TypeOK, HandlerPcs
  <2> QED
    BY <1>c, <2>1, FaultIsSpending, StepOnlyType DEF ReinsertFails, KeepsInv, MessagesInv
<1>2. ConservationInv'
  BY <1>a, <1>b, HandlerRefuses DEF KeepsInv
<1>3. DueInv'
  BY <1>a, <1>b, RemindersAssumption DEF KeepsInv, DueInv, Threads
<1>4. KeepsInv' /\ Sorted /\ Sorted'
  BY <1>b, <1>1, <1>2, <1>3, PlacesSorted, SortedNext DEF KeepsInv, MessagesInv
<1>5. Place(t) = "taken" /\ Place(t)' = "lost"
  BY <1>a, <1>b, <1>c, <1>4 DEF Sorted
<1>6. \A m \in Messages \ {t} : Place(m)' = Place(m)
  BY <1>a, <1>b, <1>c, <1>4 DEF Sorted
<1> QED
  BY <1>4, <1>5, <1>6, OneWay DEF M!Ways
-----------------------------------------------------------------------------
(* The end of a process and the start of the next one.                     *)

LEMMA NewProcessType ==
    ASSUME KeepsInv, roomFile \in BOOLEAN, NewProcess
    PROVE  TypeInv'
<1> DEFINE Process == [state : PiStates, session : SUBSET Restarts]
<1>a. TypeOK /\ procs \in Seq(Process) /\ Len(procs) \in Nat /\ DOMAIN procs = 1 .. Len(procs)
  BY LenProperties DEF KeepsInv, MessagesInv, TypeInv, TypeOK, PiSlotTypeOK
<1>1. procs' \in Seq(Process) /\ Len(procs') = Len(procs)
  <2>1. \A p \in 1 .. Len(procs) : [procs[p] EXCEPT !.state = "dead"] \in Process
    <3> SUFFICES ASSUME NEW p \in 1 .. Len(procs)
                 PROVE  [procs[p] EXCEPT !.state = "dead"] \in Process
      OBVIOUS
    <3>1. procs[p] \in Process
      BY <1>a, ElementOfSeq
    <3> QED
      BY <3>1 DEF PiStates
  <2>2. procs' = [p \in 1 .. Len(procs) |-> [procs[p] EXCEPT !.state = "dead"]]
    BY <1>a DEF NewProcess
  <2> HIDE DEF Process
  <2>3. procs' \in [1 .. Len(procs) -> Process]
    BY <2>1, <2>2
  <2>4. procs' \in Seq(Process)
    BY <1>a, <2>3, SeqDef
  <2> QED
    BY <1>a, <2>3, <2>4, LenProperties
<1>2. InboxTypeOK'
  BY <1>a DEF NewProcess, KeptRows, TypeOK, InboxTypeOK
<1>3. PiSlotTypeOK'
  <2>1. pi' \in 0 .. Len(procs') /\ victim' \in [Stoppers -> 0 .. Len(procs')]
    BY <1>a, <1>1 DEF NewProcess
  <2> QED
    BY <1>a, <1>1, <2>1 DEF NewProcess, TypeOK, PiSlotTypeOK
<1>4. WorkerTypeOK'
  <2>1. op' \in Ops /\ op'.proc <= Len(procs')
    BY <1>a, <1>1, NoOpType DEF NewProcess
  <2>2. fate' \in [Messages -> Fates]
    BY <1>a DEF NewProcess, TypeOK, WorkerTypeOK, Fates
  <2>3. roomKnown' \in BOOLEAN
    BY DEF NewProcess
  <2> QED
    BY <2>1, <2>2, <2>3 DEF NewProcess, WorkerTypeOK, Pcs
<1>5. hpc' \in [Threads -> HandlerPcs] /\ holds' \subseteq Stops /\ order' \in Seq(Prompts)
  BY <1>a DEF NewProcess, TypeOK, HandlerPcs
<1> QED
  BY <1>2, <1>3, <1>4, <1>5 DEF TypeInv, TypeOK, NewProcess

\* The table keeps its messages; a message in nobody's table is dropped unless
\* nobody has begun with it.
LEMMA NewProcessMessages ==
    ASSUME KeepsInv, NewProcess
    PROVE  /\ Table' = Table /\ Hands' = {}
           /\ \A m \in Messages :
                  /\ m \in InHand <=> /\ fate[m] = "none" /\ m \notin Table
                                      /\ hpc[m] # "new" \/ m \in due
                  /\ fate'[m] = IF m \in InHand THEN "dropped" ELSE fate[m]
                  /\ hpc'[m] = IF hpc[m] = "new" /\ m \notin InHand THEN "new" ELSE "done"
<1>a. RowsInv /\ TypeOK
  BY DEF KeepsInv, MessagesInv, TypeInv
<1>1. Table' = Table
  <2>1. Table' \subseteq Table
    BY DEF NewProcess, KeptRows, Table, Carried
  <2>2. \A r \in inbox : Carries(r) # {} => r \in KeptRows
    BY <1>a DEF RowsInv, Stored, Shape, KeptRows
  <2>3. Table \subseteq Table'
    BY <2>2 DEF NewProcess, Table, Carried
  <2> QED
    BY <2>1, <2>3
<1>2. Hands' = {}
  BY DEF NewProcess, Hands, Carried, HoldingPcs
<1>3. \A m \in Messages : m \in Threads /\ m \notin {Ticker, Reaper}
  BY ThreadsAssumption DEF Threads, Commands, Messages
<1>4. \A m \in Messages : m \in InHand <=> /\ fate[m] = "none" /\ m \notin Table
                                           /\ hpc[m] # "new" \/ m \in due
  BY DEF InHand, Table, Carried
<1> QED
  BY <1>1, <1>2, <1>3, <1>4 DEF NewProcess

LEMMA NewProcessKeeps ==
    ASSUME KeepsInv, roomFile \in BOOLEAN, NewProcess
    PROVE  KeepsInv' /\ M!Next
<1>a. /\ Table' = Table /\ Hands' = {} /\ due' = {} /\ UNCHANGED reminders
      /\ \A m \in Messages :
             /\ m \in InHand <=> /\ fate[m] = "none" /\ m \notin Table
                                 /\ hpc[m] # "new" \/ m \in due
             /\ fate'[m] = IF m \in InHand THEN "dropped" ELSE fate[m]
             /\ hpc'[m] = IF hpc[m] = "new" /\ m \notin InHand THEN "new" ELSE "done"
  BY NewProcessMessages DEF NewProcess
<1>b. wpc' = "drain" /\ extra' = {} /\ inbox' \subseteq inbox /\ UNCHANGED nextId
  BY DEF NewProcess, KeptRows
<1>c. /\ \A m \in Table \cup Hands : fate[m] = "none" /\ hpc[m] \in PendingPcs
      /\ \A m \in Messages : Pending(m) => m \in Table \cup Hands
  BY Disjoint DEF KeepsInv
<1>d. reminders \cup due \subseteq Messages
  BY RemindersAssumption DEF KeepsInv, DueInv, Messages
<1>1. TypeInv'
  BY NewProcessType
<1>2. RowsInv'
  BY <1>b DEF KeepsInv, MessagesInv, RowsInv, Stored, HoldingPcs
<1>3. ConservationInv'
  <2>1. Live' = inbox'
    BY <1>b DEF Live, HoldingPcs
  <2>2. ASSUME NEW m \in Messages
        PROVE  Pending(m)' <=> \E r \in Live' : m \in Carries(r)
    <3>1. Pending(m)' <=> fate'[m] = "none" /\ hpc'[m] \in PendingPcs
      BY DEF Pending, PendingPcs
    <3>2. m \in Table <=> \E r \in Live' : m \in Carries(r)
      BY <1>a, <2>1 DEF Table, Carried
    <3>3. CASE m \in Table
      BY <1>a, <1>c, <3>1, <3>2, <3>3 DEF PendingPcs
    <3>4. CASE m \notin Table
      BY <1>a, <3>1, <3>2, <3>4 DEF PendingPcs
    <3> QED
      BY <3>3, <3>4
  <2>3. Live' \subseteq Live
    BY <1>b, <2>1 DEF Live
  <2>4. NotYet'
    BY <1>a DEF KeepsInv, MessagesInv, ConservationInv, NotYet
  <2>5. Conservation'
    BY <2>2, <2>3 DEF KeepsInv, MessagesInv, ConservationInv, Conservation
  <2> QED
    BY <2>4, <2>5 DEF ConservationInv
<1>4. DueInv'
  BY <1>a, <1>d DEF KeepsInv, DueInv
<1>5. KeepsInv' /\ Sorted /\ Sorted'
  BY <1>1, <1>2, <1>3, <1>4, PlacesSorted, SortedNext DEF KeepsInv, MessagesInv
<1>6. ASSUME NEW m \in Messages
      PROVE  /\ \/ Place(m)' = Place(m)
                \/ Place(m) \in {"taken", "outside"} /\ Place(m)' = "lost"
             /\ Place(m)' # "taken"
  <2>1. Place(m)' # "taken"
    BY <1>a, <1>5 DEF Sorted
  <2>2. CASE m \in reminders \cup Table
    BY <1>a, <1>5, <2>2, <1>d DEF Sorted
  <2>3. CASE m \in due \cup Hands
    <3>1. m \in InHand
      BY <1>a, <1>c, <1>5, <2>3 DEF Sorted, PendingPcs
    <3> QED
      BY <1>a, <1>5, <2>1, <2>3, <3>1 DEF Sorted
  <2>4. CASE m \notin reminders \cup Table \cup due \cup Hands
    BY <1>a, <1>5, <2>4 DEF Sorted
  <2> QED
    BY <2>1, <2>2, <2>3, <2>4
<1>7. M!Moves \subseteq {<<"taken", "lost">>, <<"outside", "lost">>}
  BY <1>6 DEF M!Moves
<1>8. M!Crash
  BY <1>6, <1>7 DEF M!Crash
<1>9. [m \in Messages |-> Place(m)]' \in [Messages -> M!Places]
  BY <1>5 DEF Sorted
<1> QED
  BY <1>5, <1>8, <1>9 DEF M!Next
-----------------------------------------------------------------------------
LifeInv == KeepsInv /\ roomFile \in BOOLEAN

LEMMA LifecycleStep ==
    ASSUME LifeInv, LifecycleNext
    PROVE  LifeInv' /\ M!Next
<1>1. CASE Bot
  BY <1>1, BotKeeps DEF LifeInv, Bot, RoomFile
<1>2. CASE Dispatch
  BY <1>2, DueRemindersKeeps, EnqueueReminderKeeps, EnqueueFailsKeeps, ReinsertKeeps,
     ReinsertFailsKeeps
     DEF LifeInv, Dispatch, DueReminders, EnqueueReminder, EnqueueFails, Reinsert,
         ReinsertFails, lifeVars
<1>3. CASE Crash \/ Restart
  BY <1>3, NewProcessKeeps DEF LifeInv, Crash, Restart, NewProcess
<1> QED
  BY <1>1, <1>2, <1>3 DEF LifecycleNext

LEMMA LifecycleStart ==
    ASSUME LifecycleInit
    PROVE  LifeInv
<1>1. MessagesInv
  BY InitMessages DEF LifecycleInit
<1>2. DueInv
  BY RemindersAssumption DEF LifecycleInit, DueInv, Init, Threads
<1>3. roomFile \in BOOLEAN
  BY DEF LifecycleInit, Init, WorkerInit
<1> QED
  BY <1>1, <1>2, <1>3 DEF LifeInv, KeepsInv

LEMMA LifecycleKept ==
    ASSUME LifeInv, [LifecycleNext]_allVars
    PROVE  LifeInv' /\ (M!Next \/ \A m \in Messages : Place(m)' = Place(m))
<1>1. CASE LifecycleNext
  BY <1>1, LifecycleStep
<1>2. CASE UNCHANGED allVars
  <2>1. UNCHANGED vars /\ UNCHANGED <<reminders, due, roomFile>>
    BY <1>2 DEF allVars, lifeVars
  <2>2. MessagesInv'
    BY <2>1, NextMessages DEF LifeInv, KeepsInv
  <2>3. KeepsInv' /\ roomFile' \in BOOLEAN
    BY <2>1, <2>2 DEF LifeInv, KeepsInv, DueInv, vars, handlerVars
  <2>4. Sorted /\ Sorted'
    BY <2>3, PlacesSorted, SortedNext DEF LifeInv
  <2>5. Table' = Table /\ Hands' = Hands /\ UNCHANGED fate
    BY <2>1 DEF vars, inboxVars, workerVars, Table, Hands, Carried
  <2>6. \A m \in Messages : Place(m)' = Place(m)
    BY <2>1, <2>4, <2>5 DEF Sorted
  <2> QED
    BY <2>3, <2>6 DEF LifeInv
<1> QED
  BY <1>1, <1>2

\* Through crashes and failing statements every message is where the mailbox
\* says it may be: only what a goroutine had taken out, or was about to
\* enqueue, is lost, nothing is in two places, and what is settled stays so.
THEOREM BotKeepsMessages == LifecycleSpec => Keeps
<1>1. LifecycleInit => LifeInv /\ M!Init
  <2> SUFFICES ASSUME LifecycleInit
               PROVE  LifeInv /\ M!Init
    OBVIOUS
  <2>1. LifeInv /\ Sorted
    BY LifecycleStart, PlacesSorted DEF LifeInv
  <2>2. fate = [m \in Messages |-> "none"] /\ due = {} /\ Hands = {}
    BY DEF LifecycleInit, Init, WorkerInit, Hands, Carried, HoldingPcs
  <2>3. \A m \in Messages : Place(m) \in {"outside", "kept"}
    BY <2>1, <2>2 DEF Sorted
  <2> QED
    BY <2>1, <2>3 DEF M!Init
<1>2. LifeInv /\ [LifecycleNext]_allVars => LifeInv' /\ [M!Next]_([m \in Messages |-> Place(m)])
  BY LifecycleKept
<1> QED
  BY <1>1, <1>2, PTL DEF LifecycleSpec, Keeps, M!Spec
-----------------------------------------------------------------------------
(* The order of the conversation (Lifecycle.OrderUntilShutdown).  Only a   *)
(* cancelled operation puts its row back behind later ones; nothing but    *)
(* !stop and a shutdown cancels the operation of a user row, since no row  *)
(* has a higher priority.  OrderInv says of the user rows what UserOrder   *)
(* does, and of the ids what keeps it so: rows taken out to be merged are  *)
(* older than those that have come since.                                  *)

Before(p, q) == \E i, j \in DOMAIN order : i < j /\ order[i] = p /\ order[j] = q

Users == {r \in Live : r.src = "user"}

Ascending(r) == \A i, j \in DOMAIN r.body : i < j => Before(r.body[i], r.body[j])

OrderInv ==
    /\ \A i, j \in DOMAIN order : order[i] = order[j] => i = j
    /\ \A i \in DOMAIN order : hpc[order[i]] \in PendingPcs
    /\ \A r \in Users : \A p \in Carries(r) : \E i \in DOMAIN order : order[i] = p
    /\ \A r \in Users : Ascending(r)
    /\ \A r, s \in Users : r # s /\ Earlier(r, s) =>
           \A p \in Carries(r), q \in Carries(s) : Before(p, q)
    /\ op.row.src = "user" => op.row \notin Stored /\ op.row.id < nextId
    /\ \A r \in extra, s \in UserRows : r.id < s.id

\* An accepted prompt has one position.
LEMMA BeforeIsPosition ==
    ASSUME OrderInv, NEW p, NEW q, Before(p, q), order \in Seq(Prompts)
    PROVE  Position(p) < Position(q)
<1>1. PICK i, j \in DOMAIN order : i < j /\ order[i] = p /\ order[j] = q
  BY DEF Before
<1>2. Position(p) = i /\ Position(q) = j
  BY <1>1 DEF OrderInv, Position
<1> QED
  BY <1>1, <1>2

LEMMA OrderIsUserOrder ==
    ASSUME OrderInv, TypeInv
    PROVE  UserOrder
<1>1. order \in Seq(Prompts)
  BY DEF TypeInv, TypeOK
<1> QED
  BY <1>1, BeforeIsPosition DEF OrderInv, UserOrder, Users, Ascending
-----------------------------------------------------------------------------
(* What steps do to the user rows.                                         *)

\* No user row comes, in the table or in memory; the worker holds the row it
\* held before, or none.
UsersLeave ==
    /\ UserRows' \subseteq UserRows /\ extra' \subseteq extra /\ nextId' >= nextId
    /\ wpc' \in HoldingPcs => wpc \in HoldingPcs
    /\ op'.row = op.row \/ (op'.row = NoRow /\ wpc' \notin HoldingPcs)

LEMMA LeavingUsers ==
    ASSUME UsersLeave
    PROVE  Users' \subseteq Users
BY DEF UsersLeave, Users, Live, UserRows

PendingStay == \A p \in Prompts : hpc[p] \in PendingPcs => hpc'[p] \in PendingPcs

LEMMA OrderStays ==
    ASSUME TypeInv, RowsInv, OrderInv, PendingStay, UNCHANGED order,
           Users' \subseteq Users,
           \A r, s \in Users' : r # s /\ Earlier(r, s)' => Earlier(r, s),
           op'.row.src = "user" => op'.row \notin Stored' /\ op'.row.id < nextId',
           \A r \in extra', s \in UserRows' : r.id < s.id
    PROVE  OrderInv'
<1>1. \A p, q : Before(p, q) => Before(p, q)'
  BY DEF Before
<1>2. \A i \in DOMAIN order : order[i] \in Prompts
  BY ElementOfSeq, LenProperties DEF TypeInv, TypeOK
<1>3. \A i \in DOMAIN order' : hpc'[order'[i]] \in PendingPcs
  BY <1>2 DEF OrderInv, PendingStay
<1>4. \A r \in Users' : Ascending(r)'
  BY <1>1 DEF OrderInv, Ascending
<1>5. \A r, s \in Users' : r # s /\ Earlier(r, s)' =>
          \A p \in Carries(r), q \in Carries(s) : Before(p, q)'
  BY <1>1 DEF OrderInv
<1>6. /\ \A i, j \in DOMAIN order' : order'[i] = order'[j] => i = j
      /\ \A r \in Users' : \A p \in Carries(r) : \E i \in DOMAIN order' : order'[i] = p
  BY DEF OrderInv
<1> QED
  BY <1>3, <1>4, <1>5, <1>6 DEF OrderInv

LEMMA OrderLeaves ==
    ASSUME TypeInv, RowsInv, OrderInv, UsersLeave, PendingStay, UNCHANGED order,
           nextId' \in Nat
    PROVE  OrderInv'
<1>a. nextId \in Nat /\ op.row.id \in Nat
  BY DEF TypeInv, TypeOK, InboxTypeOK, WorkerTypeOK, Ops, Rows
<1>1. Users' \subseteq Users
  BY LeavingUsers
<1>2. op'.row.src = "user" => op'.row = op.row /\ op'.row \notin Stored' /\ op'.row.id < nextId'
  <2> SUFFICES ASSUME op'.row.src = "user"
               PROVE  op'.row = op.row /\ op'.row \notin Stored' /\ op'.row.id < nextId'
    OBVIOUS
  <2>1. op'.row = op.row
    BY DEF UsersLeave, NoRow
  <2>2. op.row \notin UserRows' /\ op.row \notin extra' /\ op.row.id < nextId'
    BY <1>a, <2>1 DEF UsersLeave, OrderInv, UserRows, Stored
  <2> QED
    BY <2>1, <2>2 DEF UserRows, Stored
<1>3. ASSUME NEW r \in Users', NEW s \in Users', r # s, Earlier(r, s)'
      PROVE  Earlier(r, s)
  <2>1. CASE op'.row = op.row
    BY <1>3, <2>1 DEF Earlier
  <2>2. CASE op'.row = NoRow /\ wpc' \notin HoldingPcs
    <3>1. r.src = "user" /\ s.src = "user" /\ s \in UserRows' \cup extra' /\ r # NoRow
      BY <1>3, <2>2 DEF Users, Live, UserRows, NoRow
    <3>2. s # op.row
      BY <3>1 DEF UsersLeave, OrderInv, UserRows, Stored
    <3> QED
      BY <1>3, <2>2, <3>1, <3>2 DEF Earlier
  <2> QED
    BY <2>1, <2>2 DEF UsersLeave
<1>4. \A r \in extra', s \in UserRows' : r.id < s.id
  BY DEF UsersLeave, OrderInv
<1> QED
  BY <1>1, <1>2, <1>3, <1>4, OrderStays

LEMMA OrderDequeues ==
    ASSUME TypeInv, RowsInv, OrderInv, NEW r0 \in inbox, Dequeue(r0), UNCHANGED <<order, hpc>>
    PROVE  OrderInv'
<1>1. /\ op'.row = r0 /\ inbox' = inbox \ {r0} /\ UNCHANGED <<extra, nextId>>
      /\ wpc = "drain" /\ wpc' \in HoldingPcs /\ extra = {} /\ IsFirst(r0)
  BY DEF Dequeue, Remove, Moves, NoOp, RowsInv, HoldingPcs
<1>2. Live' = inbox /\ Live = inbox
  BY <1>1 DEF Live, HoldingPcs
<1>3. Users' = Users
  BY <1>2 DEF Users
<1>4. r0.id < nextId /\ r0 \notin Stored' /\ inbox \subseteq Rows
  BY <1>1 DEF RowsInv, Stored, TypeInv, TypeOK, InboxTypeOK
<1>5. ASSUME NEW r \in Users', NEW s \in Users', r # s, Earlier(r, s)'
      PROVE  Earlier(r, s)
  <2>1. r \in inbox /\ s \in inbox /\ r.src = "user" /\ s.src = "user" /\ s # op.row
    BY <1>2, <1>3 DEF Users, OrderInv, Stored
  <2>2. r.id < s.id
    <3>1. CASE r = r0
      <4>1. Precedes(r, s)
        BY <1>1, <1>5, <2>1, <3>1 DEF IsFirst
      <4>2. Priority(r) = 0 /\ Priority(s) = 0
        BY <2>1 DEF Priority, PriorityOf
      <4> QED
        BY <4>1, <4>2 DEF Precedes
    <3>2. CASE r # r0
      BY <1>1, <1>5, <3>2 DEF Earlier
    <3> QED
      BY <3>1, <3>2
  <2> QED
    BY <2>1, <2>2 DEF Earlier
<1>6. PendingStay
  BY DEF PendingStay
<1> QED
  BY <1>1, <1>3, <1>4, <1>5, <1>6, OrderStays

LEMMA OrderMerges ==
    ASSUME TypeInv, RowsInv, OrderInv, MergeUserItems, UNCHANGED <<order, hpc>>
    PROVE  OrderInv'
<1>1. /\ inbox' = inbox \ UserRows /\ extra' = UserRows /\ UNCHANGED <<op, nextId>>
      /\ wpc = "merge" /\ wpc' = "fold" /\ extra = {}
  BY DEF MergeUserItems, RemoveUserRows, RowsInv
<1>2. Live' = Live /\ UserRows' = {} /\ Stored' = Stored
  BY <1>1 DEF Live, UserRows, HoldingPcs, Stored
<1>3. Users' = Users
  BY <1>2 DEF Users
<1>4. PendingStay
  BY DEF PendingStay
<1>5. \A r, s \in Users' : Earlier(r, s)' => Earlier(r, s)
  BY <1>1 DEF Earlier
<1>6. op'.row.src = "user" => op'.row \notin Stored' /\ op'.row.id < nextId'
  BY <1>1, <1>2 DEF OrderInv
<1> QED
  BY <1>2, <1>3, <1>4, <1>5, <1>6, OrderStays

\* The joined body is in order when both are and one comes before the other.
LEMMA AscendingJoined ==
    ASSUME NEW r \in Rows, NEW s \in Rows, NEW q, q.body = r.body \o s.body,
           Ascending(r), Ascending(s), \A m \in Carries(r), n \in Carries(s) : Before(m, n)
    PROVE  Ascending(q)
<1> DEFINE a == r.body  b == s.body  c == q.body
<1>1. a \in Seq(Messages) /\ b \in Seq(Messages)
  BY DEF Rows
<1>2. /\ Len(a) \in Nat /\ Len(b) \in Nat
      /\ DOMAIN a = 1 .. Len(a) /\ DOMAIN b = 1 .. Len(b)
  BY <1>1, LenProperties
<1>3. c = a \o b
  OBVIOUS
<1>4. /\ \A i \in DOMAIN a : a[i] \in Carries(r)
      /\ \A i \in DOMAIN b : b[i] \in Carries(s)
  BY DEF Carries
<1>5. /\ \A i, j \in DOMAIN a : i < j => Before(a[i], a[j])
      /\ \A i, j \in DOMAIN b : i < j => Before(b[i], b[j])
  BY DEF Ascending
<1>6. SUFFICES \A i, j \in DOMAIN c : i < j => Before(c[i], c[j])
  BY DEF Ascending
<1> HIDE DEF a, b, c
<1>7. /\ c \in Seq(Messages) /\ Len(c) = Len(a) + Len(b)
      /\ \A i \in 1 .. Len(a) + Len(b) : c[i] = IF i <= Len(a) THEN a[i] ELSE b[i - Len(a)]
  BY <1>1, <1>3, ConcatProperties
<1>8. DOMAIN c = 1 .. Len(a) + Len(b)
  BY <1>7, LenProperties
<1>9. \A i \in DOMAIN c : \/ i \in DOMAIN a /\ c[i] = a[i]
                          \/ i - Len(a) \in DOMAIN b /\ c[i] = b[i - Len(a)]
  BY <1>2, <1>7, <1>8
<1> SUFFICES ASSUME NEW i \in DOMAIN c, NEW j \in DOMAIN c, i < j
             PROVE  Before(c[i], c[j])
  OBVIOUS
<1>10. CASE i \in DOMAIN a /\ c[i] = a[i] /\ j \in DOMAIN a /\ c[j] = a[j]
  BY <1>5, <1>10
<1>11. CASE /\ i \in DOMAIN a /\ c[i] = a[i]
            /\ j - Len(a) \in DOMAIN b /\ c[j] = b[j - Len(a)]
  BY <1>4, <1>11
<1>12. CASE /\ i - Len(a) \in DOMAIN b /\ c[i] = b[i - Len(a)]
            /\ j - Len(a) \in DOMAIN b /\ c[j] = b[j - Len(a)]
  <2>1. i - Len(a) < j - Len(a)
    BY <1>2, <1>8
  <2> QED
    BY <1>5, <1>12, <2>1
<1>13. CASE i - Len(a) \in DOMAIN b /\ j \in DOMAIN a
  BY <1>2, <1>8, <1>13
<1> QED
  BY <1>9, <1>10, <1>11, <1>12, <1>13

LEMMA OrderFolds ==
    ASSUME TypeInv, RowsInv, OrderInv, NEW r0 \in extra, Fold(r0), UNCHANGED <<order, hpc>>
    PROVE  OrderInv'
<1> DEFINE o == op.row  n == op'.row
<1>a. op \in Ops /\ extra \subseteq Rows /\ inbox \subseteq Rows
  BY DEF TypeInv, TypeOK, InboxTypeOK, WorkerTypeOK
<1>1. /\ n = [o EXCEPT !.body = o.body \o r0.body]
      /\ extra' = extra \ {r0} /\ UNCHANGED <<wpc, inbox, nextId>> /\ wpc = "fold"
      /\ LowestId(extra, r0)
  BY <1>a DEF Fold, inboxVars, Ops
<1>2. o \in Rows /\ r0 \in Rows
  BY <1>a DEF Ops
<1>3. n.id = o.id /\ n.src = "user" /\ o.src = "user" /\ n.body = o.body \o r0.body
      /\ r0.src = "user"
  BY <1>1, <1>2 DEF Rows, RowsInv
<1>4. Carries(n) = Carries(o) \cup Carries(r0)
  BY <1>2, <1>3, CarriesJoined
<1>5. o \in Users /\ r0 \in Users /\ o # r0 /\ n \notin Stored /\ o \notin Stored
      /\ n.id < nextId
  BY <1>1, <1>3 DEF Users, Live, HoldingPcs, RowsInv, Stored
<1>6. Users' = (Users \ {o, r0}) \cup {n}
  BY <1>1, <1>3, <1>5 DEF Users, Live, HoldingPcs, RowsInv, Stored
<1>7. \A s \in Users \ {o, r0} : r0.id < s.id /\ s \in Stored
  <2> SUFFICES ASSUME NEW s \in Users \ {o, r0}
               PROVE  r0.id < s.id /\ s \in Stored
    OBVIOUS
  <2>1. s \in extra \/ s \in UserRows
    BY <1>1 DEF Users, Live, HoldingPcs, UserRows
  <2>2. CASE s \in extra
    <3>1. r0.id <= s.id /\ r0.id # s.id /\ r0.id \in Nat /\ s.id \in Nat
      BY <1>1, <1>a, <2>2 DEF LowestId, RowsInv, Stored, Rows
    <3> QED
      BY <2>2, <3>1 DEF Stored
  <2>3. CASE s \in UserRows
    BY <2>3 DEF OrderInv, Stored, UserRows
  <2> QED
    BY <2>1, <2>2, <2>3
<1> HIDE DEF n
<1>b. /\ \A p, q : Before(p, q) => Before(p, q)'
      /\ \A p, q : Before(p, q)' => Before(p, q)
  BY DEF Before
<1>8. Earlier(o, r0)
  BY <1>5 DEF Earlier
<1>9. Ascending(n)
  BY <1>2, <1>3, <1>5, <1>8, AscendingJoined DEF OrderInv
<1>10. \A r \in Users' : Ascending(r)'
  BY <1>6, <1>9, <1>b DEF OrderInv, Ascending
<1>11. ASSUME NEW r \in Users', NEW s \in Users', r # s, Earlier(r, s)',
              NEW p \in Carries(r), NEW q \in Carries(s)
       PROVE  Before(p, q)'
  <2>1. CASE r = n
    <3>1. s \in Users \ {o, r0} /\ p \in Carries(o) \cup Carries(r0)
      BY <1>4, <1>6, <1>11, <2>1
    <3>2. Earlier(o, s) /\ Earlier(r0, s)
      BY <1>5, <1>7, <3>1 DEF Earlier
    <3> QED
      BY <1>5, <1>b, <3>1, <3>2 DEF OrderInv
  <2>2. CASE r # n
    <3>1. r \in Users \ {o, r0} /\ s # n /\ r.id < s.id
      BY <1>6, <1>11, <2>2 DEF Earlier, n
    <3>2. s \in Users \ {o, r0}
      BY <1>6, <3>1
    <3>3. Earlier(r, s)
      BY <3>1, <3>2 DEF Earlier
    <3> QED
      BY <1>b, <1>11, <3>1, <3>2, <3>3 DEF OrderInv
  <2> QED
    BY <2>1, <2>2
<1>12. \A r \in Users' : \A p \in Carries(r) : \E i \in DOMAIN order' : order'[i] = p
  BY <1>4, <1>5, <1>6 DEF OrderInv
<1>13. n \notin Stored' /\ n.id < nextId'
  BY <1>1, <1>5 DEF Stored
<1>14. \A r \in extra', s \in UserRows' : r.id < s.id
  BY <1>1 DEF OrderInv, UserRows
<1>15. /\ \A i, j \in DOMAIN order' : order'[i] = order'[j] => i = j
       /\ \A i \in DOMAIN order' : hpc'[order'[i]] \in PendingPcs
  BY DEF OrderInv
<1> QED
  BY <1>10, <1>11, <1>12, <1>13, <1>14, <1>15 DEF OrderInv, n

LEMMA OrderGains ==
    ASSUME TypeInv, RowsInv, OrderInv, NEW p \in Prompts, EnqueuePrompt(p)
    PROVE  OrderInv'
<1> DEFINE row == NewRow("user", <<p>>)
<1>a. /\ hpc \in [Threads -> HandlerPcs] /\ order \in Seq(Prompts) /\ p \in Threads
      /\ nextId \in Nat /\ op.row.id \in Nat
  BY DEF TypeInv, TypeOK, InboxTypeOK, WorkerTypeOK, Ops, Rows, Threads, Commands
<1>1. /\ hpc[p] = "prepared" /\ hpc' = [hpc EXCEPT ![p] = "queued"]
      /\ inbox' = inbox \cup {row} /\ nextId' = nextId + 1
      /\ order' = Append(order, p) /\ UNCHANGED <<wpc, op, extra>>
  BY DEF EnqueuePrompt, Step, Insert, NewRow, workerVars
<1>2. row.body = <<p>> /\ row.src = "user" /\ row.id = nextId
  BY DEF NewRow
<1> HIDE DEF row
<1>3. Carries(row) = {p} /\ DOMAIN row.body = {1}
  BY <1>2, CarriesOne
<1>4. /\ Len(order) \in Nat /\ DOMAIN order = 1 .. Len(order)
      /\ DOMAIN order' = 1 .. Len(order) + 1
      /\ \A i \in DOMAIN order : order'[i] = order[i]
      /\ order'[Len(order) + 1] = p
  BY <1>1, <1>a, AppendProperties, LenProperties
<1>5. \A i \in DOMAIN order : order[i] # p /\ order[i] \in Prompts
  BY <1>1, <1>a, ElementOfSeq, LenProperties DEF OrderInv, PendingPcs
<1>6. \A m, n : Before(m, n) => Before(m, n)'
  BY <1>4 DEF Before
<1>7. ASSUME NEW i \in DOMAIN order
      PROVE  Before(order[i], p)'
  <2>1. i \in DOMAIN order' /\ Len(order) + 1 \in DOMAIN order' /\ i < Len(order) + 1
    BY <1>4
  <2>2. order'[i] = order[i] /\ order'[Len(order) + 1] = p
    BY <1>4
  <2> QED
    BY <2>1, <2>2 DEF Before
<1>8. Users' = Users \cup {row}
  BY <1>1, <1>2 DEF Users, Live
<1>9. \A r \in Users : r.id < nextId /\ r.id \in Nat
  BY <1>a DEF Users, Live, RowsInv, Stored, TypeInv, TypeOK, InboxTypeOK, WorkerTypeOK, Rows
<1>10. /\ row \notin Stored /\ row \notin Users
  BY <1>2, <1>9, <1>a DEF RowsInv, Stored
<1>11. row # op.row
  BY <1>2, <1>a DEF OrderInv
<1>12. \A i, j \in DOMAIN order' : order'[i] = order'[j] => i = j
  BY <1>4, <1>5 DEF OrderInv
<1>13. \A i \in DOMAIN order' : hpc'[order'[i]] \in PendingPcs
  <2>1. \A i \in DOMAIN order : hpc'[order'[i]] \in PendingPcs
    BY <1>1, <1>4, <1>5, <1>a DEF OrderInv, Threads, Commands
  <2>2. hpc'[p] \in PendingPcs
    BY <1>1, <1>a DEF PendingPcs
  <2> QED
    BY <1>4, <2>1, <2>2
<1>14. \A r \in Users' : \A m \in Carries(r) : \E i \in DOMAIN order' : order'[i] = m
  <2>1. \A r \in Users : \A m \in Carries(r) : \E i \in DOMAIN order : order[i] = m
    BY DEF OrderInv
  <2>2. \A r \in Users : \A m \in Carries(r) : \E i \in DOMAIN order' : order'[i] = m
    BY <1>4, <2>1
  <2>3. Len(order) + 1 \in DOMAIN order'
    BY <1>4
  <2> QED
    BY <1>3, <1>4, <1>8, <2>2, <2>3
<1>15. \A r \in Users' : Ascending(r)'
  BY <1>3, <1>6, <1>8 DEF OrderInv, Ascending
<1>16. ASSUME NEW r \in Users', NEW s \in Users', r # s, Earlier(r, s)',
              NEW m \in Carries(r), NEW n \in Carries(s)
       PROVE  Before(m, n)'
  <2>1. CASE s = row
    <3>1. r \in Users /\ n = p
      BY <1>3, <1>8, <1>16, <2>1
    <3>2. PICK i \in DOMAIN order : order[i] = m
      BY <1>16, <3>1 DEF OrderInv
    <3> QED
      BY <1>4, <1>7, <3>1, <3>2 DEF Before
  <2>2. CASE s # row /\ r = row
    <3>1. row.id < s.id /\ s \in Users
      BY <1>1, <1>8, <1>11, <1>16, <2>2 DEF Earlier
    <3> QED
      BY <1>2, <1>9, <1>a, <3>1
  <2>3. CASE s # row /\ r # row
    <3>1. r \in Users /\ s \in Users /\ Earlier(r, s)
      BY <1>1, <1>8, <1>16, <2>3 DEF Earlier
    <3> QED
      BY <1>6, <1>16, <3>1 DEF OrderInv
  <2> QED
    BY <2>1, <2>2, <2>3
<1>17. op'.row.src = "user" => op'.row \notin Stored' /\ op'.row.id < nextId'
  BY <1>1, <1>11, <1>a DEF OrderInv, Stored
<1>18. \A r \in extra', s \in UserRows' : r.id < s.id
  <2>1. \A r \in extra : r.id < nextId
    BY DEF RowsInv, Stored
  <2> QED
    BY <1>1, <1>2, <2>1 DEF OrderInv, UserRows
<1> QED
  BY <1>12, <1>13, <1>14, <1>15, <1>16, <1>17, <1>18 DEF OrderInv
-----------------------------------------------------------------------------
(* Which steps there are.                                                  *)

\* Nothing preempts the operation of a user row.
CalmUser ==
    wpc \in HoldingPcs /\ op.row.src = "user" =>
        ~op.cancelled /\ (wpc \in PromptingPcs => current = 0)

\* The table is left alone, and so is the row in hand, which stays the
\* worker's or not.
LEMMA CalmStays ==
    ASSUME TypeInv, Registered, CalmUser, UNCHANGED <<inbox, nextId, extra>>,
           op'.row = op.row, op'.cancelled = op.cancelled,
           wpc' \in HoldingPcs => wpc \in HoldingPcs,
           wpc' \in PromptingPcs => wpc \in PromptingPcs /\ current' = current
    PROVE  CalmUser' /\ UsersLeave
<1>1. nextId \in Nat
  BY DEF TypeInv, TypeOK, InboxTypeOK
<1> QED
  BY <1>1 DEF CalmUser, UsersLeave, UserRows

\* What a worker that is not cancelled puts back is no user row.
LEMMA CalmRequeues ==
    ASSUME TypeInv, UNCHANGED <<op, extra>>, RequeueRow, op.row.src # "user",
           wpc' \notin HoldingPcs
    PROVE  CalmUser' /\ UsersLeave
<1>1. nextId \in Nat
  BY DEF TypeInv, TypeOK, InboxTypeOK
<1>2. UserRows' \subseteq UserRows /\ nextId' >= nextId
  BY <1>1 DEF RequeueRow, Insert, UserRows, inboxVars
<1> QED
  BY <1>2 DEF CalmUser, UsersLeave

LEMMA WorkUsers ==
    ASSUME TypeInv, RowsInv, Registered, CalmUser, ~shutdown, Work
    PROVE  /\ CalmUser'
           /\ \/ UsersLeave
              \/ MergeUserItems
              \/ \E r \in inbox : Dequeue(r)
              \/ \E r \in extra : Fold(r)
<1> USE DEF Moves, Work, HoldingPcs, PromptingPcs, inboxVars
<1>a. op \in Ops
  BY DEF TypeInv, TypeOK, WorkerTypeOK
<1>1. CASE DrainEnds \/ DequeueFails \/ Woken \/ Exit \/ Exited
  BY <1>1, CalmStays DEF DrainEnds, DequeueFails, Woken, Exit, Exited
<1>2. ASSUME NEW r \in inbox, Dequeue(r)
      PROVE  CalmUser'
  BY <1>2 DEF Dequeue, NoOp, CalmUser
<1>3. ASSUME MergeUserItems
      PROVE  CalmUser'
  BY <1>3 DEF MergeUserItems, CalmUser
<1>4. CASE MergeFails \/ Folded
  BY <1>4, CalmStays DEF MergeFails, Folded
<1>5. ASSUME NEW r \in extra, Fold(r)
      PROVE  CalmUser'
  BY <1>5, <1>a DEF Fold, Ops, CalmUser, RowsInv
<1>6. CASE Register
  <2>1. op'.row = op.row /\ op'.cancelled = op.cancelled /\ current' = Priority(op.row)
    BY <1>6, <1>a DEF Register, Ops
  <2>2. op.row.src = "user" => current' = 0
    BY <2>1 DEF Priority, PriorityOf
  <2>3. nextId \in Nat
    BY DEF TypeInv, TypeOK, InboxTypeOK
  <2> QED
    BY <1>6, <2>1, <2>2, <2>3 DEF Register, CalmUser, UsersLeave, UserRows
<1>7. CASE Release
  <2>1. nextId \in Nat
    BY DEF TypeInv, TypeOK, InboxTypeOK
  <2> QED
    BY <1>7, <2>1 DEF Release, NoOp, CalmUser, UsersLeave, UserRows
<1>8. CASE SkipHeartbeat \/ BeginPrompt
  BY <1>8, CalmStays DEF SkipHeartbeat, BeginPrompt
<1>9. CASE NoRoom
  <2>1. CASE op.row.src = "trigger"
    BY <1>9, <2>1, CalmRequeues DEF NoRoom
  <2>2. CASE op.row.src # "trigger"
    BY <1>9, <2>2, CalmStays DEF NoRoom
  <2> QED
    BY <2>1, <2>2
<1>10. CASE EnsurePi
  BY <1>10, <1>a, CalmStays DEF EnsurePi, Ops
<1>11. CASE SpawnFails \/ Spawn \/ Store
  BY <1>11, <1>a, CalmStays DEF SpawnFails, Spawn, Store, Ops
<1>12. CASE Send \/ SendFails \/ AwaitFails \/ Reject \/ Retry \/ Retried
  BY <1>12, <1>a, CalmStays
     DEF Send, SendFails, AwaitFails, Reject, Retry, Retried, AfterSendError, Ops
<1>13. CASE SendAbort
  BY <1>13, <1>a, CalmStays DEF SendAbort, Ops
<1>14. ASSUME NEW reply \in Replies \ {"none"}, Answer(reply)
       PROVE  CalmUser' /\ UsersLeave
  BY <1>14, <1>a, CalmStays DEF Answer, Ops
<1>15. CASE RepromptEnds \/ CompactEnds
  BY <1>15, <1>a, CalmStays DEF RepromptEnds, CompactEnds, Ops
<1>16. CASE RequeuePreempted
  <2>1. op.row.src # "user"
    BY <1>16 DEF RequeuePreempted, CtxDone, CalmUser
  <2>2. CASE op.row.src # "heartbeat"
    BY <1>16, <2>1, <2>2, CalmRequeues DEF RequeuePreempted
  <2>3. CASE op.row.src = "heartbeat"
    BY <1>16, <2>3, CalmStays DEF RequeuePreempted
  <2> QED
    BY <2>2, <2>3
<1>17. CASE FailWithoutPi \/ FailAndKill \/ FailKilled \/ Deliver
  BY <1>17, CalmStays DEF FailWithoutPi, FailAndKill, FailKilled, Deliver
<1>18. CASE TakeCompact
  BY <1>18, <1>a, CalmStays DEF TakeCompact, Ops
<1> QED
  BY <1>1, <1>2, <1>3, <1>4, <1>5, <1>6, <1>7, <1>8, <1>9, <1>10, <1>11, <1>12, <1>13,
     <1>14, <1>15, <1>16, <1>17, <1>18
     DEF WorkerStep, LoopStep, PiStep

\* The other goroutines leave the worker's hands alone, and what they insert,
\* but for a prompt, is no user row.
LEMMA OthersLeave ==
    ASSUME TypeInv, UNCHANGED <<wpc, extra>>, op'.row = op.row,
           \/ UNCHANGED inboxVars
           \/ \E src \in {"trigger", "heartbeat", "compact"} : \E body : Insert(src, body)
    PROVE  UsersLeave
<1>1. nextId \in Nat
  BY DEF TypeInv, TypeOK, InboxTypeOK
<1>2. UserRows' \subseteq UserRows /\ nextId' >= nextId
  BY <1>1 DEF Insert, UserRows, inboxVars
<1> QED
  BY <1>2 DEF UsersLeave

HandlerOutcome ==
    /\ SpentOrNot
    /\ shutdown' => shutdown \/ Spend("shutdown")
    /\ CalmUser => CalmUser'
    /\ PendingStay
    /\ (UsersLeave /\ UNCHANGED order) \/ \E p \in Prompts : EnqueuePrompt(p)

LEMMA ContinueUsers ==
    ASSUME TypeInv, Registered, Stops = {}, NEW t \in Threads, Continue(t)
    PROVE  HandlerOutcome
<1> USE SpentIsSpending DEF workerVars, inboxVars, Step
<1>a. op \in Ops /\ hpc \in [Threads -> HandlerPcs] /\ Prompts \subseteq Threads
  BY DEF TypeInv, TypeOK, WorkerTypeOK, Threads, Commands
<1>b. \A p \in Prompts : p \notin Triggers \cup Restarts \cup Compacts \cup {Ticker, Reaper}
  BY ThreadsAssumption, MessagesAssumption DEF Messages
<1>1. CASE t \in Notifiers /\ Notify(t)
  <2>1. op' = op \/ (Cancel /\ Preempts(NotifyPriority(t)))
    BY <1>1 DEF Notify, NotifyLock
  <2>2. op'.row = op.row
    BY <1>a, <2>1, CancelKeepsRow
  <2>3. CalmUser => CalmUser'
    <3>1. CASE op' = op
      BY <1>1, <3>1 DEF Notify, NotifyLock, CalmUser
    <3>2. CASE Preempts(NotifyPriority(t))
      <4>1. current # -1 /\ current # 0
        BY <3>2 DEF Preempts, NotifyPriority, PriorityOf
      <4>2. wpc \in HoldingPcs => wpc \in PromptingPcs
        BY <4>1 DEF Registered, RegisteredPcs, HoldingPcs, PromptingPcs
      <4>3. CalmUser => ~(wpc \in HoldingPcs /\ op.row.src = "user")
        BY <4>1, <4>2 DEF CalmUser
      <4> QED
        BY <1>1, <2>2, <4>3 DEF Notify, NotifyLock, CalmUser
    <3> QED
      BY <2>1, <3>1, <3>2
  <2>4. PendingStay
    BY <1>1, <1>a DEF Notify, PendingStay, PendingPcs
  <2> QED
    BY <1>1, <2>2, <2>3, <2>4, OthersLeave DEF Notify, NotifyLock, HandlerOutcome
<1>2. CASE t \in Notifiers /\ Wake(t)
  <2>1. PendingStay
    BY <1>2, <1>a, <1>b DEF Wake, AfterNotify, PendingStay, PendingPcs
  <2> QED
    BY <1>2, <2>1, OthersLeave DEF Wake, NotifyWake, HandlerOutcome, CalmUser
<1>3. CASE t \in Prompts /\ EnqueuePrompt(t)
  <2>1. PendingStay
    BY <1>3, <1>a DEF EnqueuePrompt, PendingStay, PendingPcs
  <2> QED
    BY <1>3, <2>1 DEF EnqueuePrompt, HandlerOutcome, CalmUser
<1>4. CASE t \in Prompts /\ RefusePrompt(t)
  <2>1. PendingStay
    BY <1>4, <1>a DEF RefusePrompt, PendingStay, PendingPcs
  <2> QED
    BY <1>4, <2>1, OthersLeave DEF RefusePrompt, HandlerOutcome, CalmUser
<1>5. CASE t \in Restarts /\ (RestartStop(t) \/ RestartDone(t))
  <2>1. PendingStay
    BY <1>5, <1>a, <1>b DEF RestartStop, RestartDone, PendingStay
  <2> QED
    BY <1>5, <2>1, OthersLeave DEF RestartStop, RestartDone, HandlerOutcome, CalmUser
<1>6. CASE t \in Compacts /\ EnqueueCompact(t)
  <2>1. PendingStay
    BY <1>6, <1>a, <1>b DEF EnqueueCompact, PendingStay
  <2> QED
    BY <1>6, <2>1, OthersLeave DEF EnqueueCompact, HandlerOutcome, CalmUser
<1>7. CASE t \in Compacts /\ (ClaimSlot(t) \/ RefuseCompact(t) \/ CompactReturns(t))
  <2>1. PendingStay
    BY <1>7, <1>a, <1>b DEF ClaimSlot, RefuseCompact, CompactReturns, PendingStay
  <2> QED
    BY <1>7, <2>1, OthersLeave
       DEF ClaimSlot, RefuseCompact, CompactReturns, HandlerOutcome, CalmUser
<1>8. CASE t = Reaper /\ (ReaperStop \/ ReaperDone)
  <2>1. PendingStay
    BY <1>8, <1>a, <1>b DEF ReaperStop, ReaperDone, PendingStay
  <2> QED
    BY <1>8, <2>1, OthersLeave DEF ReaperStop, ReaperDone, HandlerOutcome, CalmUser
<1> QED
  BY <1>1, <1>2, <1>3, <1>4, <1>5, <1>6, <1>7, <1>8 DEF Continue

\* A goroutine that begins, or a trigger, is nobody's pending prompt.
LEMMA BeginStays ==
    ASSUME TypeInv, NEW t, NEW to, hpc' = [hpc EXCEPT ![t] = to], t \in Prompts => hpc[t] = "new"
    PROVE  PendingStay
<1>1. hpc \in [Threads -> HandlerPcs] /\ Prompts \subseteq Threads
  BY DEF TypeInv, TypeOK, Threads, Commands
<1> QED
  BY <1>1 DEF PendingStay, PendingPcs

LEMMA ArriveUsers ==
    ASSUME TypeInv, Stops = {}, Arrive \/ Rest \/ UNCHANGED vars
    PROVE  HandlerOutcome
<1> USE SpentIsSpending DEF workerVars, handlerVars, inboxVars, Step, Faults
<1>b. \A t \in Triggers \cup Restarts \cup Compacts \cup {Ticker, Reaper} : t \notin Prompts
  BY ThreadsAssumption, MessagesAssumption DEF Messages
<1>1. ASSUME NEW p \in Prompts, SetRoomID(p)
      PROVE  HandlerOutcome
  <2>1. PendingStay
    BY <1>1, BeginStays DEF SetRoomID, Begin
  <2> QED
    BY <1>1, <2>1, OthersLeave DEF SetRoomID, HandlerOutcome, CalmUser
<1>2. ASSUME NEW t \in Triggers, EnqueueTrigger(t) \/ RefuseTrigger(t)
      PROVE  HandlerOutcome
  <2>1. PendingStay
    BY <1>2, <1>b, BeginStays DEF EnqueueTrigger, RefuseTrigger
  <2> QED
    BY <1>2, <2>1, OthersLeave DEF EnqueueTrigger, RefuseTrigger, HandlerOutcome, CalmUser
<1>3. ASSUME NEW h \in Restarts, RestartFlag(h)
      PROVE  HandlerOutcome
  <2>1. PendingStay
    BY <1>3, <1>b, BeginStays DEF RestartFlag, Begin
  <2> QED
    BY <1>3, <2>1, OthersLeave DEF RestartFlag, HandlerOutcome, CalmUser
<1>4. ASSUME NEW c \in Compacts, CompactActive(c)
      PROVE  HandlerOutcome
  <2>1. PendingStay
    BY <1>4, <1>b, BeginStays DEF CompactActive, Begin
  <2> QED
    BY <1>4, <2>1, OthersLeave DEF CompactActive, HandlerOutcome, CalmUser
<1>5. CASE Tick \/ ReaperCheck
  <2>1. PendingStay
    BY <1>5, <1>b, BeginStays DEF Tick, ReaperCheck
  <2> QED
    BY <1>5, <2>1, OthersLeave DEF Tick, ReaperCheck, HandlerOutcome, CalmUser
<1>6. CASE TimePasses \/ PiExits \/ Shutdown \/ Rest \/ UNCHANGED vars
  <2>1. PendingStay
    BY <1>6 DEF TimePasses, PiExits, Shutdown, Rest, vars, PendingStay
  <2>2. SpentOrNot /\ (shutdown' => shutdown \/ Spend("shutdown"))
    BY <1>6 DEF TimePasses, PiExits, Shutdown, Rest, vars
  <2>3. UsersLeave /\ UNCHANGED order /\ (CalmUser => CalmUser')
    BY <1>6, OthersLeave DEF TimePasses, PiExits, Shutdown, Rest, vars, CalmUser
  <2> QED
    BY <2>1, <2>2, <2>3 DEF HandlerOutcome
<1> QED
  BY <1>1, <1>2, <1>3, <1>4, <1>5, <1>6 DEF Arrive
-----------------------------------------------------------------------------
\* Once a shutdown has begun, here or in an earlier process, nothing is said.
Undisturbed ==
    /\ budget["shutdown"] <= Budget["shutdown"]
    /\ shutdown => budget["shutdown"] < Budget["shutdown"]
    /\ budget["shutdown"] = Budget["shutdown"] => CalmUser /\ OrderInv

LifeOrderInv == LifeInv /\ Registered /\ Undisturbed

\* The budget only falls.
LEMMA BudgetFalls ==
    ASSUME TypeInv, SpentOrNot
    PROVE  /\ budget["shutdown"] \in Nat /\ Budget["shutdown"] \in Nat
           /\ budget'["shutdown"] \in Nat /\ budget'["shutdown"] <= budget["shutdown"]
           /\ Spend("shutdown") => budget'["shutdown"] < budget["shutdown"]
<1>1. budget \in [Faults -> Nat] /\ Budget \in [Faults -> Nat] /\ "shutdown" \in Faults
  BY BudgetAssumption DEF TypeInv, TypeOK, PiSlotTypeOK, Faults
<1>2. CASE UNCHANGED budget
  BY <1>1, <1>2 DEF Spend
<1>3. ASSUME NEW kind \in Faults, Spend(kind)
      PROVE  budget'["shutdown"] \in Nat /\ budget'["shutdown"] <= budget["shutdown"]
  BY <1>1, <1>3 DEF Spend
<1>4. Spend("shutdown") => budget'["shutdown"] < budget["shutdown"]
  BY <1>1 DEF Spend
<1> QED
  BY <1>1, <1>2, <1>3, <1>4 DEF SpentOrNot

LEMMA UndisturbedStep ==
    ASSUME TypeInv, Undisturbed, SpentOrNot, shutdown' => shutdown \/ Spend("shutdown"),
           ~shutdown /\ CalmUser /\ OrderInv => CalmUser' /\ OrderInv'
    PROVE  Undisturbed'
BY BudgetFalls DEF Undisturbed

LEMMA BotOrder ==
    ASSUME Stops = {}, LifeOrderInv, Next \/ UNCHANGED vars
    PROVE  Undisturbed' /\ Registered'
<1>a. /\ TypeInv /\ RowsInv /\ Registered /\ RegisteredInv /\ Undisturbed
      /\ TypeInv' /\ RowsInv'
  BY NextType, NextRows DEF LifeOrderInv, LifeInv, KeepsInv, MessagesInv, RegisteredInv
<1>n. nextId' \in Nat
  BY <1>a DEF TypeInv, TypeOK, InboxTypeOK
<1>1. Registered'
  BY <1>a, WorkRegistered, HandlerRegistered, ArriveRegistered DEF Next
<1>2. CASE Work
  <2>1. SpentOrNot /\ UNCHANGED <<shutdown, order, hpc>>
    BY <1>2, WorkFrugal
  <2>2. PendingStay
    BY <2>1 DEF PendingStay
  <2>3. ASSUME ~shutdown, CalmUser, OrderInv
        PROVE  CalmUser' /\ OrderInv'
    <3>1. /\ CalmUser'
          /\ \/ UsersLeave
             \/ MergeUserItems
             \/ \E r \in inbox : Dequeue(r)
             \/ \E r \in extra : Fold(r)
      BY <1>a, <1>2, <2>3, WorkUsers
    <3> QED
      BY <1>a, <1>n, <2>1, <2>2, <2>3, <3>1, OrderLeaves, OrderMerges, OrderDequeues, OrderFolds
  <2> QED
    BY <1>a, <1>1, <2>1, <2>3, UndisturbedStep
<1>3. CASE ~Work
  <2>1. HandlerOutcome
    BY <1>a, <1>3, ContinueUsers, ArriveUsers DEF Next
  <2>2. OrderInv => OrderInv'
    BY <1>a, <1>n, <2>1, OrderLeaves, OrderGains DEF HandlerOutcome
  <2> QED
    BY <1>a, <1>1, <2>1, <2>2, UndisturbedStep DEF HandlerOutcome
<1> QED
  BY <1>2, <1>3

\* The dispatcher's own steps, but for Enqueue.
LEMMA DispatchOrder ==
    ASSUME LifeOrderInv, NEW t \in Reminders, EnqueueFails(t) \/ Reinsert(t) \/ ReinsertFails(t)
    PROVE  Undisturbed' /\ Registered'
<1>a. TypeInv /\ RowsInv /\ Registered /\ Undisturbed
  BY DEF LifeOrderInv, LifeInv, KeepsInv, MessagesInv
<1>1. /\ UNCHANGED <<inboxVars, wpc, op, extra, current, shutdown, order, holds>>
      /\ SpentOrNot
      /\ \E to : hpc' = [hpc EXCEPT ![t] = to]
  BY FaultIsSpending
     DEF EnqueueFails, Reinsert, ReinsertFails, Step, workerVars, SpentOrNot
<1>2. PendingStay
  <2>1. t \notin Prompts
    BY RemindersAssumption, MessagesAssumption
  <2> QED
    BY <1>a, <1>1, <2>1, BeginStays
<1>3. UsersLeave
  BY <1>a, <1>1, OthersLeave
<1>4. OrderInv => OrderInv'
  BY <1>a, <1>1, <1>2, <1>3, OrderLeaves DEF TypeInv, TypeOK, InboxTypeOK, inboxVars
<1>5. CalmUser => CalmUser'
  BY <1>1 DEF CalmUser
<1>6. Registered'
  BY <1>a, <1>1 DEF Registered
<1> QED
  BY <1>a, <1>1, <1>4, <1>5, <1>6, UndisturbedStep

LEMMA NewProcessOrder ==
    ASSUME LifeOrderInv, NewProcess
    PROVE  Undisturbed' /\ Registered'
<1>a. TypeInv /\ RowsInv /\ Undisturbed
  BY DEF LifeOrderInv, LifeInv, KeepsInv, MessagesInv
<1>1. /\ inbox' \subseteq inbox /\ UNCHANGED <<nextId, order, budget>> /\ extra' = {}
      /\ wpc' = "drain" /\ op' = NoOp /\ current' = -1 /\ holds' = {} /\ shutdown' = FALSE
  BY DEF NewProcess, KeptRows
<1>2. UsersLeave
  BY <1>a, <1>1 DEF UsersLeave, UserRows, HoldingPcs, NoOp, TypeInv, TypeOK, InboxTypeOK
<1>3. PendingStay
  <2>1. \A p \in Prompts : hpc'[p] \in {"new", "done"} /\ (hpc[p] # "new" => hpc'[p] = "done")
    BY ThreadsAssumption DEF NewProcess, Threads, Commands, Messages
  <2> QED
    BY <2>1 DEF PendingStay, PendingPcs
<1>4. OrderInv => OrderInv'
  BY <1>a, <1>1, <1>2, <1>3, OrderLeaves DEF TypeInv, TypeOK, InboxTypeOK
<1>5. CalmUser'
  BY <1>1 DEF CalmUser, HoldingPcs
<1>6. Registered'
  BY <1>1 DEF Registered, RegisteredPcs, HoldingPcs, NoOp
<1> QED
  BY <1>a, <1>1, <1>4, <1>5, <1>6, UndisturbedStep DEF SpentOrNot

\* Where nobody sends !stop, the conversation reaches pi in the order it was
\* accepted, through merging, retries, faults and crashes, until a shutdown.
THEOREM ConversationInOrder ==
    ASSUME Stops = {}
    PROVE  LifecycleSpec => []OrderUntilShutdown
<1>1. LifecycleInit => LifeOrderInv
  <2> SUFFICES ASSUME LifecycleInit
               PROVE  LifeOrderInv
    OBVIOUS
  <2>1. LifeInv
    BY LifecycleStart
  <2>2. Registered
    BY DEF LifecycleInit, Init, WorkerInit, Registered, RegisteredPcs, HoldingPcs, NoOp
  <2>3. CalmUser /\ OrderInv
    <3>1. Live = {} /\ extra = {} /\ order = <<>> /\ op = NoOp /\ wpc = "drain"
      BY DEF LifecycleInit, Init, InboxInit, WorkerInit, Live, HoldingPcs
    <3>2. Users = {}
      BY <3>1 DEF Users
    <3> QED
      BY <3>1, <3>2 DEF CalmUser, OrderInv, HoldingPcs, NoOp, NoRow
  <2>4. Undisturbed
    <3>1. budget = Budget /\ ~shutdown /\ Budget["shutdown"] \in Nat
      BY BudgetAssumption DEF LifecycleInit, Init, PiSlotInit, WorkerInit, Faults
    <3> QED
      BY <2>3, <3>1 DEF Undisturbed
  <2> QED
    BY <2>1, <2>2, <2>4 DEF LifeOrderInv
<1>2. LifeOrderInv /\ [LifecycleNext]_allVars => LifeOrderInv'
  <2> SUFFICES ASSUME LifeOrderInv, [LifecycleNext]_allVars
               PROVE  LifeOrderInv'
    OBVIOUS
  <2>1. LifeInv'
    BY LifecycleKept DEF LifeOrderInv
  <2>2. Undisturbed' /\ Registered'
    <3>1. CASE Bot \/ DueReminders \/ UNCHANGED allVars
      BY <3>1, BotOrder DEF Bot, DueReminders, allVars
    <3>2. ASSUME NEW t \in Reminders, EnqueueReminder(t)
          PROVE  Undisturbed' /\ Registered'
      BY <3>2, RemindersAssumption, BotOrder DEF EnqueueReminder, Next, Arrive
    <3>3. ASSUME NEW t \in Reminders, EnqueueFails(t) \/ Reinsert(t) \/ ReinsertFails(t)
          PROVE  Undisturbed' /\ Registered'
      BY <3>3, DispatchOrder
    <3>4. CASE Crash \/ Restart
      BY <3>4, NewProcessOrder DEF Crash, Restart
    <3> QED
      BY <3>1, <3>2, <3>3, <3>4 DEF LifecycleNext, Dispatch
  <2> QED
    BY <2>1, <2>2 DEF LifeOrderInv
<1>3. LifeOrderInv => OrderUntilShutdown
  BY OrderIsUserOrder
     DEF LifeOrderInv, LifeInv, KeepsInv, MessagesInv, Undisturbed, OrderUntilShutdown
<1> QED
  BY <1>1, <1>2, <1>3, PTL DEF LifecycleSpec
=============================================================================
