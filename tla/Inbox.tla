------------------------------- MODULE Inbox --------------------------------
(***************************************************************************)
(* The persistent inbox (inbox.go over the `inbox` table of opencrow.db).  *)
(*                                                                         *)
(* The table is a set of rows.  A row carries the messages it stands for   *)
(* instead of their text: a user row holds the prompts merged into it in   *)
(* the order of the text, a trigger row holds one trigger, heartbeat and   *)
(* compact rows are markers without content.  Every operator below is one  *)
(* SQL statement, hence one atomic step.                                   *)
(***************************************************************************)
EXTENDS Integers, Sequences, FiniteSets

CONSTANTS
    Prompts,    \* messages of the chat user
    Triggers    \* lines of the trigger pipe and due reminders

ASSUME MessagesAssumption == Prompts \cap Triggers = {}

VARIABLES
    inbox,      \* the rows of the table
    nextId      \* the next AUTOINCREMENT id, never reused

inboxVars == <<inbox, nextId>>

Messages == Prompts \cup Triggers

Sources == {"user", "trigger", "heartbeat", "compact"}

\* sourceUser and sourceCompact rows are enqueued with PriorityUser.
PriorityOf == [user |-> 0, compact |-> 0, trigger |-> 1, heartbeat |-> 2]

Rows == [id : Nat, src : Sources, body : Seq(Messages)]

Priority(r) == PriorityOf[r.src]

\* The messages a row stands for.
Carries(r) == {r.body[i] : i \in DOMAIN r.body}

InboxTypeOK ==
    /\ inbox \subseteq Rows
    /\ nextId \in Nat

\* A database without rows: the state after NewInboxStore on a first start.
InboxInit ==
    /\ inbox = {}
    /\ nextId = 1
-----------------------------------------------------------------------------
\* EnqueueInbox, the statement behind Enqueue and Requeue alike: whatever was
\* dequeued before, the row comes back with a new id, behind its equals.
Insert(src, body) ==
    /\ inbox' = inbox \cup {[id |-> nextId, src |-> src, body |-> body]}
    /\ nextId' = nextId + 1

\* EnqueueHeartbeatIfEmpty: FALSE when a heartbeat row is already pending.
HeartbeatPending == \E r \in inbox : r.src = "heartbeat"

\* ORDER BY priority ASC, id ASC.
Precedes(r, s) ==
    \/ Priority(r) < Priority(s)
    \/ Priority(r) = Priority(s) /\ r.id < s.id

IsFirst(r) == r \in inbox /\ \A s \in inbox \ {r} : Precedes(r, s)

\* DequeueInbox: the first row is deleted and returned by one statement.
Remove(r) ==
    /\ IsFirst(r)
    /\ inbox' = inbox \ {r}
    /\ UNCHANGED nextId

\* DequeueUserItems: what DequeueUserBatch deletes and returns.
UserRows == {r \in inbox : r.src = "user"}

RemoveUserRows ==
    /\ inbox' = inbox \ UserRows
    /\ UNCHANGED nextId

\* The order DequeueUserBatch sorts the deleted rows in.
LowestId(rows, r) == r \in rows /\ \A s \in rows : r.id <= s.id
=============================================================================
