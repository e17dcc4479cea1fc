--------------------------- MODULE MatrixBackend -----------------------------
(***************************************************************************)
(* Rooms: the Matrix backend (matrix/backend.go) with what App and Worker  *)
(* do with the room of a message.  Every event has a goroutine of its own. *)
(* The backend keeps the active room, which decides on invites; the worker *)
(* keeps the room it answers in, which any message sets, and StartPi       *)
(* writes it to .room_id for the next process.                             *)
(*                                                                         *)
(* A turn answers all messages in the inbox.  The homeserver, and the      *)
(* person the bot talks to in each room, are the environment.              *)
(***************************************************************************)
EXTENDS Naturals, Sequences, FiniteSets

CONSTANTS
    Rooms, NoRoom,
    Prompts, Resets,    \* messages; a reset is !restart
    RoomOf,             \* the room of each message
    MaxEvents,          \* bound: invites, removals and departures
    MaxCrashes          \* bound

Messages == Prompts \cup Resets

ASSUME RoomsAssumption ==
    /\ NoRoom \notin Rooms
    /\ Prompts \cap Resets = {}
    /\ RoomOf \in [Messages -> Rooms]
    /\ MaxEvents \in Nat /\ MaxCrashes \in Nat

VARIABLES
    inRoom,     \* the rooms the bot is a member of
    peer,       \* the rooms with somebody else in them
    synced,     \* initialSynced: the first sync ever is over; later processes
                \* go on from where it ended
    activeRoom,
    invited, removed, left,     \* per room: the goroutine of such an event
    hpc,        \* per message: its goroutine
    inbox,
    room,       \* worker.roomID
    roomFile,
    piUp,
    wpc, turn, conv,    \* the worker, the messages of its turn, and convID
    events, crashes,
    log,        \* the prompts of this process in the order of SetRoomID
    overwritten, \* resolveRoomID has replaced the room of such a prompt
    overtaken   \* rooms whose clean-up met a goroutine of the room
                \* (these three: history)

serverVars == <<inRoom, peer, events>>
backendVars == <<synced, activeRoom, invited, removed, left, overtaken>>
workerVars == <<room, roomFile, piUp, wpc, turn, conv>>
logVars == <<log, overwritten>>
vars == <<serverVars, backendVars, hpc, inbox, workerVars, crashes, logVars>>

SomeRoom == Rooms \cup {NoRoom}

TypeOK ==
    /\ inRoom \subseteq Rooms /\ peer \subseteq Rooms
    /\ synced \in BOOLEAN /\ activeRoom \in SomeRoom
    /\ invited \in [Rooms -> {"none", "check", "join", "store"}]
    /\ removed \in [Rooms -> {"none", "cleanup", "session"}]
    /\ left \in [Rooms -> {"none", "members", "leave", "cleanup", "session"}]
    /\ hpc \in [Messages -> {"new", "track", "handle", "enqueue", "restart",
                            "done"}]
    /\ inbox \in Seq(Prompts)
    /\ room \in SomeRoom /\ roomFile \in SomeRoom /\ conv \in SomeRoom
    /\ piUp \in BOOLEAN
    /\ wpc \in {"idle", "resolve", "store", "ensure", "turn"}
    /\ turn \in Seq(Prompts)
    /\ events \in 0..MaxEvents /\ crashes \in 0..MaxCrashes
    /\ log \in Seq(Prompts) /\ overwritten \in BOOLEAN
    /\ overtaken \subseteq Rooms

Init ==
    /\ inRoom \in SUBSET Rooms /\ peer = Rooms /\ events = 0
    /\ synced = FALSE /\ activeRoom = NoRoom
    /\ invited = [r \in Rooms |-> "none"]
    /\ removed = [r \in Rooms |-> "none"] /\ left = [r \in Rooms |-> "none"]
    /\ overtaken = {}
    /\ hpc = [m \in Messages |-> "new"]
    /\ inbox = <<>>
    /\ room = NoRoom /\ roomFile \in SomeRoom /\ piUp = FALSE
    /\ wpc = "idle" /\ turn = <<>> /\ conv = NoRoom
    /\ crashes = 0 /\ log = <<>> /\ overwritten = FALSE
-----------------------------------------------------------------------------
(* The homeserver and people.  What happens before the first full sync is  *)
(* not handled.                                                            *)

Sync ==
    /\ ~synced /\ synced' = TRUE
    /\ UNCHANGED <<serverVars, activeRoom, invited, removed, left, overtaken,
                   hpc, inbox, workerVars, crashes, logVars>>

Event == events < MaxEvents /\ events' = events + 1

\* Somebody on the list of allowed users invites the bot.
Invite(r) ==
    /\ Event /\ r \notin inRoom /\ invited[r] = "none"
    /\ peer' = peer \cup {r}
    /\ invited' = IF synced THEN [invited EXCEPT ![r] = "check"] ELSE invited
    /\ UNCHANGED <<inRoom, synced, activeRoom, removed, left, overtaken, hpc,
                   inbox, workerVars, crashes, logVars>>

\* The bot is kicked or banned ...
Remove(r) ==
    /\ Event /\ r \in inRoom /\ removed[r] = "none"
    /\ inRoom' = inRoom \ {r}
    /\ removed' = IF synced THEN [removed EXCEPT ![r] = "cleanup"] ELSE removed
    /\ UNCHANGED <<peer, synced, activeRoom, invited, left, overtaken, hpc,
                   inbox, workerVars, crashes, logVars>>

\* ... or somebody else leaves.
PeerLeaves(r) ==
    /\ Event /\ r \in inRoom \cap peer /\ left[r] = "none"
    /\ peer' = peer \ {r}
    /\ left' = IF synced THEN [left EXCEPT ![r] = "members"] ELSE left
    /\ UNCHANGED <<inRoom, synced, activeRoom, invited, removed, overtaken,
                   hpc, inbox, workerVars, crashes, logVars>>

Handler(m, from, to) == hpc[m] = from /\ hpc' = [hpc EXCEPT ![m] = to]

\* A message in a room of the bot; filterMessage lets it through.
Send(m) ==
    /\ RoomOf[m] \in inRoom \cap peer
    /\ Handler(m, "new", IF synced THEN "track" ELSE "done")
    /\ UNCHANGED <<serverVars, backendVars, inbox, workerVars, crashes,
                   logVars>>
-----------------------------------------------------------------------------
(* handleInvite: the check, the join and the assignment are separate.      *)

InviteStep(r, from, to) == invited[r] = from /\ invited' = [invited EXCEPT ![r] = to]

CheckInvite(r) ==
    /\ InviteStep(r, "check", IF activeRoom = NoRoom THEN "join" ELSE "none")
    /\ UNCHANGED <<serverVars, synced, activeRoom, removed, left, overtaken,
                   hpc, inbox, workerVars, crashes, logVars>>

JoinRoom(r) ==
    /\ InviteStep(r, "join", "store")
    /\ inRoom' = inRoom \cup {r}
    /\ UNCHANGED <<peer, events, synced, activeRoom, removed, left, overtaken,
                   hpc, inbox, workerVars, crashes, logVars>>

JoinFails(r) ==
    /\ InviteStep(r, "join", "none")
    /\ UNCHANGED <<serverVars, synced, activeRoom, removed, left, overtaken,
                   hpc, inbox, workerVars, crashes, logVars>>

StoreActive(r) ==
    /\ InviteStep(r, "store", "none")
    /\ activeRoom' = r
    /\ UNCHANGED <<serverVars, synced, removed, left, overtaken, hpc, inbox,
                   workerVars, crashes, logVars>>
-----------------------------------------------------------------------------
(* handleLeave and cleanupRoom.                                            *)

\* JoinedMembers, which may fail.
QueryMembers(r) ==
    /\ left[r] = "members"
    /\ left' = [left EXCEPT ![r] = IF r \in inRoom /\ r \notin peer THEN "leave" ELSE "none"]
    /\ UNCHANGED <<serverVars, synced, activeRoom, invited, removed, overtaken,
                   hpc, inbox, workerVars, crashes, logVars>>

QueryFails(r) ==
    /\ left[r] = "members"
    /\ left' = [left EXCEPT ![r] = "none"]
    /\ UNCHANGED <<serverVars, synced, activeRoom, invited, removed, overtaken,
                   hpc, inbox, workerVars, crashes, logVars>>

\* LeaveRoom, which comes back as an event like a removal; a failure is logged.
LeaveRoom(r) ==
    /\ left[r] = "leave"
    /\ left' = [left EXCEPT ![r] = "cleanup"]
    /\ \/ /\ r \in inRoom /\ removed[r] = "none"
          /\ inRoom' = inRoom \ {r}
          /\ removed' = [removed EXCEPT ![r] = "cleanup"]
       \/ UNCHANGED <<inRoom, removed>>
    /\ UNCHANGED <<peer, events, synced, activeRoom, invited, overtaken, hpc,
                   inbox, workerVars, crashes, logVars>>

\* Mutant: the room stays the active one.
FreedNever(r) == activeRoom

Freed(r) == IF activeRoom = r THEN NoRoom ELSE activeRoom

InProgress(r) ==
    invited[r] # "none" \/ \E m \in Messages : RoomOf[m] = r /\ hpc[m] = "track"

\* A handler of a removal or a departure that is in cleanupRoom.
CleanupStep(r, from, to) ==
    \/ removed[r] = from /\ removed' = [removed EXCEPT ![r] = to] /\ UNCHANGED left
    \/ left[r] = from /\ left' = [left EXCEPT ![r] = to] /\ UNCHANGED removed

Cleanup(r) ==
    /\ CleanupStep(r, "cleanup", "session")
    /\ activeRoom' = Freed(r)
    /\ overtaken' = IF InProgress(r) THEN overtaken \cup {r} ELSE overtaken
    /\ UNCHANGED <<serverVars, synced, invited, hpc, inbox, workerVars, crashes,
                   logVars>>

\* onRoomCleanup restarts the worker's session, whichever room it is.
OnRoomCleanup(r) ==
    /\ CleanupStep(r, "session", "none")
    /\ piUp' = FALSE
    /\ UNCHANGED <<serverVars, synced, activeRoom, invited, overtaken, hpc,
                   inbox, room, roomFile, wpc, turn, conv, crashes, logVars>>
-----------------------------------------------------------------------------
(* handleMessage, and App.HandleMessage.                                   *)

TrackRoom(m) ==
    /\ Handler(m, "track", "handle")
    /\ activeRoom' = IF activeRoom = NoRoom THEN RoomOf[m] ELSE activeRoom
    /\ UNCHANGED <<serverVars, synced, invited, removed, left, overtaken,
                   inbox, workerVars, crashes, logVars>>

\* "!verify", or an attachment that could not be downloaded.
NotForTheApp(m) ==
    /\ Handler(m, "handle", "done")
    /\ UNCHANGED <<serverVars, backendVars, inbox, workerVars, crashes,
                   logVars>>

SetRoomID(m, from, to) ==
    /\ Handler(m, from, to)
    /\ room' = RoomOf[m] /\ log' = Append(log, m)
    /\ UNCHANGED <<serverVars, backendVars, inbox, roomFile, piUp, wpc, turn,
                   conv, crashes, overwritten>>

Enqueue(m, from, to) ==
    /\ Handler(m, from, to)
    /\ inbox' = Append(inbox, m)
    /\ UNCHANGED <<serverVars, backendVars, workerVars, crashes, logVars>>

\* Mutant: the row first, then the room.
HandlePromptLate(m) ==
    \/ Enqueue(m, "handle", "enqueue")
    \/ SetRoomID(m, "enqueue", "done")

\* handlePrompt: the room, then the row.
HandlePrompt(m) ==
    \/ SetRoomID(m, "handle", "enqueue")
    \/ Enqueue(m, "enqueue", "done")

\* handleRestart.
ResetConversation(m) ==
    /\ Handler(m, "handle", "restart")
    /\ activeRoom' = Freed(RoomOf[m])
    /\ UNCHANGED <<serverVars, synced, invited, removed, left, overtaken,
                   inbox, workerVars, crashes, logVars>>

\* Mutant: after the command the message is treated as a prompt, too.
RestartSessionAndPrompt(m) ==
    /\ Handler(m, "restart", "done")
    /\ piUp' = FALSE
    /\ inbox' = Append(inbox, m)
    /\ UNCHANGED <<serverVars, backendVars, room, roomFile, wpc, turn, conv,
                   crashes, logVars>>

RestartSession(m) ==
    /\ Handler(m, "restart", "done")
    /\ piUp' = FALSE
    /\ UNCHANGED <<serverVars, backendVars, inbox, room, roomFile, wpc, turn,
                   conv, crashes, logVars>>
-----------------------------------------------------------------------------
(* The worker.                                                             *)

Idle == wpc' = "idle" /\ turn' = <<>> /\ conv' = NoRoom

\* Dequeue and merge.
Take ==
    /\ wpc = "idle" /\ inbox # <<>>
    /\ wpc' = "resolve" /\ turn' = inbox /\ inbox' = <<>>
    /\ UNCHANGED <<serverVars, backendVars, hpc, room, roomFile, piUp, conv,
                   crashes, logVars>>

\* resolveRoomID: the room in memory, or the one in the file, which it then
\* stores, whatever is there by then; without any the messages are dropped.
Resolve ==
    /\ wpc = "resolve"
    /\ \/ room # NoRoom /\ wpc' = "ensure" /\ conv' = room /\ UNCHANGED turn
       \/ room = NoRoom /\ roomFile # NoRoom /\ wpc' = "store" /\ conv' = roomFile /\ UNCHANGED turn
       \/ room = NoRoom /\ roomFile = NoRoom /\ Idle
    /\ UNCHANGED <<serverVars, backendVars, hpc, inbox, room, roomFile, piUp,
                   crashes, logVars>>

StoreRoom ==
    /\ wpc = "store" /\ wpc' = "ensure"
    /\ room' = conv
    /\ overwritten' = (overwritten \/ room # NoRoom)
    /\ UNCHANGED <<serverVars, backendVars, hpc, inbox, roomFile, piUp, turn,
                   conv, crashes, log>>

\* ensurePi: StartPi writes the room, which is resolved once more.
EnsurePi ==
    /\ wpc = "ensure" /\ wpc' = "turn"
    /\ piUp' = TRUE
    /\ roomFile' = IF piUp THEN roomFile ELSE room
    /\ UNCHANGED <<serverVars, backendVars, hpc, inbox, room, turn, conv,
                   crashes, logVars>>

\* pi was killed: sendWithRetry starts another one.
Retry ==
    /\ wpc = "turn" /\ ~piUp
    /\ wpc' = "ensure"
    /\ UNCHANGED <<serverVars, backendVars, hpc, inbox, room, roomFile, piUp,
                   turn, conv, crashes, logVars>>

\* The reply goes to convID, whether the bot is there or not.
Reply ==
    /\ wpc = "turn" /\ piUp
    /\ Idle
    /\ UNCHANGED <<serverVars, backendVars, hpc, inbox, room, roomFile, piUp,
                   crashes, logVars>>

\* The process ends between any two steps, and the next one starts.
Crash ==
    /\ crashes < MaxCrashes /\ crashes' = crashes + 1
    /\ activeRoom' = NoRoom
    /\ invited' = [r \in Rooms |-> "none"]
    /\ removed' = [r \in Rooms |-> "none"] /\ left' = [r \in Rooms |-> "none"]
    /\ hpc' = [m \in Messages |-> IF hpc[m] = "new" THEN "new" ELSE "done"]
    /\ room' = NoRoom /\ piUp' = FALSE
    /\ Idle
    /\ log' = <<>> /\ overwritten' = FALSE
    /\ UNCHANGED <<serverVars, synced, overtaken, inbox, roomFile>>
-----------------------------------------------------------------------------
Membership(r) ==
    \/ Invite(r) \/ Remove(r) \/ PeerLeaves(r)
    \/ CheckInvite(r) \/ JoinRoom(r) \/ JoinFails(r) \/ StoreActive(r)
    \/ QueryMembers(r) \/ QueryFails(r) \/ LeaveRoom(r)
    \/ Cleanup(r) \/ OnRoomCleanup(r)

Reset(m) == ResetConversation(m) \/ RestartSession(m)

Work == Take \/ Resolve \/ StoreRoom \/ EnsurePi \/ Retry \/ Reply

Next ==
    \/ Sync \/ Crash \/ Work
    \/ \E r \in Rooms : Membership(r)
    \/ \E m \in Messages : Send(m) \/ TrackRoom(m)
    \/ \E m \in Prompts : NotForTheApp(m) \/ HandlePrompt(m)
    \/ \E m \in Resets : Reset(m)

Spec == Init /\ [][Next]_vars
-----------------------------------------------------------------------------
(* Properties.                                                             *)

After(m) == {log[j] : j \in {k \in DOMAIN log : \A i \in DOMAIN log : log[i] = m => i <= k}}

\* A turn answers in the room of the last of its prompts, or of one that came
\* after it: never in a room the conversation had moved on from.  (Prompts of
\* an earlier process are answered in the room of the file; resolveRoomID
\* may put that one in the place of a newer.)
NeverBehind ==
    wpc \in {"ensure", "turn"} /\ ~overwritten =>
        \A i \in DOMAIN turn, j \in DOMAIN log :
            log[j] = turn[i] => \E m \in After(turn[i]) : RoomOf[m] = conv

Quiet ==
    /\ \A r \in Rooms : invited[r] = "none" /\ removed[r] = "none" /\ left[r] = "none"
    /\ \A m \in Messages : hpc[m] # "track"

\* A bot that was removed from its active room is free to follow an invite,
\* unless the clean-up was overtaken by an invite to the room or a message in
\* it that were still being handled.
LeftRoomFreed ==
    Quiet /\ activeRoom # NoRoom => activeRoom \in inRoom \cup overtaken
=============================================================================
