---------------------------- MODULE MatrixProofs -----------------------------
(***************************************************************************)
(* Theorems about the rooms of the Matrix backend, for any rooms, messages *)
(* and events and any number of crashes: the types, the room a turn        *)
(* answers in, and the active room.                                        *)
(***************************************************************************)
EXTENDS MatrixBackend, TLAPS, SequenceTheorems

-----------------------------------------------------------------------------
(* Types.                                                                  *)

HandlerStates == {"new", "track", "handle", "enqueue", "restart", "done"}

\* What the server does to memberships.
LEMMA ServerType ==
    ASSUME TypeOK, NEW r \in Rooms, Invite(r) \/ Remove(r) \/ PeerLeaves(r)
    PROVE  TypeOK'
<1>1. events' \in 0..MaxEvents
  BY RoomsAssumption DEF TypeOK, Invite, Remove, PeerLeaves, Event
<1>2. CASE Invite(r)
  BY <1>1, <1>2 DEF Invite, TypeOK, workerVars, logVars
<1>3. CASE Remove(r)
  BY <1>1, <1>3 DEF Remove, TypeOK, workerVars, logVars
<1>4. CASE PeerLeaves(r)
  BY <1>1, <1>4 DEF PeerLeaves, TypeOK, workerVars, logVars
<1> QED
  BY <1>2, <1>3, <1>4

\* The steps of an invite and of a room that is left.
LEMMA RoomType ==
    ASSUME TypeOK, NEW r \in Rooms,
           \/ CheckInvite(r) \/ JoinRoom(r) \/ JoinFails(r) \/ StoreActive(r)
           \/ QueryMembers(r) \/ QueryFails(r) \/ LeaveRoom(r)
           \/ Cleanup(r) \/ OnRoomCleanup(r)
    PROVE  TypeOK'
<1>1. CASE CheckInvite(r) \/ JoinRoom(r) \/ JoinFails(r) \/ StoreActive(r)
  BY <1>1 DEF CheckInvite, JoinRoom, JoinFails, StoreActive, InviteStep, TypeOK, SomeRoom,
              serverVars, workerVars, logVars
<1>2. CASE QueryMembers(r) \/ QueryFails(r) \/ LeaveRoom(r)
  BY <1>2 DEF QueryMembers, QueryFails, LeaveRoom, TypeOK, serverVars, workerVars, logVars
<1>3. CASE Cleanup(r) \/ OnRoomCleanup(r)
  BY <1>3 DEF Cleanup, OnRoomCleanup, CleanupStep, Freed, TypeOK, SomeRoom, serverVars,
              workerVars, logVars
<1> QED
  BY <1>1, <1>2, <1>3

\* The handlers of messages and commands.
LEMMA HandlerType ==
    ASSUME TypeOK, NEW m \in Messages,
           \/ Send(m) \/ TrackRoom(m) \/ NotForTheApp(m) \/ Reset(m)
           \/ m \in Prompts /\ HandlePrompt(m)
    PROVE  TypeOK'
<1>1. RoomOf[m] \in Rooms
  BY RoomsAssumption
<1>2. \A to \in HandlerStates : [hpc EXCEPT ![m] = to] \in [Messages -> HandlerStates]
  BY DEF TypeOK, HandlerStates
<1>3. hpc' \in [Messages -> HandlerStates]
  BY <1>2 DEF Send, TrackRoom, NotForTheApp, Reset, ResetConversation, RestartSession,
              HandlePrompt, SetRoomID, Enqueue, Handler, HandlerStates
<1>4. CASE Send(m) \/ NotForTheApp(m)
  BY <1>3, <1>4 DEF Send, NotForTheApp, TypeOK, HandlerStates, serverVars, backendVars,
                    workerVars, logVars
<1>5. CASE TrackRoom(m) \/ Reset(m)
  BY <1>1, <1>3, <1>5 DEF TrackRoom, Reset, ResetConversation, RestartSession, Freed, TypeOK,
                          HandlerStates, SomeRoom, serverVars, backendVars, workerVars, logVars
<1>6. CASE m \in Prompts /\ HandlePrompt(m)
  <2>1. Append(log, m) \in Seq(Prompts) /\ Append(inbox, m) \in Seq(Prompts)
    BY <1>6 DEF TypeOK
  <2> QED
    BY <1>1, <1>3, <1>6, <2>1 DEF HandlePrompt, SetRoomID, Enqueue, TypeOK, HandlerStates,
                                  SomeRoom, serverVars, backendVars, workerVars, logVars
<1> QED
  BY <1>4, <1>5, <1>6

\* The worker, and the sync loop.
LEMMA WorkType ==
    ASSUME TypeOK, Work \/ Sync \/ UNCHANGED vars
    PROVE  TypeOK'
<1>1. <<>> \in Seq(Prompts)
  OBVIOUS
<1>2. CASE Take \/ Resolve
  BY <1>1, <1>2 DEF Take, Resolve, Idle, TypeOK, SomeRoom, serverVars, backendVars, logVars
<1>3. CASE StoreRoom \/ EnsurePi
  BY <1>3 DEF StoreRoom, EnsurePi, TypeOK, serverVars, backendVars, logVars
<1>4. CASE Retry \/ Reply
  BY <1>1, <1>4 DEF Retry, Reply, Idle, TypeOK, SomeRoom, serverVars, backendVars, logVars
<1>5. CASE Sync \/ UNCHANGED vars
  BY <1>5 DEF Sync, vars, TypeOK, serverVars, backendVars, workerVars, logVars
<1> QED
  BY <1>2, <1>3, <1>4, <1>5 DEF Work

\* What a crash and the restart leave.
LEMMA CrashType ==
    ASSUME TypeOK, Crash
    PROVE  TypeOK'
<1>1. <<>> \in Seq(Prompts)
  OBVIOUS
<1>2. crashes' \in 0..MaxCrashes
  BY RoomsAssumption DEF Crash, TypeOK
<1> QED
  BY <1>1, <1>2 DEF Crash, Idle, TypeOK, SomeRoom, serverVars

\* Only prompts come into the inbox and into a turn, commands never do; each
\* event and each message is where its handler can be.
THEOREM MatrixTypeCorrect == Spec => []TypeOK
<1>1. Init => TypeOK
  <2> SUFFICES ASSUME Init
               PROVE  TypeOK
    OBVIOUS
  <2>1. inbox \in Seq(Prompts) /\ turn \in Seq(Prompts) /\ log \in Seq(Prompts)
    BY DEF Init
  <2>2. /\ events \in 0..MaxEvents /\ crashes \in 0..MaxCrashes
        /\ hpc \in [Messages -> HandlerStates]
    BY RoomsAssumption DEF Init, HandlerStates
  <2> QED
    BY <2>1, <2>2 DEF Init, TypeOK, SomeRoom, HandlerStates
<1>2. TypeOK /\ [Next]_vars => TypeOK'
  BY ServerType, RoomType, HandlerType, WorkType, CrashType DEF Next, Membership, Messages
<1> QED
  BY <1>1, <1>2, PTL DEF Spec
-----------------------------------------------------------------------------
(* The active room.                                                        *)

\* The bot is in r, or somebody will clean up, or did while r was in use.
Accounted(r) ==
    r \in inRoom \cup overtaken \/ removed[r] = "cleanup" \/ left[r] = "cleanup"

\* Room r is the active one, or an invite or a message makes it that.
Claimed(r) ==
    \/ r = activeRoom \/ invited[r] = "store"
    \/ \E m \in Messages : RoomOf[m] = r /\ hpc[m] = "track"

\* Every room that is or becomes the active one is accounted for; none is
\* before the first sync.
FreedInv ==
    /\ \A r \in Rooms : Claimed(r) => Accounted(r)
    /\ ~synced => /\ activeRoom = NoRoom
                  /\ \A r \in Rooms : invited[r] = "none"
                  /\ \A m \in Messages : hpc[m] # "track"

\* A step that adds no claim and leaves what accounts for one as it is.
LEMMA QuietFreed ==
    ASSUME FreedInv,
           \A r \in Rooms : Claimed(r)' => Claimed(r),
           \A r \in Rooms : Accounted(r) => Accounted(r)',
           \/ synced'
           \/ /\ synced' = synced /\ activeRoom' \in {activeRoom, NoRoom}
              /\ \A r \in Rooms : invited'[r] = invited[r] \/ invited'[r] = "none"
              /\ \A m \in Messages : hpc'[m] = "track" => hpc[m] = "track"
    PROVE  FreedInv'
<1>1. \A r \in Rooms : Claimed(r)' => Accounted(r)'
  BY DEF FreedInv
<1>2. ~synced' => /\ activeRoom' = NoRoom
                  /\ \A r \in Rooms : invited'[r] = "none"
                  /\ \A m \in Messages : hpc'[m] # "track"
  BY DEF FreedInv
<1> QED
  BY <1>1, <1>2 DEF FreedInv

\* Whoever is removed or leaves is cleaned up after, once the bot has synced.
LEMMA ServerFreed ==
    ASSUME TypeOK, FreedInv, NEW r \in Rooms, Invite(r) \/ Remove(r) \/ PeerLeaves(r)
    PROVE  FreedInv'
<1>1. CASE Invite(r)
  <2>1. /\ UNCHANGED <<inRoom, overtaken, removed, left, activeRoom, hpc, synced>>
        /\ \A q \in Rooms : invited'[q] = invited[q] \/ (synced /\ invited'[q] = "check")
    BY <1>1 DEF Invite, TypeOK
  <2> QED
    BY <2>1 DEF FreedInv, Claimed, Accounted
<1>2. CASE Remove(r)
  <2>1. /\ UNCHANGED <<overtaken, left, activeRoom, invited, hpc, synced>>
        /\ inRoom' = inRoom \ {r}
        /\ synced => removed' = [removed EXCEPT ![r] = "cleanup"]
        /\ removed \in [Rooms -> {"none", "cleanup", "session"}]
    BY <1>2 DEF Remove, TypeOK
  <2>2. \A q \in Rooms : Claimed(q)' <=> Claimed(q)
    BY <2>1 DEF Claimed
  <2>3. CASE synced
    BY <2>1, <2>2, <2>3 DEF FreedInv, Accounted
  <2>4. CASE ~synced
    BY <2>1, <2>2, <2>4, RoomsAssumption DEF FreedInv, Claimed
  <2> QED
    BY <2>3, <2>4
<1>3. CASE PeerLeaves(r)
  <2>1. /\ UNCHANGED <<inRoom, overtaken, removed, activeRoom, invited, hpc, synced>>
        /\ \A q \in Rooms : left[q] = "cleanup" => left'[q] = "cleanup"
    BY <1>3 DEF PeerLeaves, TypeOK
  <2> QED
    BY <2>1, QuietFreed DEF FreedInv, Claimed, Accounted
<1> QED
  BY <1>1, <1>2, <1>3

\* An invite claims its room from the join on.
LEMMA InviteFreed ==
    ASSUME TypeOK, FreedInv, NEW r \in Rooms,
           CheckInvite(r) \/ JoinRoom(r) \/ JoinFails(r) \/ StoreActive(r)
    PROVE  FreedInv'
<1>1. /\ UNCHANGED <<overtaken, removed, left, hpc, synced>> /\ invited[r] # "none"
      /\ synced
  BY DEF CheckInvite, JoinRoom, JoinFails, StoreActive, InviteStep, FreedInv
<1>2. CASE CheckInvite(r) \/ JoinFails(r)
  <2>1. /\ UNCHANGED <<inRoom, activeRoom>>
        /\ \A q \in Rooms : invited'[q] = "store" => invited[q] = "store"
    BY <1>2 DEF CheckInvite, JoinFails, InviteStep, TypeOK, serverVars
  <2> QED
    BY <1>1, <2>1 DEF FreedInv, Claimed, Accounted
<1>3. CASE JoinRoom(r)
  <2>1. /\ activeRoom' = activeRoom /\ inRoom' = inRoom \cup {r}
        /\ \A q \in Rooms : invited'[q] = "store" => invited[q] = "store" \/ q = r
    BY <1>3 DEF JoinRoom, InviteStep, TypeOK
  <2> QED
    BY <1>1, <2>1 DEF FreedInv, Claimed, Accounted
<1>4. CASE StoreActive(r)
  <2>1. /\ activeRoom' = r /\ inRoom' = inRoom /\ invited[r] = "store"
        /\ \A q \in Rooms : invited'[q] = "store" => invited[q] = "store"
    BY <1>4 DEF StoreActive, InviteStep, TypeOK, serverVars
  <2> QED
    BY <1>1, <2>1 DEF FreedInv, Claimed, Accounted
<1> QED
  BY <1>2, <1>3, <1>4

\* cleanupRoom frees the active room; whoever is still at work on the room is
\* overtaken.
LEMMA LeaveFreed ==
    ASSUME TypeOK, FreedInv, NEW r \in Rooms,
           \/ QueryMembers(r) \/ QueryFails(r) \/ LeaveRoom(r)
           \/ Cleanup(r) \/ OnRoomCleanup(r)
    PROVE  FreedInv'
<1>1. CASE QueryMembers(r) \/ QueryFails(r)
  <2>1. /\ UNCHANGED <<inRoom, overtaken, removed, activeRoom, invited, hpc, synced>>
        /\ \A q \in Rooms : left[q] = "cleanup" => left'[q] = "cleanup"
    BY <1>1 DEF QueryMembers, QueryFails, TypeOK, serverVars
  <2> QED
    BY <2>1, QuietFreed DEF FreedInv, Claimed, Accounted
<1>2. CASE LeaveRoom(r)
  <2>1. /\ UNCHANGED <<overtaken, activeRoom, invited, hpc, synced>>
        /\ \A q \in Rooms : left'[q] = IF q = r THEN "cleanup" ELSE left[q]
        /\ \A q \in inRoom : q \in inRoom' \/ q = r
        /\ \A q \in Rooms : removed'[q] = removed[q] \/ q = r
    BY <1>2 DEF LeaveRoom, TypeOK
  <2> QED
    BY <2>1, QuietFreed DEF FreedInv, Claimed, Accounted
<1>3. CASE Cleanup(r)
  <2>1. /\ UNCHANGED <<inRoom, invited, hpc, synced>>
        /\ activeRoom' = IF activeRoom = r THEN NoRoom ELSE activeRoom
        /\ \A q \in Rooms \ {r} : removed'[q] = removed[q] /\ left'[q] = left[q]
        /\ InProgress(r) => r \in overtaken'
        /\ overtaken \subseteq overtaken'
    BY <1>3 DEF Cleanup, CleanupStep, Freed, TypeOK, serverVars
  <2>2. Claimed(r)' => Accounted(r)'
    BY <2>1, RoomsAssumption DEF Claimed, Accounted, InProgress
  <2>3. \A q \in Rooms \ {r} : (Claimed(q)' => Claimed(q)) /\ (Accounted(q) => Accounted(q)')
    BY <2>1, RoomsAssumption DEF Claimed, Accounted
  <2>4. \A q \in Rooms : Claimed(q)' => Accounted(q)'
    BY <2>2, <2>3 DEF FreedInv
  <2> QED
    BY <2>1, <2>4 DEF FreedInv
<1>4. CASE OnRoomCleanup(r)
  <2>1. /\ UNCHANGED <<inRoom, overtaken, activeRoom, invited, hpc, synced>>
        /\ \A q \in Rooms : left[q] = "cleanup" => left'[q] = "cleanup"
        /\ \A q \in Rooms : removed[q] = "cleanup" => removed'[q] = "cleanup"
    BY <1>4 DEF OnRoomCleanup, CleanupStep, TypeOK, serverVars
  <2> QED
    BY <2>1, QuietFreed DEF FreedInv, Claimed, Accounted
<1> QED
  BY <1>1, <1>2, <1>3, <1>4

\* A message claims its room when it comes, with the bot in the room.
LEMMA HandlerFreed ==
    ASSUME TypeOK, FreedInv, NEW m \in Messages,
           \/ Send(m) \/ TrackRoom(m) \/ NotForTheApp(m) \/ Reset(m) \/ HandlePrompt(m)
    PROVE  FreedInv'
<1>1. UNCHANGED <<inRoom, overtaken, removed, left, invited, synced>>
  BY DEF Send, TrackRoom, NotForTheApp, Reset, ResetConversation, RestartSession, HandlePrompt,
         SetRoomID, Enqueue, serverVars, backendVars
<1>2. \A r \in Rooms : Accounted(r)' <=> Accounted(r)
  BY <1>1 DEF Accounted
<1>3. CASE Send(m)
  <2>1. /\ activeRoom' = activeRoom /\ RoomOf[m] \in inRoom
        /\ \A n \in Messages : hpc'[n] = "track" => hpc[n] = "track" \/ (n = m /\ synced)
    BY <1>3 DEF Send, Handler, TypeOK, backendVars
  <2>2. \A r \in Rooms : Claimed(r)' => Claimed(r) \/ r \in inRoom
    BY <1>1, <2>1 DEF Claimed
  <2> QED
    BY <1>1, <1>2, <2>1, <2>2 DEF FreedInv, Accounted
<1>4. CASE TrackRoom(m)
  <2>1. /\ activeRoom' \in {activeRoom, RoomOf[m]} /\ hpc[m] = "track"
        /\ \A n \in Messages : hpc'[n] = "track" => hpc[n] = "track"
    BY <1>4 DEF TrackRoom, Handler, TypeOK
  <2>2. \A r \in Rooms : Claimed(r)' => Claimed(r)
    BY <1>1, <2>1 DEF Claimed
  <2> QED
    BY <1>1, <1>2, <2>1, <2>2 DEF FreedInv
<1>5. CASE NotForTheApp(m) \/ Reset(m) \/ HandlePrompt(m)
  <2>1. /\ activeRoom' \in {activeRoom, NoRoom}
        /\ \A n \in Messages : hpc'[n] = "track" => hpc[n] = "track"
    BY <1>5 DEF NotForTheApp, Reset, ResetConversation, RestartSession, HandlePrompt, SetRoomID,
                Enqueue, Handler, Freed, TypeOK, backendVars
  <2>2. \A r \in Rooms : Claimed(r)' => Claimed(r)
    BY <1>1, <2>1, RoomsAssumption DEF Claimed
  <2> QED
    BY <1>1, <1>2, <2>1, <2>2, QuietFreed
<1> QED
  BY <1>3, <1>4, <1>5

\* A room the bot has left is not the active room for good: whichever way the
\* clean-up, an invite and a message in the room interleave, and over crashes.
THEOREM LeftRoomsFreed == Spec => []LeftRoomFreed
<1>1. Init => FreedInv
  BY RoomsAssumption DEF Init, FreedInv, Claimed
<1>2. FreedInv /\ TypeOK /\ [Next]_vars => FreedInv'
  <2> SUFFICES ASSUME FreedInv, TypeOK, [Next]_vars
               PROVE  FreedInv'
    OBVIOUS
  <2>1. CASE Work \/ Sync \/ UNCHANGED vars
    <3>1. /\ UNCHANGED <<inRoom, overtaken, removed, left, activeRoom, invited, hpc>>
          /\ synced' = synced \/ synced'
      BY <2>1 DEF Work, Take, Resolve, StoreRoom, EnsurePi, Retry, Reply, Sync, vars, serverVars,
                  backendVars
    <3> QED
      BY <3>1 DEF FreedInv, Claimed, Accounted
  <2>2. CASE Crash
    <3>1. /\ activeRoom' = NoRoom /\ \A r \in Rooms : invited'[r] = "none"
          /\ \A m \in Messages : hpc'[m] # "track"
      BY <2>2 DEF Crash
    <3> QED
      BY <3>1, RoomsAssumption DEF FreedInv, Claimed
  <2> QED
    BY <2>1, <2>2, ServerFreed, InviteFreed, LeaveFreed, HandlerFreed DEF Next, Membership,
       Messages
<1>3. FreedInv /\ TypeOK => LeftRoomFreed
  BY DEF FreedInv, TypeOK, SomeRoom, LeftRoomFreed, Quiet, Claimed, Accounted
<1> QED
  BY <1>1, <1>2, <1>3, MatrixTypeCorrect, PTL DEF Spec
-----------------------------------------------------------------------------
(* The room a turn answers in.                                             *)

\* Position k of log s is that of prompt m, or a later one.
NotBefore(s, k, m) == \A i \in DOMAIN s : s[i] = m => i <= k

\* The worker's room is that of the last prompt, unless resolveRoomID has
\* replaced it; a prompt is in the inbox or in a turn only once its handler
\* is through; and while the room of the file is about to be taken, no
\* prompt of the turn has set a room in this process.
RoomInv ==
    /\ log # <<>> => room # NoRoom
    /\ log # <<>> /\ ~overwritten => room = RoomOf[log[Len(log)]]
    /\ \A i \in DOMAIN inbox : hpc[inbox[i]] = "done"
    /\ \A i \in DOMAIN turn : hpc[turn[i]] = "done"
    /\ wpc = "store" => \A i \in DOMAIN turn, j \in DOMAIN log : log[j] # turn[i]
    /\ wpc = "store" => conv # NoRoom

\* NeverBehind, in terms of positions.
Ahead ==
    wpc \in {"ensure", "turn"} /\ ~overwritten =>
        \A i \in DOMAIN turn, j \in DOMAIN log :
            log[j] = turn[i] =>
                \E k \in DOMAIN log : NotBefore(log, k, turn[i]) /\ RoomOf[log[k]] = conv

BehindInv == RoomInv /\ Ahead

\* The inductive form says more than the property.
LEMMA AheadSuffices == Ahead => NeverBehind
BY DEF Ahead, NeverBehind, After, NotBefore

\* A step that leaves the log, the room and the turn as they are.
LEMMA QuietBehind ==
    ASSUME BehindInv, UNCHANGED <<log, overwritten, room, inbox, turn, conv>>,
           wpc' = wpc \/ (wpc \in {"ensure", "turn"} /\ wpc' \in {"ensure", "turn"}),
           \A m \in Messages : hpc[m] = "done" => hpc'[m] = "done", TypeOK
    PROVE  BehindInv'
<1>1. /\ \A i \in DOMAIN inbox : inbox[i] \in Messages
      /\ \A i \in DOMAIN turn : turn[i] \in Messages
  BY DEF TypeOK, Messages
<1>2. RoomInv'
  BY <1>1 DEF BehindInv, RoomInv
<1>3. Ahead'
  BY DEF BehindInv, Ahead, NotBefore
<1> QED
  BY <1>2, <1>3 DEF BehindInv

\* The handler of a prompt sets the room before the row is there.
LEMMA SetRoomBehind ==
    ASSUME TypeOK, BehindInv, NEW m \in Prompts, SetRoomID(m, "handle", "enqueue")
    PROVE  BehindInv'
<1> DEFINE n == Len(log)
<1>1. /\ hpc[m] = "handle" /\ room' = RoomOf[m] /\ log' = Append(log, m)
      /\ UNCHANGED <<overwritten, inbox, turn, conv, wpc>>
      /\ \A p \in Messages : hpc[p] = "done" => hpc'[p] = "done"
  BY DEF SetRoomID, Handler, TypeOK
<1>2. /\ log \in Seq(Prompts) /\ m \in Messages /\ RoomOf[m] # NoRoom
      /\ \A i \in DOMAIN inbox : inbox[i] \in Messages
      /\ \A i \in DOMAIN turn : turn[i] \in Messages
  BY RoomsAssumption DEF TypeOK, Messages
<1>3. /\ log' # <<>> /\ n \in Nat /\ Len(log') = n + 1 /\ DOMAIN log' = 1..n + 1
      /\ DOMAIN log = 1..n /\ log'[n + 1] = m /\ \A i \in 1..n : log'[i] = log[i]
  BY <1>1, <1>2
<1> HIDE DEF n
<1>4. \A i \in DOMAIN turn : turn[i] # m
  BY <1>1 DEF BehindInv, RoomInv
<1>5. \A i \in DOMAIN turn, j \in DOMAIN log' : log'[j] = turn[i] => j \in 1..n /\ log[j] = turn[i]
  BY <1>3, <1>4
<1>6. RoomInv'
  <2>1. log' # <<>> => room' # NoRoom /\ room' = RoomOf[log'[Len(log')]]
    BY <1>1, <1>2, <1>3
  <2>2. /\ \A i \in DOMAIN inbox' : hpc'[inbox'[i]] = "done"
        /\ \A i \in DOMAIN turn' : hpc'[turn'[i]] = "done"
    BY <1>1, <1>2 DEF BehindInv, RoomInv
  <2>3. wpc' = "store" => \A i \in DOMAIN turn', j \in DOMAIN log' : log'[j] # turn'[i]
    BY <1>1, <1>3, <1>5 DEF BehindInv, RoomInv
  <2> QED
    BY <1>1, <2>1, <2>2, <2>3 DEF BehindInv, RoomInv
<1>7. ASSUME wpc' \in {"ensure", "turn"}, ~overwritten',
             NEW i \in DOMAIN turn', NEW j \in DOMAIN log', log'[j] = turn'[i]
      PROVE  \E k \in DOMAIN log' : NotBefore(log', k, turn'[i]) /\ RoomOf[log'[k]] = conv'
  <2>1. PICK k \in DOMAIN log : NotBefore(log, k, turn[i]) /\ RoomOf[log[k]] = conv
    BY <1>1, <1>3, <1>5, <1>7 DEF BehindInv, Ahead
  <2>2. k \in DOMAIN log' /\ log'[k] = log[k]
    BY <1>3
  <2>3. \A l \in DOMAIN log' : log'[l] = turn[i] => l <= k
    BY <1>1, <1>3, <1>5, <1>7, <2>1 DEF NotBefore
  <2> QED
    BY <1>1, <2>1, <2>2, <2>3 DEF NotBefore
<1> QED
  BY <1>6, <1>7 DEF BehindInv, Ahead

\* A prompt goes to the end of the inbox and of the log together.
LEMMA EnqueueBehind ==
    ASSUME TypeOK, BehindInv, NEW m \in Prompts, Enqueue(m, "enqueue", "done")
    PROVE  BehindInv'
<1>1. /\ inbox' = Append(inbox, m) /\ hpc'[m] = "done"
      /\ UNCHANGED <<log, overwritten, room, turn, conv, wpc>>
      /\ \A p \in Messages : hpc[p] = "done" => hpc'[p] = "done"
  BY DEF Enqueue, Handler, TypeOK, workerVars, logVars, Messages
<1>2. /\ inbox \in Seq(Prompts)
      /\ \A i \in DOMAIN inbox : inbox[i] \in Messages
      /\ \A i \in DOMAIN turn : turn[i] \in Messages
  BY DEF TypeOK, Messages
<1>3. \A i \in DOMAIN inbox' : inbox'[i] = m \/ (i \in DOMAIN inbox /\ inbox'[i] = inbox[i])
  BY <1>1, <1>2
<1>4. \A i \in DOMAIN inbox' : hpc'[inbox'[i]] = "done"
  BY <1>1, <1>2, <1>3 DEF BehindInv, RoomInv
<1>5. \A i \in DOMAIN turn' : hpc'[turn'[i]] = "done"
  BY <1>1, <1>2 DEF BehindInv, RoomInv
<1>6. RoomInv'
  BY <1>1, <1>4, <1>5 DEF BehindInv, RoomInv
<1>7. Ahead'
  BY <1>1 DEF BehindInv, Ahead, NotBefore
<1> QED
  BY <1>6, <1>7 DEF BehindInv

\* resolveRoomID finds the room of the last prompt, or none and no prompt of
\* this process; what it then stores replaces no room, or says so.
LEMMA WorkBehind ==
    ASSUME TypeOK, BehindInv, Work
    PROVE  BehindInv'
<1>1. UNCHANGED <<hpc, log>>
  BY DEF Work, Take, Resolve, StoreRoom, EnsurePi, Retry, Reply, logVars
<1>2. CASE Take
  <2>1. /\ wpc' = "resolve" /\ turn' = inbox /\ inbox' = <<>>
        /\ UNCHANGED <<room, overwritten>>
    BY <1>2 DEF Take, logVars
  <2>2. DOMAIN inbox' = {}
    BY <2>1
  <2> QED
    BY <1>1, <2>1, <2>2 DEF BehindInv, RoomInv, Ahead
<1>3. CASE Resolve /\ wpc' = "ensure"
  <2>1. /\ room # NoRoom /\ conv' = room /\ wpc = "resolve"
        /\ UNCHANGED <<turn, inbox, room, overwritten>>
    BY <1>3 DEF Resolve, Idle, logVars
  <2>2. RoomInv'
    BY <1>1, <1>3, <2>1 DEF BehindInv, RoomInv
  <2>3. ASSUME ~overwritten, NEW i \in DOMAIN turn, NEW j \in DOMAIN log, log[j] = turn[i]
        PROVE  \E k \in DOMAIN log : NotBefore(log, k, turn[i]) /\ RoomOf[log[k]] = room
    <3>1. log \in Seq(Prompts)
      BY DEF TypeOK
    <3>2. Len(log) \in DOMAIN log /\ log # <<>> /\ \A l \in DOMAIN log : l <= Len(log)
      BY <2>3, <3>1
    <3> QED
      BY <2>3, <3>2 DEF BehindInv, RoomInv, NotBefore
  <2>4. Ahead'
    BY <1>1, <2>1, <2>3 DEF Ahead, NotBefore
  <2> QED
    BY <2>2, <2>4 DEF BehindInv
<1>4. CASE Resolve /\ wpc' = "store"
  <2>1. /\ room = NoRoom /\ conv' = roomFile /\ roomFile # NoRoom
        /\ UNCHANGED <<turn, inbox, room, overwritten>>
    BY <1>4 DEF Resolve, Idle, logVars
  <2>2. log = <<>>
    BY <2>1 DEF BehindInv, RoomInv
  <2>3. DOMAIN log = {}
    BY <2>2
  <2> QED
    BY <1>1, <1>4, <2>1, <2>2, <2>3 DEF BehindInv, RoomInv, Ahead
<1>5. CASE (Resolve \/ Reply) /\ wpc' = "idle"
  <2>1. turn' = <<>> /\ UNCHANGED <<inbox, room, overwritten>>
    BY <1>5 DEF Resolve, Reply, Idle, logVars
  <2>2. DOMAIN turn' = {}
    BY <2>1
  <2> QED
    BY <1>1, <1>5, <2>1, <2>2 DEF BehindInv, RoomInv, Ahead
<1>6. CASE StoreRoom
  <2>1. /\ wpc = "store" /\ wpc' = "ensure" /\ room' = conv
        /\ UNCHANGED <<turn, inbox>> /\ overwritten' = (overwritten \/ room # NoRoom)
        /\ conv # NoRoom
    BY <1>6 DEF StoreRoom, BehindInv, RoomInv
  <2>2. \A i \in DOMAIN turn, j \in DOMAIN log : log[j] # turn[i]
    BY <2>1 DEF BehindInv, RoomInv
  <2>3. log # <<>> => overwritten'
    BY <2>1 DEF BehindInv, RoomInv
  <2> QED
    BY <1>1, <2>1, <2>2, <2>3 DEF BehindInv, RoomInv, Ahead
<1>7. CASE EnsurePi \/ Retry
  BY <1>7, QuietBehind DEF EnsurePi, Retry, logVars
<1> QED
  BY <1>2, <1>3, <1>4, <1>5, <1>6, <1>7 DEF Work, Resolve, Reply, Idle

\* A reply never goes to a room the conversation had moved on from: a turn
\* answers in the room of the last of its prompts or of a later one, because
\* handlePrompt sets the room before the row is there to be taken.  (What is
\* left: resolveRoomID replacing a newer room by that of the file.)
THEOREM TurnsNeverBehind == Spec => []NeverBehind
<1>1. Init => BehindInv
  <2> SUFFICES ASSUME Init
               PROVE  BehindInv
    OBVIOUS
  <2>1. log = <<>> /\ wpc = "idle" /\ DOMAIN inbox = {} /\ DOMAIN turn = {}
    BY DEF Init
  <2> QED
    BY <2>1 DEF BehindInv, RoomInv, Ahead
<1>2. BehindInv /\ TypeOK /\ [Next]_vars => BehindInv'
  <2> SUFFICES ASSUME BehindInv, TypeOK, [Next]_vars
               PROVE  BehindInv'
    OBVIOUS
  <2>1. CASE \E r \in Rooms : Membership(r)
    BY <2>1, QuietBehind DEF Membership, Invite, Remove, PeerLeaves, CheckInvite, JoinRoom,
       JoinFails, StoreActive, QueryMembers, QueryFails, LeaveRoom, Cleanup, OnRoomCleanup,
       workerVars, logVars
  <2>2. CASE Sync \/ UNCHANGED vars
    BY <2>2, QuietBehind DEF Sync, vars, workerVars, logVars
  <2>3. ASSUME NEW m \in Messages, Send(m) \/ TrackRoom(m) \/ NotForTheApp(m) \/ Reset(m)
        PROVE  BehindInv'
    <3>1. UNCHANGED <<log, overwritten, room, inbox, turn, conv, wpc>>
      BY <2>3 DEF Send, TrackRoom, NotForTheApp, Reset, ResetConversation, RestartSession,
                  workerVars, logVars
    <3>2. \A p \in Messages : hpc[p] = "done" => hpc'[p] = "done"
      BY <2>3 DEF Send, TrackRoom, NotForTheApp, Reset, ResetConversation, RestartSession,
                  Handler, TypeOK
    <3> QED
      BY <3>1, <3>2, QuietBehind
  <2>4. CASE \E m \in Prompts : HandlePrompt(m)
    BY <2>4, SetRoomBehind, EnqueueBehind DEF HandlePrompt
  <2>5. CASE Crash
    <3>1. /\ log' = <<>> /\ wpc' = "idle" /\ inbox' = inbox /\ turn' = <<>>
          /\ \A m \in Messages : hpc[m] = "done" => hpc'[m] = "done"
          /\ \A i \in DOMAIN inbox : inbox[i] \in Messages
      BY <2>5 DEF Crash, Idle, TypeOK, Messages
    <3>2. DOMAIN turn' = {}
      BY <3>1
    <3> QED
      BY <3>1, <3>2 DEF BehindInv, RoomInv, Ahead
  <2> QED
    BY <2>1, <2>2, <2>3, <2>4, <2>5, WorkBehind DEF Next, Messages
<1>3. BehindInv => NeverBehind
  BY AheadSuffices DEF BehindInv
<1> QED
  BY <1>1, <1>2, <1>3, MatrixTypeCorrect, PTL DEF Spec
=============================================================================
