------------------------------- MODULE PiSlot -------------------------------
(***************************************************************************)
(* The pi subprocess as the worker holds it: the slot `w.pi`, the          *)
(* freshStart flag, the processes ever started, and stopPi, which takes    *)
(* the process out of the slot under the lock and kills it afterwards.     *)
(* worker.go: Restart, stopPi, ensurePi; pi.go: StartPi, Kill, IsAlive.    *)
(*                                                                         *)
(* A process is its index in `procs`; 0 is the nil pointer.  A session     *)
(* (one jsonl file of pi) is the set of Restart calls it is younger than,  *)
(* which is all that a later reader can ask of it.                         *)
(***************************************************************************)
EXTENDS Integers, Sequences, FiniteSets

CONSTANTS
    Restarts,   \* !restart handlers and room clean-ups: callers of Restart
    Reaper,     \* the idle reaper goroutine
    Loop,       \* the goroutine of Worker.Run
    Budget      \* how often each fault or external event may happen

Faults == {"death", "start", "reject", "db", "tick", "idle", "shutdown"}

ASSUME StoppersAssumption == Reaper # Loop /\ {Reaper, Loop} \cap Restarts = {}
ASSUME BudgetAssumption == Budget \in [Faults -> Nat]

VARIABLES
    pi,         \* w.pi
    freshStart, \* w.freshStart
    procs,      \* state and session of every process started so far
    session,    \* the most recent session on disk, the one --continue resumes
    resets,     \* the Restart calls that have set freshStart
    victim,     \* per caller of stopPi, the process it is killing
    idle,       \* time.Since(w.lastUse) > IdleTimeout
    budget      \* what is left of Budget

slotVars == <<pi, freshStart, procs, session, resets, victim>>

Stoppers == Restarts \cup {Reaper, Loop}

PiStates == {"alive", "signalled", "dead"}

PiSlotTypeOK ==
    /\ procs \in Seq([state : PiStates, session : SUBSET Restarts])
    /\ pi \in 0 .. Len(procs)
    /\ freshStart \in BOOLEAN
    /\ session \subseteq Restarts
    /\ resets \subseteq Restarts
    /\ victim \in [Stoppers -> 0 .. Len(procs)]
    /\ idle \in BOOLEAN
    /\ budget \in [Faults -> Nat]

PiSlotInit ==
    /\ pi = 0
    /\ freshStart = FALSE
    /\ procs = <<>>
    /\ session = {}
    /\ resets = {}
    /\ victim = [t \in Stoppers |-> 0]
    /\ idle = FALSE
    /\ budget = Budget

\* One occurrence of a bounded external event.
Spend(kind) ==
    /\ budget[kind] > 0
    /\ budget' = [budget EXCEPT ![kind] = @ - 1]
-----------------------------------------------------------------------------
\* IsAlive: the done channel is closed by the goroutine that waits for the
\* process, so a process that was signalled is alive until it has exited.
Alive(p) == p # 0 /\ procs[p].state # "dead"

\* Worker.IsActive.
IsActive == Alive(pi)

\* stopPi up to the first signal of Kill: the slot is emptied at once, the
\* process exits later (SIGKILL after five seconds).
StopPi(t) ==
    /\ victim' = [victim EXCEPT ![t] = pi]
    /\ pi' = 0
    /\ procs' = IF Alive(pi) THEN [procs EXCEPT ![pi].state = "signalled"] ELSE procs
    /\ UNCHANGED <<freshStart, session, resets>>

\* <-p.done in Kill.
Killed(t) == ~Alive(victim[t])

\* A process exits: because of Kill, or by itself (a crash, the OOM killer).
ExitPi(p) ==
    /\ procs[p].state # "dead"
    /\ IF procs[p].state = "alive" THEN Spend("death") ELSE UNCHANGED budget
    /\ procs' = [procs EXCEPT ![p].state = "dead"]
    /\ UNCHANGED <<pi, freshStart, session, resets, victim>>

\* StartPi: --continue unless fresh.
StartPi(fresh) ==
    /\ session' = IF fresh THEN resets ELSE session
    /\ procs' = Append(procs, [state |-> "alive", session |-> session'])
    /\ UNCHANGED <<pi, freshStart, resets, victim>>

\* The first critical section of Restart.
SetFreshStart(h) ==
    /\ freshStart' = TRUE
    /\ resets' = resets \cup {h}
    /\ UNCHANGED <<pi, procs, session, victim>>
-----------------------------------------------------------------------------
\* No process is forgotten: one that was not signalled is in the slot or in
\* the hands of the worker that is about to store it there, and one that was
\* signalled has a caller of Kill waiting for its exit.
Owned(p, starting) ==
    CASE procs[p].state = "alive" -> p = pi \/ p = starting
      [] procs[p].state = "signalled" -> \E t \in Stoppers : victim[t] = p
      [] OTHER -> TRUE
=============================================================================
