--------------------------- MODULE SignalBackend ----------------------------
(***************************************************************************)
(* The Signal backend (signal/backend.go, daemon.go): Run starts the       *)
(* signal-cli daemon, connects, subscribes and hands messages to the       *)
(* application one by one; its deferred calls take everything down again   *)
(* in reverse order.  Other goroutines, in this program the worker, send   *)
(* replies through the same client.  The daemon runs under the context of  *)
(* Run (exec.CommandContext).                                              *)
(***************************************************************************)
EXTENDS JsonRpc

CONSTANT Loop   \* the caller that is the goroutine of Run

ASSUME SignalAssumption == Loop \in Callers

VARIABLES
    rpc,        \* b.rpc is set
    run,        \* where Run is; "subscribing", "handling" and "unsubscribing"
                \* cover the call made there
    subscribed, \* b.subscriptionID is set
    ctxDone,    \* runCtx
    stopped,    \* Stop was called, and the root context cancelled
    wrote,      \* the goroutine of Run has made its call (or did not have to)
    daemon,     \* the signal-cli process; "stuck" if SIGKILL had no effect in time
    deaf,       \* it does not read its socket
    daemonSet   \* b.daemonCmd

runVars == <<run, subscribed, ctxDone, stopped, wrote>>
daemonVars == <<daemon, deaf, daemonSet>>
vars == <<rpcVars, rpc, runVars, daemonVars>>

Runs == {"off", "connecting", "subscribing", "receiving", "handling", "unsubscribing",
         "closing", "terminating", "killing", "returned"}

TypeOK ==
    /\ RpcTypeOK
    /\ rpc \in BOOLEAN /\ run \in Runs /\ subscribed \in BOOLEAN /\ ctxDone \in BOOLEAN
    /\ stopped \in BOOLEAN /\ wrote \in BOOLEAN
    /\ daemon \in {"off", "up", "stuck", "gone"}
    /\ deaf \in BOOLEAN /\ daemonSet \in BOOLEAN
    /\ run \in {"off", "connecting"} => reader = "none"

Init ==
    /\ RpcInit
    /\ rpc = FALSE /\ run = "off" /\ subscribed = FALSE /\ ctxDone = FALSE /\ stopped = FALSE
    /\ wrote = FALSE
    /\ daemon = "off" /\ deaf = FALSE /\ daemonSet = FALSE
-----------------------------------------------------------------------------
(* Run.                                                                    *)

Goto(pc) == run' = pc /\ wrote' = FALSE

StartDaemon ==
    /\ run = "off"
    /\ Goto("connecting")
    /\ daemon' = "up" /\ daemonSet' = TRUE
    /\ UNCHANGED <<rpcVars, rpc, subscribed, ctxDone, stopped, deaf>>

\* No binary, no directory for the socket, or no process.
StartFails ==
    /\ run = "off"
    /\ Goto("returned")
    /\ ctxDone' = TRUE
    /\ UNCHANGED <<rpcVars, rpc, subscribed, stopped, daemonVars>>

\* waitForSocket, newJSONRPCClient, setRPC.
Connect ==
    /\ run = "connecting" /\ daemon = "up"
    /\ Goto("subscribing")
    /\ conn' = "open" /\ reader' = "reading" /\ rpc' = TRUE
    /\ UNCHANGED <<callerVars, pending, box, notes, errCh, wireVars, subscribed, ctxDone,
                   stopped, daemonVars>>

\* The context, the deadline, or the end of the daemon.
ConnectFails ==
    /\ run = "connecting"
    /\ Goto("terminating")
    /\ UNCHANGED <<rpcVars, rpc, subscribed, ctxDone, stopped, daemonVars>>

Calling == {"subscribing", "handling", "unsubscribing"}

\* Calls are bounded: those for the subscription and its end are kept back.
Reserved == IF run = "subscribing" /\ ~wrote THEN 2 ELSE 1

\* The one call of the place where Run is; a handler may do without.
LoopCalls ==
    /\ run \in Calling /\ ~wrote
    /\ run = "handling" => nextID + Reserved < MaxCalls
    /\ Register(Loop)
    /\ wrote' = TRUE
    /\ UNCHANGED <<rpc, run, subscribed, ctxDone, stopped, daemonVars>>

HandlerQuiet ==
    /\ run = "handling" /\ ~wrote
    /\ wrote' = TRUE
    /\ UNCHANGED <<rpcVars, rpc, run, subscribed, ctxDone, stopped, daemonVars>>

CallOver == wrote /\ cst[Loop] = "idle"

\* An error, of the daemon or of the call, is the end; without the id of a
\* subscription there is nothing to unsubscribe.
Subscribed ==
    /\ run = "subscribing" /\ CallOver
    /\ subscribed' = \E a \in got[Loop] : a.ok
    /\ Goto(IF subscribed' THEN "receiving" ELSE "closing")
    /\ conn' = IF subscribed' THEN conn ELSE "closed"
    /\ UNCHANGED <<callerVars, pending, box, readVars, wireVars, rpc, ctxDone, stopped,
                   daemonVars>>

Message ==
    /\ run = "receiving" /\ notes > 0
    /\ notes' = notes - 1
    /\ \E pc \in {"receiving", "handling"} : Goto(pc)
    /\ UNCHANGED <<callerVars, pending, box, errCh, reader, conn, wireVars, rpc, subscribed,
                   ctxDone, stopped, daemonVars>>

Handled ==
    /\ run = "handling" /\ CallOver
    /\ Goto("receiving")
    /\ UNCHANGED <<rpcVars, rpc, subscribed, ctxDone, stopped, daemonVars>>

\* Mutant: the end of the stream goes unnoticed.
HasEndedByStop == ctxDone

HasEnded == ctxDone \/ errCh

\* The deferred calls begin with unsubscribeReceive.
LoopEnds ==
    /\ run = "receiving" /\ HasEnded
    /\ Goto("unsubscribing")
    /\ UNCHANGED <<rpcVars, rpc, subscribed, ctxDone, stopped, daemonVars>>

\* client.Close closes the socket ...
Unsubscribed ==
    /\ run = "unsubscribing" /\ CallOver
    /\ Goto("closing")
    /\ subscribed' = FALSE
    /\ conn' = "closed"
    /\ UNCHANGED <<callerVars, pending, box, readVars, wireVars, rpc, ctxDone, stopped,
                   daemonVars>>

\* ... and waits for the read loop; then clearRPC.
Closed ==
    /\ run = "closing" /\ reader = "done"
    /\ Goto("terminating")
    /\ rpc' = FALSE
    /\ UNCHANGED <<rpcVars, subscribed, ctxDone, stopped, daemonVars>>

\* stopDaemon: SIGTERM, five seconds, SIGKILL, two seconds.
Terminate ==
    /\ run = "terminating"
    /\ Goto("killing")
    /\ daemonSet' = FALSE
    /\ UNCHANGED <<rpcVars, rpc, subscribed, ctxDone, stopped, daemon, deaf>>

TermTimesOut ==
    /\ run = "killing" /\ daemon = "up"
    /\ daemon' \in {"gone", "stuck"}
    /\ UNCHANGED <<rpcVars, rpc, runVars, deaf, daemonSet>>

\* Mutant: Run does not wait for the daemon.
StopsAtOnce == TRUE

DaemonStopped == daemon \in {"gone", "stuck"}

\* The last deferred call cancels the context.
Returns ==
    /\ run = "killing" /\ DaemonStopped
    /\ Goto("returned")
    /\ ctxDone' = TRUE
    /\ UNCHANGED <<rpcVars, rpc, subscribed, stopped, daemonVars>>

RunStep ==
    \/ StartDaemon \/ StartFails \/ Connect \/ ConnectFails \/ LoopCalls \/ HandlerQuiet
    \/ Subscribed \/ Message \/ Handled \/ LoopEnds \/ Unsubscribed \/ Closed \/ Terminate
    \/ TermTimesOut \/ Returns
-----------------------------------------------------------------------------
(* The calls.                                                              *)

\* SendMessage or SendFile of another goroutine: getRPC, then Call.
SenderCalls ==
    /\ rpc /\ nextID + Reserved < MaxCalls
    /\ \E c \in Callers \ {Loop} : Register(c)
    /\ UNCHANGED <<rpc, runVars, daemonVars>>

\* Mutant: the subscription ignores its context.
MayGiveUpByTime(c) == c # Loop \/ run # "subscribing"

\* Only the subscription has no time limit; Stop ends it, and the calls of the
\* others, but not unsubscribeReceive.
MayGiveUp(c) == c # Loop \/ run # "subscribing" \/ ctxDone

CallStep(c) ==
    /\ \/ Write(c, daemon = "up" /\ ~deaf)
       \/ (conn # "open" \/ daemon # "up") /\ WriteFails(c)
       \/ MayGiveUp(c) /\ GiveUp(c)
       \/ Wait(c)
    /\ UNCHANGED <<rpc, runVars, daemonVars>>

Reader == Read(daemon # "up") /\ UNCHANGED <<rpc, runVars, daemonVars>>
-----------------------------------------------------------------------------
(* The rest of the world.                                                  *)

\* The signal handler: b.Stop, then the root context.
Stop ==
    /\ ~stopped /\ run # "off"
    /\ stopped' = TRUE /\ ctxDone' = TRUE
    /\ UNCHANGED <<rpcVars, rpc, run, subscribed, wrote, daemonVars>>

\* exec.CommandContext kills the process when the context is done.
ContextKills ==
    /\ ctxDone /\ daemon = "up"
    /\ daemon' = "gone"
    /\ UNCHANGED <<rpcVars, rpc, runVars, deaf, daemonSet>>

DaemonExits ==
    /\ daemon = "up"
    /\ daemon' = "gone"
    /\ UNCHANGED <<rpcVars, rpc, runVars, deaf, daemonSet>>

\* It stops reading requests, and may take it up again.
DaemonStalls ==
    /\ daemon = "up"
    /\ deaf' = ~deaf
    /\ UNCHANGED <<rpcVars, rpc, runVars, daemon, daemonSet>>

DaemonWrites ==
    /\ daemon = "up"
    /\ Respond \/ SendNote
    /\ UNCHANGED <<rpc, runVars, daemonVars>>

Breaks == StreamBreaks /\ UNCHANGED <<rpc, runVars, daemonVars>>

Next ==
    \/ RunStep \/ SenderCalls \/ Reader
    \/ \E c \in Callers : CallStep(c)
    \/ Stop \/ ContextKills \/ DaemonExits \/ DaemonStalls \/ DaemonWrites \/ Breaks

Spec == Init /\ [][Next]_vars

\* The goroutines run; SIGKILL from the context ends the daemon.
Fairness ==
    /\ WF_vars(RunStep) /\ WF_vars(Reader) /\ WF_vars(ContextKills)
    /\ \A c \in Callers : WF_vars(CallStep(c))

FairSpec == Spec /\ Fairness
-----------------------------------------------------------------------------
(* Properties.                                                             *)

\* When Run returns the daemon is gone, or SIGKILL had no effect on it in time;
\* nobody finds a client to call and no caller waits for an answer that cannot
\* come.
NothingLeft ==
    run = "returned" =>
        /\ daemon # "up" /\ ~daemonSet /\ ~rpc
        /\ \A c \in Callers : cst[c] = "wait" => reader = "done"

\* The read loop holds a message, the channel is full, and nobody takes
\* messages: Run waits for the read loop, to answer or to end.
Jammed == reader = "holding" /\ Full /\ run \in {"subscribing", "closing"}

\* Run ends when the daemon dies under it, whatever it waits for at that
\* moment, so that the service can be restarted; a read loop that is full of
\* messages is the one thing in the way.
DaemonDeathEndsRun == daemon = "gone" ~> run = "returned" \/ stopped \/ Jammed

\* Stop ends Run too, unless the read loop is full when Run closes it.
StopEndsOrJams == stopped ~> run = "returned" \/ (run = "closing" /\ Jammed)
=============================================================================
