---------------------------- MODULE MCLifecycle -----------------------------
(* Two prompts and a reminder; a crash or another fault.                    *)
EXTENDS Lifecycle, TLC

CONSTANTS u1, u2, t1

NoFaults == [f \in Faults |-> 0]
LifecycleBudget == [NoFaults EXCEPT !["db"] = 1, !["tick"] = 1, !["shutdown"] = 1]

PromptSymmetry == Permutations({u1, u2})
=============================================================================
