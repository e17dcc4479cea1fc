---------------------------- MODULE MCOpencrow ------------------------------
(* Values of the constants of Opencrow for TLC: small sets of messages and  *)
(* handlers, and a budget of faults and external events per run.            *)
EXTENDS Opencrow, TLC

CONSTANTS u1, u2, t1, s1, r1, c1

NoFaults == [f \in Faults |-> 0]

ConversationBudget == [NoFaults EXCEPT !["db"] = 1, !["tick"] = 1]
ProgressBudget == [NoFaults EXCEPT !["idle"] = 1]
PiBudget == [NoFaults EXCEPT !["reject"] = 1, !["death"] = 1, !["start"] = 1,
                             !["idle"] = 1, !["shutdown"] = 1]

PromptSymmetry == Permutations({u1, u2})
=============================================================================
