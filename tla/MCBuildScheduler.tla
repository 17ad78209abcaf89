--------------------------- MODULE MCBuildScheduler ---------------------------
(* BuildScheduler on small instances; the cfg files give the bounds. *)
EXTENDS BuildScheduler, TLC

CONSTANTS e1, e2, e3

MCExecutions == {e1, e2, e3}

(* Executions are only ever compared: any of them can stand for another. *)
MCSymmetry == Permutations(MCExecutions)

(* Two builds without a fault, or one build with one: the instance on which   *)
(* liveness is checked.                                                      *)
MCNext == Next /\ arrived' + faults' <= 2 /\ (faults' = 0 => execution'[e3].status = "unused")
MCFairSpec == Init /\ [][MCNext]_vars /\ Fairness
===============================================================================
