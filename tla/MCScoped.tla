------------------------------ MODULE MCScoped ------------------------------
(* Two scoped builds over two subscriptions. *)
EXTENDS Scoped

CONSTANTS b1, b2

MCBudget == [h \in Harness |-> 2]
(* claude -p reports a cost, codex exec does not. *)
MCCost == [h \in Harness |-> IF h = "claude_code" THEN 1 ELSE 0]

(* Bound: people and probes intervene, and the process dies, while one build is *)
(* left.                                                                       *)
MCNext ==
    /\ Next
    /\ events' # events => \E b \in Build : \A c \in Build \ {b} : pc[c] = "ended"

MCFairSpec == Init /\ [][MCNext]_vars /\ \A b \in Build : WF_vars(Step(b))
=============================================================================
