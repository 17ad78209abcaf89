------------------------------ MODULE MCRouter ------------------------------
(* The router on three models of two backends, one of them hosted.           *)
EXTENDS Router, TLC

CONSTANTS small, large, cloud, ollama, openrouter, q1, q2, q3

MCAttr ==
    small :> [backend |-> ollama, tiers |-> {2, 3}, context |-> 1,
              tools |-> TRUE, hosted |-> FALSE, fit |-> TRUE]
    @@ large :> [backend |-> ollama, tiers |-> {1, 2}, context |-> 2,
                 tools |-> TRUE, hosted |-> FALSE, fit |-> TRUE]
    @@ cloud :> [backend |-> openrouter, tiers |-> {1, 2}, context |-> 2,
                 tools |-> TRUE, hosted |-> TRUE, fit |-> TRUE]

Plain == [tier |-> 2, pin |-> {}, bare |-> FALSE, tools |-> TRUE, context |-> 1,
          private |-> FALSE, stream |-> FALSE]
MCDemand ==
    {[Plain EXCEPT !.private = TRUE], [Plain EXCEPT !.stream = TRUE, !.tier = 1],
     [Plain EXCEPT !.pin = {large}], [Plain EXCEPT !.pin = {large}, !.bare = TRUE]}

Good == [net |-> "answer", status |-> 200, text |-> "plain", json |-> TRUE,
         choices |-> TRUE, cut |-> FALSE, calls |-> "none", content |-> TRUE]
(* An answer, a key that is not accepted, and a dead line. *)
MCReply == {Good, [Good EXCEPT !.status = 401], [Good EXCEPT !.net = "refused"]}

MCSymmetry == Permutations(Request)

(* Bounds: a backend dies or the router does; time passes only once something  *)
(* has failed; one request at a time has a pin, and a bare one only while a     *)
(* backend is down, since otherwise it is served like the other.               *)
Pins == {r \in Request : demand[r].pin # {}}
MCNext ==
    /\ Next
    /\ flips' + restarts' <= 1
    /\ clock' # clock => up # Backend \/ \E m \in Model : breaker[m] # Closed
    /\ Cardinality(Pins') <= 1
    /\ up = Backend => \A r \in Pins' : demand'[r].bare => demand[r].bare
MCSpec == Init /\ [][MCNext]_vars
=============================================================================
