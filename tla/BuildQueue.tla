------------------------------ MODULE BuildQueue ------------------------------
(***************************************************************************)
(* What the durable build queue of ctswarm/scheduler.py promises, without  *)
(* saying how: builds are taken up in the order they arrived, at most      *)
(* MaxConcurrent of them are in AgentField's hands at a time, and a build  *)
(* gets one verdict that never changes.  Nothing here knows of tasks, of   *)
(* the ledger or of restarts: BuildScheduler.tla implements this           *)
(* specification across all of them.                                       *)
(***************************************************************************)
EXTENDS Integers, FiniteSets

CONSTANTS
    MaxBuilds,      \* builds that ever arrive, numbered by arrival
    MaxConcurrent,  \* BuildScheduler.max_concurrent
    Scoped          \* builds that run inside the scheduler, never started

(* What the proofs suppose of them; BuildScheduler's assumption implies it. *)
QueueConstants ==
    /\ MaxBuilds \in Nat
    /\ MaxConcurrent \in Nat \ {0}
    /\ Scoped \subseteq 1 .. MaxBuilds

VARIABLE phase      \* what the outside world knows of each build

Verdicts == {"complete", "failed", "stopped", "blocked"}

Unfinished == {"waiting", "running"}

(***************************************************************************)
(* Written over all of 1 .. MaxBuilds, so that a build that has not        *)
(* arrived yet is simply not ahead of anyone.                              *)
(***************************************************************************)
Ahead(b) == {c \in 1 .. MaxBuilds : c < b /\ phase[c] \in Unfinished}

QueueInit == phase = [b \in 1 .. MaxBuilds |-> "absent"]

Arrive(b) ==
    /\ phase[b] = "absent"
    /\ \A c \in 1 .. MaxBuilds : c < b => phase[c] # "absent"
    /\ phase' = [phase EXCEPT ![b] = "waiting"]

(***************************************************************************)
(* A build starts only while fewer than MaxConcurrent of the builds that   *)
(* arrived before it are unfinished: first come, first served, up to the   *)
(* width of the queue.                                                     *)
(***************************************************************************)
StartBuild(b) ==
    /\ phase[b] = "waiting"
    /\ b \notin Scoped
    /\ Cardinality(Ahead(b)) < MaxConcurrent
    /\ phase' = [phase EXCEPT ![b] = "running"]

(***************************************************************************)
(* A set of builds ends, each with its own verdict.  Only a build that was *)
(* started, or one that runs inside the scheduler, can be complete.        *)
(***************************************************************************)
EndBuilds(ending) ==
    \E verdict \in [ending -> Verdicts] :
        /\ \A b \in ending :
            /\ phase[b] \in Unfinished
            /\ verdict[b] = "complete" => phase[b] = "running" \/ b \in Scoped
        /\ phase' = [b \in 1 .. MaxBuilds |->
                        IF b \in ending THEN verdict[b] ELSE phase[b]]

QueueNext ==
    \/ \E b \in 1 .. MaxBuilds : Arrive(b) \/ StartBuild(b)
    \/ \E ending \in SUBSET (1 .. MaxBuilds) : EndBuilds(ending)

QueueSpec == QueueInit /\ [][QueueNext]_phase

-------------------------------------------------------------------------------
(* phase gives every build one of the phases the queue knows. *)
QueueTypeOK == phase \in [1 .. MaxBuilds -> {"absent"} \cup Unfinished \cup Verdicts]

Running == {b \in 1 .. MaxBuilds : phase[b] = "running"}

(***************************************************************************)
(* The shared-resource limit of scheduler.py:3-8: never more than          *)
(* MaxConcurrent builds at once in AgentField's hands.                     *)
(***************************************************************************)
RunningWithinLimit == Cardinality(Running) <= MaxConcurrent

(***************************************************************************)
(* Nobody is overtaken by more than the width of the queue: whoever runs   *)
(* still has fewer than MaxConcurrent unfinished builds ahead of it.       *)
(***************************************************************************)
RunningInOrder == \A b \in Running : Cardinality(Ahead(b)) < MaxConcurrent
===============================================================================
