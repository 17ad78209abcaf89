----------------------------- MODULE ApprovalGate -----------------------------
(***************************************************************************)
(* What the approval service (ctswarm/approvals) promises to a build that  *)
(* must not go on without its owner, without saying how: a request is      *)
(* settled once, by a person's choice or by silence, and every answer is   *)
(* that verdict.  Nothing here knows of channels, cards or restarts:       *)
(* Approvals.tla implements this specification where there is one channel. *)
(***************************************************************************)
CONSTANTS
    Requests,   \* what builds ask, identified by content (dedupe_key)
    Routine     \* the requests that need nobody's approval

VARIABLES
    verdict,    \* what became of each request
    told        \* the last settled answer that was given for it

gateVars == <<verdict, told>>

Choices == {"approve", "deny", "modify", "pause"}
Settled == Choices \cup {"expired"}

GateInit ==
    /\ verdict = [k \in Requests |-> "unasked"]
    /\ told = [k \in Requests |-> "nothing"]

Ask(k) ==
    /\ verdict[k] = "unasked"
    /\ k \notin Routine
    /\ verdict' = [verdict EXCEPT ![k] = "open"]
    /\ UNCHANGED told

AskRoutine(k) ==
    /\ k \in Routine
    /\ verdict' = [verdict EXCEPT ![k] = "approve"]
    /\ told' = [told EXCEPT ![k] = "approve"]

(* Somebody chooses, or nobody did in time. *)
Settle(k) ==
    /\ verdict[k] = "open"
    /\ \E v \in Settled : verdict' = [verdict EXCEPT ![k] = v]
    /\ UNCHANGED told

Tell(k) ==
    /\ verdict[k] \in Settled
    /\ told' = [told EXCEPT ![k] = verdict[k]]
    /\ UNCHANGED verdict

GateNext == \E k \in Requests : Ask(k) \/ AskRoutine(k) \/ Settle(k) \/ Tell(k)

GateSpec == GateInit /\ [][GateNext]_gateVars

-------------------------------------------------------------------------------
(* Properties *)

GateTypeOK ==
    /\ verdict \in [Requests -> {"unasked", "open"} \cup Settled]
    /\ told \in [Requests -> {"nothing"} \cup Settled]

(***************************************************************************)
(* Whoever was given an answer was given the verdict, which therefore was  *)
(* the same for all who asked (approval_status, request_approval).         *)
(***************************************************************************)
ToldTheVerdict ==
    \A k \in Requests : told[k] # "nothing" => told[k] = verdict[k]
===============================================================================
