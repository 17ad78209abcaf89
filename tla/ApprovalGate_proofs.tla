------------------------- MODULE ApprovalGate_proofs -------------------------
(* Proofs about the approvals a build is promised. *)
EXTENDS ApprovalGate, TLAPS

(* The verdicts that a step can write, and those that are settled. *)
LEMMA GateTypes ==
    /\ "approve" \in Settled
    /\ "unasked" \notin Settled /\ "open" \notin Settled /\ "nothing" \notin Settled
BY DEF Settled, Choices

(***************************************************************************)
(* Every answer is the verdict (approval_status, request_approval): the    *)
(* invariant is inductive with the types, since a verdict that is settled  *)
(* is never written again, and nothing else is ever told.                  *)
(***************************************************************************)
THEOREM GateAnswers == GateSpec => [](GateTypeOK /\ ToldTheVerdict)
<1> DEFINE Inv == GateTypeOK /\ ToldTheVerdict
<1>1. GateInit => Inv
  BY GateTypes DEF GateInit, GateTypeOK, ToldTheVerdict
<1>2. Inv /\ [GateNext]_gateVars => Inv'
  <2> SUFFICES ASSUME Inv, [GateNext]_gateVars
               PROVE  Inv'
    OBVIOUS
  <2>1. CASE UNCHANGED gateVars
    BY <2>1 DEF gateVars, GateTypeOK, ToldTheVerdict
  <2>2. ASSUME NEW k \in Requests, Ask(k)
        PROVE  Inv'
    <3>1. told[k] = "nothing"
      BY <2>2, GateTypes DEF Ask, GateTypeOK, ToldTheVerdict
    <3> QED
      BY <2>2, <3>1 DEF Ask, GateTypeOK, ToldTheVerdict
  <2>3. ASSUME NEW k \in Requests, AskRoutine(k)
        PROVE  Inv'
    BY <2>3, GateTypes DEF AskRoutine, GateTypeOK, ToldTheVerdict
  <2>4. ASSUME NEW k \in Requests, Settle(k)
        PROVE  Inv'
    <3>1. told[k] = "nothing"
      BY <2>4, GateTypes DEF Settle, GateTypeOK, ToldTheVerdict
    <3> QED
      BY <2>4, <3>1 DEF Settle, GateTypeOK, ToldTheVerdict
  <2>5. ASSUME NEW k \in Requests, Tell(k)
        PROVE  Inv'
    BY <2>5 DEF Tell, GateTypeOK, ToldTheVerdict
  <2> QED
    BY <2>1, <2>2, <2>3, <2>4, <2>5 DEF GateNext
<1> QED
  BY <1>1, <1>2, PTL DEF GateSpec
==============================================================================
