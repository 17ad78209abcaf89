------------------------------ MODULE Committee ------------------------------
(***************************************************************************)
(* src/ctswarm/committee.py: who sits on a committee, what a member's      *)
(* answer counts for, and how the votes and the scanners are combined.     *)
(* A panel's answers are a function from its members.                      *)
(***************************************************************************)
EXTENDS Naturals, FiniteSets

CONSTANTS
    Model,          \* models with a benchmark score
    FamilyOf,       \* [whoever may be asked -> family]
    Quality         \* [Model -> benchmark score]

ASSUME CommitteeAssumption == IsFiniteSet(Model) /\ Quality \in [Model -> Nat]

Rule == {"majority", "unanimous", "any_reject_blocks"}

(* What a member may answer: a verdict; an error, a timeout, nothing or prose;  *)
(* or JSON that is not what _parse_vote takes for granted, which raises.        *)
Reply == {"approve", "reject", "abstain", "unusable", "malformed"}

(* The best one of each family among the models fit for agent roles. *)
EligibleMembers(fit) ==
    {m \in fit : m = CHOOSE best \in fit :
        /\ FamilyOf[best] = FamilyOf[m]
        /\ \A n \in fit : FamilyOf[n] = FamilyOf[m] => Quality[n] <= Quality[best]}

(* Slip: an answer that cannot be used is taken for consent. *)
CountsWhateverComes(reply) == reply # "abstain"

(* An abstention or an error is no vote. *)
Counts(reply) == reply \in {"approve", "reject"}

Families(answers) == {FamilyOf[m] : m \in {n \in DOMAIN answers : Counts(answers[n])}}

(* independent_votes: one per family, and the least favourable. *)
Rejecting(answers) ==
    {FamilyOf[m] : m \in {n \in DOMAIN answers : answers[n] = "reject"}}

(* The end of convene: scanners first, then the quorum, then the rule. *)
Convene(answers, scannersPassed, rule, minFamilies) ==
    LET families == Families(answers)
        rejects == Cardinality(Rejecting(answers))
        approves == Cardinality(families \ Rejecting(answers))
        quorum == Cardinality(families) >= minFamilies
        tied == rule = "majority" /\ approves = rejects
    IN [approved |-> /\ scannersPassed /\ quorum
                     /\ IF rule = "majority" THEN approves > rejects ELSE rejects = 0,
        needsHuman |-> scannersPassed /\ (~quorum \/ tied)]
=============================================================================
