-------------------------- MODULE FullBuild_proofs --------------------------
(***************************************************************************)
(* Proofs about full builds, for any policies an operator may send, any    *)
(* limits, any panel and any number of interventions.                      *)
(***************************************************************************)
EXTENDS FullBuild, FiniteSetTheorems, WellFoundedInduction, TLAPS

-----------------------------------------------------------------------------
(* Policies and roles. *)

LEMMA RoleFacts ==
  /\ "default" \in Role /\ "coder" \in Role /\ "verifier" \in Role
  /\ \A r \in Role : LaneOf[r] \in Lane
  /\ LaneOf["default"] = "implementation"
  BY DEF Role, LaneOf, Lane

LEMMA SettledFacts ==
  /\ Automatic \in Settled
  /\ \A a \in Assignment : a.target \in Target \ ModelTarget => WithoutModel(a) \in Settled
  /\ \A a \in Assignment : a.target \in ModelTarget /\ a.model # "" => a \in Settled
  /\ \A a \in Settled : a.target \notin ModelTarget => WithoutModel(a) = a
  /\ \A a \in Settled : a \in Assignment /\ a.target \in Target
  <1> USE DEF Settled, Assignment, Target, ModelTarget, HarnessTarget, Automatic, WithoutModel
  <1>1. Automatic \in Settled
    OBVIOUS
  <1>2. ASSUME NEW a \in Assignment, a.target \in Target \ ModelTarget
        PROVE  WithoutModel(a) \in Settled
    BY <1>2
  <1>3. ASSUME NEW a \in Assignment, a.target \in ModelTarget, a.model # ""
        PROVE  a \in Settled
    BY <1>3
  <1>4. ASSUME NEW a \in Settled, a.target \notin ModelTarget PROVE WithoutModel(a) = a
    <2>1. a = [target |-> a.target, model |-> a.model]
      OBVIOUS
    <2>2. a.model = ""
      BY <1>4
    <2> QED BY <2>1, <2>2
  <1> QED BY <1>1, <1>2, <1>3, <1>4

LEMMA PolicyFacts ==
  /\ DefaultPolicy \in RoutingPolicy
  /\ \A p \in RoutingPolicy : p \in [Lane -> Assignment] /\ Normalize(p) = p
  <1>1. DefaultPolicy \in RoutingPolicy
    BY SettledFacts, Zenon DEF DefaultPolicy, RoutingPolicy
  <1>2. ASSUME NEW p \in RoutingPolicy PROVE p \in [Lane -> Assignment] /\ Normalize(p) = p
    <2>1. p \in [Lane -> Settled]
      BY DEF RoutingPolicy
    <2>2. ASSUME NEW l \in Lane
          PROVE  (IF p[l].target \in ModelTarget THEN p[l] ELSE WithoutModel(p[l])) = p[l]
      BY <2>1, SettledFacts
    <2>3. Normalize(p) = [l \in Lane |-> p[l]]
      BY <2>2, Zenon DEF Normalize
    <2>4. p \in [Lane -> Assignment]
      BY <2>1, SettledFacts
    <2> QED BY <2>1, <2>3, <2>4
  <1> QED BY <1>1, <1>2

(* What is kept of a valid policy is a policy in normal form. *)
LEMMA NormalForm ==
  ASSUME NEW p \in [Lane -> Assignment], NEW only \in BOOLEAN, Valid(p, only)
  PROVE  Normalize(p) \in RoutingPolicy
  <1>1. ASSUME NEW l \in Lane
        PROVE  (IF p[l].target \in ModelTarget THEN p[l] ELSE WithoutModel(p[l])) \in Settled
    <2>1. /\ p[l] \in Assignment /\ p[l].target \in Target
          /\ p[l].target \in ModelTarget => p[l].model # ""
      BY DEF Valid, Permitted
    <2> QED BY <2>1, SettledFacts
  <1> QED BY <1>1, Zenon DEF Normalize, RoutingPolicy

(* A stored policy always loads, whatever the mode has become. *)
LEMMA Loads ==
  ASSUME NEW p \in RoutingPolicy, NEW only \in BOOLEAN
  PROVE  Load(p, only) \in RoutingPolicy
  <1>1. CASE Valid(p, only)
    BY <1>1, PolicyFacts, NormalForm DEF Load
  <1>2. CASE ~Valid(p, only) /\ ~only
    BY <1>2, PolicyFacts DEF Load
  <1>3. CASE ~Valid(p, only) /\ only
    <2>1. ASSUME NEW l \in Lane
          PROVE  (IF p[l].target \in Permitted(TRUE) THEN WithoutModel(p[l]) ELSE Automatic)
                    \in Settled
      BY SettledFacts DEF RoutingPolicy, Permitted
    <2>2. Load(p, only) = [l \in Lane |-> IF p[l].target \in Permitted(TRUE)
                                           THEN WithoutModel(p[l]) ELSE Automatic]
      BY <1>3 DEF Load
    <2> QED BY <2>1, <2>2, Zenon DEF RoutingPolicy
  <1> QED BY <1>1, <1>2, <1>3

ProviderMap == {p \in [Role -> Runtime \cup {"inherit"}] : p["default"] \in Runtime}

LEMMA SelectsRuntime ==
  ASSUME NEW strong PROVE Select(FALSE, TRUE, strong, FALSE) \in Runtime
  BY DEF Select, Runtime, Harness, First

LEMMA DefaultRolesType == DefaultRoles \in ProviderMap
  <1>1. CASE Only
    <2> DEFINE fallback == IF "claude_code" \in Ready THEN "claude_code" ELSE "codex"
    <2>1. \A r \in Role : SubscriptionLane[LaneOf[r]] \in Harness
      BY RoleFacts DEF SubscriptionLane, Lane, Harness
    <2>2. fallback \in Harness
      BY DEF Harness
    <2>3. DefaultRoles = [r \in Role |-> IF SubscriptionLane[LaneOf[r]] \in Ready
                                         THEN SubscriptionLane[LaneOf[r]] ELSE fallback]
      BY <1>1 DEF DefaultRoles, SubscriptionRoles
    <2> HIDE DEF fallback
    <2>4. Harness \subseteq Runtime
      BY DEF Runtime
    <2> QED BY <2>1, <2>2, <2>3, <2>4, RoleFacts DEF ProviderMap
  <1>2. CASE ~Only
    <2> DEFINE judge == Select(FALSE, TRUE, build.strong, FALSE)
    <2>1. DefaultRoles = HybridRoles(judge)
      BY <1>2 DEF DefaultRoles
    <2>2. judge \in Runtime /\ "open_code" \in Runtime
      BY SelectsRuntime DEF Runtime
    <2> HIDE DEF judge
    <2> QED BY <2>1, <2>2, RoleFacts DEF HybridRoles, ProviderMap
  <1> QED BY <1>1, <1>2

LEMMA OverlayType ==
  ASSUME NEW p \in RoutingPolicy, NEW roles \in ProviderMap
  PROVE  Overlay(p, roles) \in ProviderMap
  <1>1. CASE \A l \in Lane : p[l].target = "auto"
    BY <1>1 DEF Overlay
  <1>2. CASE ~\A l \in Lane : p[l].target = "auto"
    <2>1. \A t \in Target : RuntimeOfTarget(t) \in Runtime
      BY DEF RuntimeOfTarget, Runtime, HarnessTarget, Harness
    <2>2. \A r \in Role : p[LaneOf[r]].target \in Target
      BY RoleFacts, SettledFacts DEF RoutingPolicy
    <2>3. Overlay(p, roles) =
            [r \in Role |->
              IF p[LaneOf[r]].target # "auto" THEN RuntimeOfTarget(p[LaneOf[r]].target)
              ELSE IF roles[r] = "inherit" THEN roles["default"] ELSE roles[r]]
      BY <1>2 DEF Overlay
    <2>4. roles \in [Role -> Runtime \cup {"inherit"}] /\ roles["default"] \in Runtime
      BY DEF ProviderMap
    <2>5. ASSUME NEW r \in Role PROVE Overlay(p, roles)[r] \in Runtime
      BY <2>1, <2>2, <2>3, <2>4
    <2>6. Overlay(p, roles) = [r \in Role |-> Overlay(p, roles)[r]]
      BY <2>3
    <2>7. Overlay(p, roles) \in [Role -> Runtime]
      BY <2>5, <2>6
    <2> QED BY <2>7, RoleFacts DEF ProviderMap
  <1> QED BY <1>1, <1>2

LEMMA ReadyFacts ==
  /\ Ready \subseteq Harness
  /\ Ready # {} => First(Ready) \in Ready
  BY DEF Ready, First, Harness

-----------------------------------------------------------------------------
(* What any step finds: the parts of the invariant it cannot disturb stay. *)

SettingsOK ==
  /\ mode \in Mode /\ timeout \in Patience /\ patience \in Patience
  /\ policy \in RoutingPolicy /\ put \in PutRecord
BuildOK ==
  /\ build \in BuildRecord /\ control \in {"running", "paused", "stopped"}
  /\ watch \in WatchRecord /\ exec \in ExecRecord
  /\ build.phase # "running" => watch = NoWatch /\ exec = NoExec
  /\ build.phase # "submitting" => build.roles = NoRoles
  /\ build.phase \in {"submitting", "running"} => build.first # ""
  /\ build.phase = "ended" <=> build.outcome # ""
  /\ WatchIsHonest
GateOK == gate \in GateRecord /\ (gate.phase = "done" <=> gate.verdict # "")

LEMMA InvParts ==
  FullBuildInv <=> TypeOKCapacity /\ SettingsOK /\ BuildOK /\ GateOK /\ events \in Nat
  BY DEF FullBuildInv, TypeOK, OneLife, SettingsOK, BuildOK, GateOK

LEMMA InvNext ==
  TypeOKCapacity' /\ SettingsOK' /\ BuildOK' /\ GateOK' /\ events' \in Nat => FullBuildInv'
  BY DEF FullBuildInv, TypeOK, OneLife, SettingsOK, BuildOK, GateOK

LEMMA Kept ==
  /\ TypeOKCapacity /\ UNCHANGED capacityVars => TypeOKCapacity'
  /\ SettingsOK /\ UNCHANGED <<settings, patience>> => SettingsOK'
  /\ BuildOK /\ UNCHANGED <<build, control, watch, exec>> => BuildOK'
  /\ GateOK /\ UNCHANGED gate => GateOK'
  <1>1. TypeOKCapacity /\ UNCHANGED capacityVars => TypeOKCapacity'
    BY DEF TypeOKCapacity, capacityVars
  <1>2. SettingsOK /\ UNCHANGED <<settings, patience>> => SettingsOK'
    BY DEF SettingsOK, settings
  <1>3. BuildOK /\ UNCHANGED <<build, control, watch, exec>> => BuildOK'
    BY DEF BuildOK, WatchIsHonest, Blamed
  <1>4. GateOK /\ UNCHANGED gate => GateOK'
    BY DEF GateOK
  <1> QED BY <1>1, <1>2, <1>3, <1>4

LEMMA EventType ==
  ASSUME events \in Nat, Event PROVE events' \in Nat
  BY DEF Event

LEMMA NothingRecords ==
  /\ NoPut \in PutRecord
  /\ NoBuild \in BuildRecord /\ NoRoles \in [Role -> Runtime \cup {"inherit"}]
  /\ NoWatch \in WatchRecord /\ NoExec \in ExecRecord
  /\ NoGate \in GateRecord
  <1>1. NoPut \in PutRecord
    BY PolicyFacts DEF NoPut, PutRecord
  <1>2. NoRoles \in [Role -> Runtime \cup {"inherit"}]
    BY DEF NoRoles
  <1>3. NoBuild \in BuildRecord
    BY <1>2, PolicyFacts DEF NoBuild, BuildRecord, Runtime
  <1>4. NoWatch \in WatchRecord /\ NoExec \in ExecRecord
    BY FullBuildAssumption DEF NoWatch, WatchRecord, NoExec, ExecRecord, ExecStatus
  <1>5. NoGate \in GateRecord
    <2>1. <<>> \in [{} -> Reply]
      OBVIOUS
    <2>2. <<>> \in UNION {[S -> Reply] : S \in SUBSET Member}
      BY <2>1
    <2> QED BY <2>2 DEF NoGate, GateRecord, Rule
  <1> QED BY <1>1, <1>2, <1>3, <1>4, <1>5

-----------------------------------------------------------------------------
(* One lemma per action: it keeps the invariant. *)

LEMMA PutSettingsInv ==
  ASSUME FullBuildInv, NEW keys, NEW m, NEW t, PutSettings(keys, m, t) PROVE FullBuildInv'
  <1>1. SettingsOK'
    <2>1. mode' \in Mode /\ timeout' \in Patience
      BY InvParts DEF PutSettings, Accepted, SettingsOK
    <2> QED BY <2>1, InvParts DEF PutSettings, SettingsOK
  <1> QED BY <1>1, InvParts, InvNext, Kept, EventType DEF PutSettings

LEMMA PutPolicyInv ==
  ASSUME FullBuildInv, NEW request \in Request, PutPolicy(request) PROVE FullBuildInv'
  <1>1. request \in [Lane -> Assignment] /\ Only \in BOOLEAN
    BY FullBuildAssumption DEF Only, SubscriptionOnly
  <1>2. Normalize(request) \in RoutingPolicy
    BY <1>1, NormalForm DEF PutPolicy
  <1>3. policy' \in RoutingPolicy /\ put' \in PutRecord
    <2>1. CASE Only
      BY <2>1, <1>2, InvParts DEF PutPolicy, SettingsOK
    <2>2. CASE ~Only
      <3> DEFINE asked == [policy |-> Normalize(request), only |-> FALSE, pending |-> TRUE]
      <3>1. asked \in PutRecord
        BY <1>2 DEF PutRecord
      <3>2. Only = FALSE
        BY <2>2 DEF Only, SubscriptionOnly
      <3>3. put' = asked /\ policy' = policy
        BY <2>2, <3>2 DEF PutPolicy
      <3> QED BY <3>1, <3>3, InvParts DEF SettingsOK
    <2> QED BY <2>1, <2>2
  <1>4. SettingsOK'
    BY <1>3, InvParts DEF PutPolicy, SettingsOK
  <1> QED BY <1>4, InvParts, InvNext, Kept, EventType DEF PutPolicy

LEMMA SavePolicyInv ==
  ASSUME FullBuildInv, NEW served, SavePolicy(served) PROVE FullBuildInv'
  <1>1. policy' \in RoutingPolicy
    BY InvParts DEF SavePolicy, SettingsOK, PutRecord
  <1>2. SettingsOK'
    BY <1>1, InvParts, NothingRecords DEF SavePolicy, SettingsOK
  <1> QED BY <1>2, InvParts, InvNext, Kept DEF SavePolicy

LEMMA EnqueueInv ==
  ASSUME FullBuildInv, NEW sent \in Request \cup {Load(policy, Only)}, NEW fast \in BOOLEAN,
         NEW strong \in BOOLEAN, Enqueue(sent, fast, strong)
  PROVE  FullBuildInv'
  <1>1. Only \in BOOLEAN
    BY DEF Only, SubscriptionOnly
  <1>2. sent \in [Lane -> Assignment]
    BY <1>1, FullBuildAssumption, Loads, PolicyFacts, InvParts DEF SettingsOK
  <1>3. Normalize(sent) \in RoutingPolicy
    BY <1>1, <1>2, NormalForm DEF Enqueue
  <1>4. build' \in BuildRecord /\ build'.phase = "queued" /\ build'.roles = build.roles
          /\ build'.outcome = build.outcome
    BY <1>3, InvParts DEF Enqueue, BuildOK, BuildRecord
  <1>5. WatchIsHonest'
    <2>1. watch' = NoWatch /\ exec' = NoExec
      BY InvParts DEF Enqueue, BuildOK
    <2> QED BY <2>1, FullBuildAssumption DEF WatchIsHonest, NoWatch, NoExec
  <1>6. BuildOK'
    BY <1>4, <1>5, InvParts DEF Enqueue, BuildOK
  <1> QED BY <1>6, InvParts, InvNext, Kept DEF Enqueue

LEMMA ControlInv ==
  ASSUME FullBuildInv, NEW wish \in {"running", "paused", "stopped"}, Control(wish)
  PROVE  FullBuildInv'
  <1>1. BuildOK'
    BY InvParts DEF Control, BuildOK, WatchIsHonest, Blamed
  <1> QED BY <1>1, InvParts, InvNext, Kept, EventType DEF Control

LEMMA ReportType ==
  ASSUME TypeOKCapacity, NEW h \in Harness, NEW verdict, Report(h, verdict)
  PROVE  TypeOKCapacity'
  <1>1. limited' = limited \/ limited' = [limited EXCEPT ![h] = clock]
    BY DEF Report, NoteLimited
  <1>2. cleared' = cleared \/ cleared' = [cleared EXCEPT ![h] = clock]
    BY DEF Report, ClearLimited
  <1>3. clock \in Nat
    BY CapacityAssumption DEF TypeOKCapacity
  <1>4. limited' \in [Harness -> Nat] /\ cleared' \in [Harness -> Nat]
    BY <1>1, <1>2, <1>3 DEF TypeOKCapacity
  <1> QED BY <1>4 DEF Report, TypeOKCapacity

LEMMA AdviseInv ==
  ASSUME FullBuildInv, NEW h \in Harness, NEW verdict, Advise(h, verdict) PROVE FullBuildInv'
  <1>1. TypeOKCapacity'
    BY InvParts, ReportType DEF Advise
  <1> QED BY <1>1, InvParts, InvNext, Kept, EventType DEF Advise

LEMMA TimeInv ==
  ASSUME FullBuildInv, Time PROVE FullBuildInv'
  <1>1. TypeOKCapacity'
    BY InvParts, CapacityAssumption DEF Time, Tick, TypeOKCapacity
  <1> QED BY <1>1, InvParts, InvNext, Kept DEF Time

-----------------------------------------------------------------------------
LEMMA EndedOK ==
  ASSUME BuildOK, NEW outcome \in {"complete", "failed", "stopped", "blocked"}, Ended(outcome),
         UNCHANGED control
  PROVE  BuildOK'
  <1>1. /\ build' \in BuildRecord /\ build'.phase = "ended" /\ build'.outcome = outcome
        /\ build'.roles = NoRoles
    BY NothingRecords DEF Ended, NoBuild, BuildRecord
  <1>2. WatchIsHonest'
    BY FullBuildAssumption DEF Ended, WatchIsHonest, NoWatch, NoExec
  <1> QED BY <1>1, <1>2, NothingRecords DEF Ended, BuildOK

LEMMA RolesType ==
  ASSUME BuildOK, build.phase = "queued", Valid(build.snapshot, Only)
  PROVE  Overlay(PolicyOf(build), DefaultRoles) \in ProviderMap
  <1>1. build.snapshot \in RoutingPolicy
    BY DEF BuildOK, BuildRecord
  <1>2. PolicyOf(build) \in RoutingPolicy
    BY <1>1, PolicyFacts DEF PolicyOf
  <1> QED BY <1>2, DefaultRolesType, OverlayType

LEMMA SubmitInv ==
  ASSUME FullBuildInv, Submit PROVE FullBuildInv'
  <1> DEFINE roles == Overlay(PolicyOf(build), DefaultRoles)
             only == Only /\ Cardinality(Ready) = 1
  <1>1. CASE (Only /\ Ready = {}) \/ ~Valid(build.snapshot, Only)
    <2>1. Ended("blocked") \/ Ended("failed")
      BY <1>1 DEF Submit
    <2>2. BuildOK'
      BY <2>1, InvParts, EndedOK DEF Submit
    <2> QED BY <2>2, InvParts, InvNext, Kept DEF Submit
  <1>2. CASE ~(Only /\ Ready = {}) /\ Valid(build.snapshot, Only)
    <2>1. roles \in ProviderMap
      BY <1>2, InvParts, RolesType DEF Submit
    <2>2. only \in BOOLEAN
      OBVIOUS
    <2> DEFINE first == IF build.first = "" THEN roles["default"] ELSE build.first
    <2>3. /\ build' = [build EXCEPT !.phase = "submitting", !.roles = roles,
                                    !.base = roles["default"], !.first = first,
                                    !.degraded = only]
          /\ UNCHANGED <<watch, exec, control>> /\ build.phase = "queued"
      BY <1>2 DEF Submit
    <2>6. first \in Runtime /\ first # "" /\ roles["default"] \in Runtime
      <3>1. roles["default"] \in Runtime /\ "" \notin Runtime
        BY <2>1 DEF ProviderMap, Runtime, Harness
      <3>2. build.first \in Runtime \cup {""}
        BY InvParts DEF BuildOK, BuildRecord
      <3> QED BY <3>1, <3>2
    <2> HIDE DEF roles, only, first
    <2>4. /\ build' \in BuildRecord /\ build'.phase = "submitting"
          /\ build'.outcome = build.outcome /\ build'.first = first
      BY <2>1, <2>2, <2>3, <2>6, InvParts DEF BuildOK, BuildRecord, ProviderMap
    <2>7. WatchIsHonest'
      <3>1. watch' = NoWatch /\ exec' = NoExec
        BY <2>3, InvParts DEF BuildOK
      <3> QED BY <3>1, FullBuildAssumption DEF WatchIsHonest, NoWatch, NoExec
    <2>5. BuildOK'
      BY <2>3, <2>4, <2>6, <2>7, InvParts DEF BuildOK
    <2> QED BY <2>5, InvParts, InvNext, Kept DEF Submit
  <1> QED BY <1>1, <1>2

LEMMA SubmittedInv ==
  ASSUME FullBuildInv, NEW accepted \in BOOLEAN, Submitted(accepted) PROVE FullBuildInv'
  <1>1. CASE ~accepted
    <2>1. BuildOK'
      BY <1>1, InvParts, EndedOK DEF Submitted
    <2> QED BY <2>1, InvParts, InvNext, Kept DEF Submitted
  <1>2. CASE accepted
    <2>1. /\ build' \in BuildRecord /\ build'.phase = "running" /\ build'.outcome = build.outcome
          /\ build'.roles = NoRoles /\ build.outcome = "" /\ build'.first # ""
      <3>1. build' = [build EXCEPT !.phase = "running", !.roles = NoRoles]
        BY <1>2 DEF Submitted
      <3>2. build.phase = "submitting"
        BY DEF Submitted
      <3>3. /\ build \in BuildRecord /\ (build.phase = "ended" <=> build.outcome # "")
            /\ build.first # ""
        BY <3>2, InvParts DEF BuildOK
      <3> QED BY <3>1, <3>2, <3>3, NothingRecords DEF BuildRecord
    <2>2. WatchIsHonest'
      BY <1>2, FullBuildAssumption DEF Submitted, WatchIsHonest, NoWatch, NoExec
    <2>3. BuildOK'
      BY <1>2, <2>1, <2>2, InvParts, NothingRecords DEF Submitted, BuildOK
    <2> QED BY <2>3, InvParts, InvNext, Kept DEF Submitted
  <1> QED BY <1>1, <1>2

-----------------------------------------------------------------------------
LEMMA OlderFacts ==
  ASSUME NEW age \in 0..Horizon
  PROVE  /\ Older(age) \in 0..Horizon
         /\ \A other \in 0..Horizon : age <= other => Older(age) <= Older(other)
  BY FullBuildAssumption DEF Older

LEMMA MinuteInv ==
  ASSUME FullBuildInv, Minute PROVE FullBuildInv'
  <1> DEFINE still == Older(watch.still)
             elapsed == Older(watch.elapsed)
             quiet == Older(exec.quiet)
  <1>1. /\ watch.still \in 0..Horizon /\ watch.elapsed \in 0..Horizon
        /\ exec.quiet \in 0..Horizon
    BY InvParts DEF BuildOK, WatchRecord, ExecRecord
  <1>2. /\ still \in 0..Horizon /\ elapsed \in 0..Horizon /\ quiet \in 0..Horizon
        /\ watch.still <= watch.elapsed => still <= elapsed
        /\ watch.still <= exec.quiet => still <= quiet
    BY <1>1, OlderFacts
  <1>3. /\ watch' = [watch EXCEPT !.still = still, !.elapsed = elapsed]
        /\ exec' = [exec EXCEPT !.quiet = quiet]
        /\ build.phase = "running" /\ UNCHANGED <<build, control>>
    BY DEF Minute
  <1> HIDE DEF still, elapsed, quiet
  <1>4. watch' \in WatchRecord /\ exec' \in ExecRecord
    BY <1>2, <1>3, InvParts DEF BuildOK, WatchRecord, ExecRecord
  <1>5. WatchIsHonest'
    BY <1>2, <1>3, InvParts DEF BuildOK, WatchIsHonest, Blamed, WatchRecord, ExecRecord
  <1>6. BuildOK'
    BY <1>3, <1>4, <1>5, InvParts DEF BuildOK
  <1> QED BY <1>6, InvParts, InvNext, Kept DEF Minute

LEMMA MovesInv ==
  ASSUME FullBuildInv, NEW status \in ExecStatus, NEW message \in Messages,
         Moves(status, message)
  PROVE  FullBuildInv'
  <1> DEFINE print == IF watch.print = "current" THEN "older" ELSE watch.print
  <1>1. message \subseteq Harness \cup {"nobody"}
    BY DEF Messages, Signal
  <1>2. /\ exec' = [status |-> status, quiet |-> 0, says |-> exec.says \cup message]
        /\ watch' = [watch EXCEPT !.print = print]
        /\ build.phase = "running" /\ UNCHANGED <<build, control>>
    BY DEF Moves
  <1>3. print \in {"error", "older"}
    BY InvParts DEF BuildOK, WatchRecord
  <1> HIDE DEF print
  <1>4. watch' \in WatchRecord /\ exec' \in ExecRecord
    <2>1. watch \in WatchRecord /\ exec.says \subseteq Harness \cup {"nobody"} /\ 0 \in 0..Horizon
      <3>1. watch \in WatchRecord /\ exec.says \subseteq Harness \cup {"nobody"}
        BY InvParts DEF BuildOK, ExecRecord
      <3> QED BY <3>1, FullBuildAssumption
    <2>2. watch' \in WatchRecord
      BY <1>2, <1>3, <2>1 DEF WatchRecord
    <2> DEFINE says == exec.says \cup message
    <2>3. exec' = [status |-> status, quiet |-> 0, says |-> says]
          /\ says \in SUBSET (Harness \cup {"nobody"})
      BY <1>1, <1>2, <2>1
    <2> HIDE DEF says
    <2>4. exec' \in ExecRecord
      <3>1. [status |-> status, quiet |-> 0, says |-> says] \in ExecRecord
        BY <2>1, <2>3 DEF ExecRecord
      <3> QED BY <2>3, <3>1
    <2> QED BY <2>2, <2>4
  <1>5. WatchIsHonest'
    BY <1>2, <1>3, InvParts DEF BuildOK, WatchIsHonest, Blamed, WatchRecord, ExecRecord
  <1>6. BuildOK'
    BY <1>2, <1>4, <1>5, InvParts DEF BuildOK
  <1>7. events' \in Nat
    BY InvParts, EventType DEF Moves
  <1> QED BY <1>6, <1>7, InvParts, InvNext, Kept DEF Moves

(* What one iteration of the watchdog ends in. *)
LEMMA WatchCases ==
  ASSUME NEW poll \in Poll, Watch(poll)
  PROVE  /\ build.phase = "running" /\ UNCHANGED <<settings, patience, control, gate, events>>
         /\ UNCHANGED capacityVars \/ NoteExhaustion(News(poll))
         /\ \/ Ended("stopped")
            \/ TooLate /\ Ended("failed")
            \/ /\ poll = "current" /\ exec.status = "lost"
               /\ build' = [build EXCEPT !.phase = "queued", !.base = "open_code",
                                         !.degraded = FALSE]
               /\ watch' = NoWatch /\ exec' = NoExec
            \/ exec.status \notin {"running", "lost"} /\ Ended(Verdict(exec.status))
            \/ Stalled(poll) /\ Ended("failed")
            \/ /\ watch' = [watch EXCEPT !.print = IF poll = "nothing" THEN @ ELSE poll,
                                         !.still = StillAfter(poll), !.noted = @ \cup News(poll)]
               /\ UNCHANGED <<build, exec>>
  <1>1. /\ build.phase = "running" /\ UNCHANGED <<settings, patience, control, gate, events>>
        /\ UNCHANGED capacityVars \/ NoteExhaustion(News(poll))
    BY DEF Watch
  <1>2. CASE control = "stopped" \/ TooLate
    BY <1>1, <1>2 DEF Watch
  <1>3. CASE ~(control = "stopped" \/ TooLate)
    BY <1>1, <1>3 DEF Watch
  <1> QED BY <1>1, <1>2, <1>3

LEMMA WatchInv ==
  ASSUME FullBuildInv, NEW poll \in Poll, Watch(poll) PROVE FullBuildInv'
  <1>1. News(poll) \subseteq Blamed /\ Blamed \subseteq Harness
    BY DEF News, Blamed
  <1>2. TypeOKCapacity'
    <2>1. clock \in Nat /\ limited \in [Harness -> Nat]
      BY InvParts, CapacityAssumption DEF TypeOKCapacity
    <2>2. CASE NoteExhaustion(News(poll))
      <3>1. limited' = [h \in Harness |-> IF h \in News(poll) THEN clock ELSE limited[h]]
        BY <2>2 DEF NoteExhaustion
      <3>2. limited' \in [Harness -> Nat]
        BY <3>1, <2>1
      <3> QED BY <2>2, <3>2, InvParts DEF NoteExhaustion, TypeOKCapacity
    <2> QED BY <2>2, InvParts, Kept, WatchCases
  <1>3. BuildOK'
    <2>1. CASE \E o \in {"complete", "failed", "stopped", "blocked"} : Ended(o)
      BY <2>1, InvParts, EndedOK, WatchCases
    <2>2. exec.status \notin {"running", "lost"} =>
             Verdict(exec.status) \in {"complete", "failed", "stopped", "blocked"}
      BY DEF Verdict
    <2>3. CASE /\ build' = [build EXCEPT !.phase = "queued", !.base = "open_code",
                                         !.degraded = FALSE]
               /\ watch' = NoWatch /\ exec' = NoExec
      <3>1. /\ build' \in BuildRecord /\ build'.phase = "queued" /\ build'.outcome = build.outcome
            /\ build'.roles = build.roles
        BY <2>3, InvParts DEF BuildOK, BuildRecord, Runtime
      <3>2. WatchIsHonest'
        BY <2>3, FullBuildAssumption DEF WatchIsHonest, NoWatch, NoExec
      <3> QED BY <2>3, <3>1, <3>2, InvParts, NothingRecords, WatchCases DEF BuildOK
    <2>4. CASE /\ watch' = [watch EXCEPT !.print = IF poll = "nothing" THEN @ ELSE poll,
                                         !.still = StillAfter(poll), !.noted = @ \cup News(poll)]
               /\ UNCHANGED <<build, exec>>
      <3> DEFINE print == IF poll = "nothing" THEN watch.print ELSE poll
                 noted == watch.noted \cup News(poll)
                 still == StillAfter(poll)
      <3>1. watch' = [watch EXCEPT !.print = print, !.still = still, !.noted = noted]
        BY <2>4
      <3>2. /\ watch.print \in {"current", "error", "older"} /\ watch.noted \subseteq Blamed
            /\ watch.still \in 0..Horizon /\ watch.elapsed \in 0..Horizon
            /\ exec.quiet \in 0..Horizon /\ watch.still <= watch.elapsed
            /\ watch.print = "current" => watch.still <= exec.quiet
        BY InvParts DEF BuildOK, WatchRecord, ExecRecord, WatchIsHonest
      <3>3. print \in {"current", "error", "older"} /\ noted \subseteq Blamed
        BY <1>1, <3>2 DEF Poll
      <3>4. /\ still = 0 \/ (still = watch.still /\ (print = "current" => watch.print = "current"))
            /\ still \in 0..Horizon /\ still <= watch.elapsed
            /\ print = "current" => still <= exec.quiet
        BY <3>2, FullBuildAssumption DEF StillAfter
      <3> HIDE DEF print, noted, still
      <3>5. watch' \in WatchRecord
        BY <1>1, <3>1, <3>3, <3>4, InvParts DEF BuildOK, WatchRecord
      <3>7. Blamed' = Blamed
        BY <2>4 DEF Blamed
      <3>6. WatchIsHonest'
        BY <2>4, <3>7, <3>1, <3>2, <3>3, <3>4, InvParts DEF BuildOK, WatchIsHonest, WatchRecord
      <3> QED BY <2>4, <3>5, <3>6, InvParts, WatchCases DEF BuildOK
    <2> QED BY <2>1, <2>2, <2>3, <2>4, WatchCases
  <1> QED BY <1>2, <1>3, InvParts, InvNext, Kept, WatchCases

LEMMA RestartInv ==
  ASSUME FullBuildInv, Restart PROVE FullBuildInv'
  <1>1. SettingsOK'
    BY InvParts, NothingRecords DEF Restart, SettingsOK
  <1>2. build' \in BuildRecord
    <2>1. CASE build.phase = "submitting"
      <3>1. build' = [NoBuild EXCEPT !.phase = "queued", !.snapshot = build.snapshot,
                                     !.fast = build.fast, !.strong = build.strong,
                                     !.first = build.first]
        BY <2>1 DEF Restart
      <3>2. /\ build.snapshot \in RoutingPolicy /\ build.fast \in BOOLEAN
            /\ build.strong \in BOOLEAN /\ build.first \in Runtime \cup {""}
        BY InvParts DEF BuildOK, BuildRecord
      <3>3. ASSUME NEW snapshot \in RoutingPolicy, NEW fast \in BOOLEAN,
                   NEW strong \in BOOLEAN, NEW first \in Runtime \cup {""}
            PROVE  [NoBuild EXCEPT !.phase = "queued", !.snapshot = snapshot, !.fast = fast,
                                   !.strong = strong, !.first = first] \in BuildRecord
        BY NothingRecords DEF BuildRecord
      <3> QED BY <3>1, <3>2, <3>3
    <2>2. CASE build.phase = "running"
      <3>1. build' = [build EXCEPT !.base = build.first]
        BY <2>2 DEF Restart
      <3>2. build \in BuildRecord /\ build.first \in Runtime
        BY <2>2, InvParts DEF BuildOK, BuildRecord
      <3> QED BY <3>1, <3>2 DEF BuildRecord
    <2>3. CASE build.phase \notin {"submitting", "running"}
      BY <2>3, InvParts DEF Restart, BuildOK
    <2> QED BY <2>1, <2>2, <2>3
  <1>3. /\ build'.phase # "submitting" /\ build'.roles = NoRoles
        /\ build'.phase = "ended" <=> build'.outcome # ""
        /\ build'.phase = "running" <=> build.phase = "running"
        /\ build'.phase = "running" => build'.first # ""
    <2>1. build \in BuildRecord
      BY InvParts DEF BuildOK
    <2> QED BY <2>1, InvParts DEF Restart, BuildOK, BuildRecord, NoBuild
  <1>4. WatchIsHonest'
    <2>1. exec \in ExecRecord
      BY InvParts DEF BuildOK
    <2>2. exec.quiet \in Nat
      BY <2>1, FullBuildAssumption DEF ExecRecord
    <2> QED BY <2>2 DEF Restart, WatchIsHonest, NoWatch
  <1>5. BuildOK'
    BY <1>2, <1>3, <1>4, InvParts, NothingRecords DEF Restart, BuildOK
  <1> QED BY <1>1, <1>5, InvParts, InvNext, Kept, EventType DEF Restart

-----------------------------------------------------------------------------
(* The gates. *)

LEMMA ScansType == \A scans \in Scans : scans \subseteq Status
  BY DEF Scans, Secrets, Dependencies, Tests, AntiSlop, ScanSecrets, ScanDependencies,
         ScanTests, ScanAntiSlop, Status

LEMMA PanelsType == \A panel \in Panels : panel \subseteq Member
  BY DEF Panels, EligibleMembers, Member

LEMMA AskOK ==
  ASSUME GateOK, NEW panel \in SUBSET Member, NEW scans \in SUBSET Status, NEW rule \in Rule,
         NEW quorum \in 1..3, NEW crash \in BOOLEAN, Ask(panel, scans, rule, quorum, crash)
  PROVE  GateOK'
  <1>1. CASE Cardinality(panel) < quorum
    <2>1. gate' = [NoGate EXCEPT !.phase = "done", !.verdict = "no quorum"]
      BY <1>1 DEF Ask
    <2> QED BY <2>1, NothingRecords DEF GateOK, GateRecord
  <1>2. CASE ~(Cardinality(panel) < quorum)
    <2>1. gate' = [NoGate EXCEPT !.phase = "asking", !.panel = panel, !.scans = scans,
                                 !.rule = rule, !.quorum = quorum, !.crash = crash]
      BY <1>2 DEF Ask
    <2>2. quorum \in 0..3 /\ NoGate \in GateRecord
      BY NothingRecords
    <2>3. gate' \in GateRecord
      BY <2>1, <2>2 DEF GateRecord
    <2>4. gate'.phase = "asking" /\ gate'.verdict = ""
      BY <2>1 DEF NoGate
    <2> QED BY <2>3, <2>4 DEF GateOK
  <1> QED BY <1>1, <1>2

LEMMA StartGatesInv ==
  ASSUME FullBuildInv, NEW scans \in Scans, NEW panel \in Panels, NEW reachable \in BOOLEAN,
         StartGates(scans, panel, reachable)
  PROVE  FullBuildInv'
  <1>1. Only \in BOOLEAN
    BY DEF Only, SubscriptionOnly
  <1>2. CASE ~Summarize(scans)
    <2>1. gate' = [NoGate EXCEPT !.phase = "done", !.verdict = "blocked"]
      BY <1>2 DEF StartGates
    <2>2. GateOK'
      BY <2>1, NothingRecords DEF GateOK, GateRecord
    <2> QED BY <2>2, InvParts, InvNext, Kept DEF StartGates
  <1>3. CASE Summarize(scans)
    <2> DEFINE asked == IF reachable \/ Only THEN panel ELSE {}
    <2>1. asked \in SUBSET Member /\ scans \in SUBSET Status
      BY PanelsType, ScansType
    <2>2. Ask(asked, scans, "any_reject_blocks", 2, Only)
      BY <1>3 DEF StartGates
    <2> HIDE DEF asked
    <2>3. GateOK /\ "any_reject_blocks" \in Rule /\ 2 \in 1..3
      BY InvParts DEF Rule
    <2>4. GateOK'
      BY <1>1, <2>1, <2>2, <2>3, AskOK
    <2> QED BY <2>4, InvParts, InvNext, Kept DEF StartGates
  <1> QED BY <1>2, <1>3

LEMMA StartCommitteeInv ==
  ASSUME FullBuildInv, NEW panel \in Panels, NEW rule \in Rule, NEW quorum \in 1..3,
         StartCommittee(panel, rule, quorum)
  PROVE  FullBuildInv'
  <1>1. panel \in SUBSET Member /\ {} \in SUBSET Status
    BY PanelsType
  <1>2. GateOK'
    BY <1>1, AskOK, InvParts DEF StartCommittee
  <1> QED BY <1>2, InvParts, InvNext, Kept DEF StartCommittee

LEMMA AnswerInv ==
  ASSUME FullBuildInv, NEW m \in gate.panel, NEW reply \in Reply, Answer(m, reply)
  PROVE  FullBuildInv'
  <1>1. gate \in GateRecord /\ m \in Member /\ gate.phase = "asking" /\ gate.verdict = ""
    BY InvParts DEF GateOK, GateRecord, Answer
  <1>2. CASE reply = "malformed"
    <2>1. gate' = [NoGate EXCEPT !.phase = "done", !.verdict = "crashed"]
      BY <1>2 DEF Answer
    <2>2. GateOK'
      BY <2>1, NothingRecords DEF GateOK, GateRecord
    <2> QED BY <2>2, InvParts, InvNext, Kept DEF Answer
  <1>3. CASE reply # "malformed"
    <2> DEFINE answers == [n \in DOMAIN gate.answers \cup {m} |->
                              IF n = m THEN reply ELSE gate.answers[n]]
    <2>1. answers \in UNION {[S -> Reply] : S \in SUBSET Member}
      <3>1. PICK S \in SUBSET Member : gate.answers \in [S -> Reply]
        BY <1>1 DEF GateRecord
      <3>2. answers \in [S \cup {m} -> Reply] /\ S \cup {m} \in SUBSET Member
        BY <1>1, <3>1
      <3> QED BY <3>2
    <2>2. gate' = [gate EXCEPT !.answers = answers]
      BY <1>3 DEF Answer
    <2> HIDE DEF answers
    <2>3. GateOK'
      BY <1>1, <2>1, <2>2 DEF GateOK, GateRecord
    <2> QED BY <2>3, InvParts, InvNext, Kept DEF Answer
  <1> QED BY <1>2, <1>3

LEMMA DecideInv ==
  ASSUME FullBuildInv, Decide PROVE FullBuildInv'
  <1>1. PICK v \in {"crashed", "approved", "blocked"} :
           gate' = [gate EXCEPT !.phase = "done", !.verdict = v]
    BY DEF Decide
  <1>2. GateOK'
    BY <1>1, InvParts DEF GateOK, GateRecord
  <1> QED BY <1>2, InvParts, InvNext, Kept DEF Decide

-----------------------------------------------------------------------------
LEMMA InitInv ==
  ASSUME Init PROVE FullBuildInv
  <1>1. TypeOKCapacity
    BY CapacityAssumption DEF Init, InitCapacity, TypeOKCapacity
  <1>2. SettingsOK
    BY NothingRecords, PolicyFacts DEF Init, SettingsOK
  <1>3. WatchIsHonest
    BY FullBuildAssumption DEF Init, WatchIsHonest, NoWatch, NoExec
  <1>4. BuildOK
    BY <1>3, NothingRecords DEF Init, BuildOK, NoBuild
  <1>5. GateOK
    BY NothingRecords DEF Init, GateOK, NoGate
  <1> QED BY <1>1, <1>2, <1>4, <1>5, InvParts DEF Init

LEMMA NextInv ==
  ASSUME FullBuildInv, [Next]_vars PROVE FullBuildInv'
  <1>1. CASE UNCHANGED vars
    BY <1>1, InvParts, InvNext, Kept DEF vars
  <1>2. CASE Next
    BY <1>2, PutSettingsInv, PutPolicyInv, SavePolicyInv, EnqueueInv, ControlInv, AdviseInv,
       TimeInv, SubmitInv, SubmittedInv, MinuteInv, MovesInv, WatchInv, RestartInv,
       StartGatesInv, StartCommitteeInv, AnswerInv, DecideInv
       DEF Next, Submission, Loop
  <1> QED BY <1>1, <1>2

(* Every policy stored or queued is one a host can serve in some mode, the     *)
(* watchdog never believes a build to be quieter than it is, and a harness is  *)
(* blamed in the ledger only if the execution named it, or named nobody while  *)
(* the record (after a restart that of the first submission) gave it the       *)
(* build: for any requests, limits and panel (orchestrator.py:683-698, 1163).  *)
THEOREM FullBuildSafe == Spec => []FullBuildInv
  <1> QED BY InitInv, NextInv, PTL DEF Spec

-----------------------------------------------------------------------------
(* What an approval rests on. *)

LEMMA ReachedFinite ==
  ASSUME GateOK, NEW reply PROVE IsFiniteSet(Reached(reply))
  <1> DEFINE who == {n \in DOMAIN gate.answers : gate.answers[n] = reply}
  <1>1. DOMAIN gate.answers \subseteq Member
    BY DEF GateOK, GateRecord
  <1>2. IsFiniteSet(Harness)
    <2>1. IsFiniteSet({"claude_code"}) /\ IsFiniteSet({"codex"})
      BY FS_Singleton
    <2>2. Harness = {"claude_code"} \cup {"codex"}
      BY DEF Harness
    <2> QED BY <2>1, <2>2, FS_Union
  <1>3. IsFiniteSet(Member)
    BY <1>2, CommitteeAssumption, FS_Union DEF Member
  <1>4. IsFiniteSet(who)
    BY <1>1, <1>3, FS_Subset
  <1> HIDE DEF who
  <1>5. IsFiniteSet({FamilyOf[m] : m \in who})
    <2> DEFINE families == {FamilyOf[m] : m \in who}
               family == [m \in who |-> FamilyOf[m]]
    <2>1. family \in Surjection(who, families)
      BY DEF Surjection
    <2> QED BY <1>4, <2>1, FS_Surjection
  <1> QED BY <1>5 DEF Reached, who

LEMMA ReachedFacts ==
  /\ Rejecting(gate.answers) = Reached("reject")
  /\ Families(gate.answers) = Reached("approve") \cup Reached("reject")
  /\ Families(gate.answers) \ Rejecting(gate.answers) = Reached("approve") \ Reached("reject")
  <1>1. Rejecting(gate.answers) = Reached("reject")
    BY DEF Rejecting, Reached
  <1>2. Families(gate.answers) = Reached("approve") \cup Reached("reject")
    BY DEF Families, Counts, Reached
  <1> QED BY <1>1, <1>2

LEMMA Approving ==
  ASSUME GateOK, Decide, gate'.verdict = "approved"
  PROVE  /\ gate.scans \subseteq {"passed"}
         /\ Cardinality(Reached("approve") \cup Reached("reject")) >= gate.quorum
         /\ gate.rule = "majority" =>
               Cardinality(Reached("approve") \ Reached("reject")) > Cardinality(Reached("reject"))
         /\ gate.rule # "majority" => Reached("reject") = {}
  <1> DEFINE passed == Summarize(gate.scans)
             result == Convene(gate.answers, passed, gate.rule, gate.quorum)
  <1>1. result.approved
    <2> HIDE DEF result
    <2>1. gate' = [gate EXCEPT !.phase = "done",
                     !.verdict = IF gate.crash THEN "crashed"
                                 ELSE IF result.approved /\ ~result.needsHuman THEN "approved"
                                 ELSE "blocked"]
      BY DEF Decide, result
    <2> QED BY <2>1 DEF GateOK, GateRecord
  <1>2. /\ passed
        /\ Cardinality(Families(gate.answers)) >= gate.quorum
        /\ IF gate.rule = "majority"
           THEN Cardinality(Families(gate.answers) \ Rejecting(gate.answers))
                   > Cardinality(Rejecting(gate.answers))
           ELSE Cardinality(Rejecting(gate.answers)) = 0
    <2> HIDE DEF passed
    <2> QED BY <1>1, Zenon DEF Convene
  <1>3. gate.scans \subseteq {"passed"}
    BY <1>2 DEF Summarize
  <1>4. Cardinality(Reached("reject")) = 0 => Reached("reject") = {}
    BY ReachedFinite, FS_EmptySet
  <1> HIDE DEF passed
  <1> QED BY <1>2, <1>3, <1>4, ReachedFacts

LEMMA EarnedNext ==
  ASSUME FullBuildInv, ApprovalIsEarned, [Next]_vars PROVE ApprovalIsEarned'
  <1>1. CASE UNCHANGED gate
    BY <1>1 DEF ApprovalIsEarned, Reached
  <1>2. CASE gate'.verdict # "approved"
    BY <1>2 DEF ApprovalIsEarned
  <1>3. CASE Decide /\ gate'.verdict = "approved"
    <2>1. /\ gate'.scans = gate.scans /\ gate'.answers = gate.answers
          /\ gate'.rule = gate.rule /\ gate'.quorum = gate.quorum
      BY <1>3, InvParts DEF Decide, GateOK, GateRecord
    <2>2. Reached("approve")' = Reached("approve") /\ Reached("reject")' = Reached("reject")
      BY <2>1 DEF Reached
    <2>3. ApprovalIsEarned' <=>
             (gate'.verdict = "approved" =>
                /\ gate.scans \subseteq {"passed"}
                /\ Cardinality(Reached("approve") \cup Reached("reject")) >= gate.quorum
                /\ Reached("reject") # {} =>
                     /\ gate.rule = "majority"
                     /\ Cardinality(Reached("approve") \ Reached("reject"))
                           > Cardinality(Reached("reject")))
      BY <2>1, <2>2, Zenon DEF ApprovalIsEarned
    <2>4. GateOK
      BY InvParts
    <2> QED BY <1>3, <2>3, <2>4, Approving
  <1>4. CASE Next /\ gate' # gate
    <2>1. \/ Decide
          \/ \E scans \in Scans, panel \in Panels, reachable \in BOOLEAN :
                StartGates(scans, panel, reachable)
          \/ \E panel \in Panels, rule \in Rule, quorum \in 1..3 :
                StartCommittee(panel, rule, quorum)
          \/ \E m \in gate.panel, reply \in Reply : Answer(m, reply)
      BY <1>4 DEF Next, PutSettings, PutPolicy, SavePolicy, Enqueue, Control, Advise, Time,
                  Submission, Submit, Submitted, Minute, Moves, Loop, Watch, Restart
    <2>2. ASSUME NEW panel, NEW scans, NEW rule, NEW quorum, NEW crash,
                 Ask(panel, scans, rule, quorum, crash)
          PROVE  gate'.verdict # "approved"
      BY <2>2 DEF Ask, NoGate
    <2>3. ASSUME NEW scans, NEW panel, NEW reachable, StartGates(scans, panel, reachable)
          PROVE  gate'.verdict # "approved"
      BY <2>2, <2>3 DEF StartGates, NoGate
    <2>4. ASSUME NEW panel, NEW rule, NEW quorum, StartCommittee(panel, rule, quorum)
          PROVE  gate'.verdict # "approved"
      BY <2>2, <2>4 DEF StartCommittee
    <2>5. ASSUME NEW m, NEW reply, Answer(m, reply)
          PROVE  gate'.verdict # "approved"
      BY <2>5, InvParts DEF Answer, NoGate, GateOK, GateRecord
    <2> QED BY <1>2, <1>3, <2>1, <2>3, <2>4, <2>5
  <1> QED BY <1>1, <1>4 DEF vars

(* A green gate means what it says: every scanner passed, a quorum of families *)
(* answered, and nobody's objection was outvoted against the rule, for every   *)
(* panel, every order of answers and everything a member may reply.           *)
THEOREM ApprovalEarned == Spec => []ApprovalIsEarned
  <1>1. Init => ApprovalIsEarned
    <2>1. Init => gate = NoGate
      BY DEF Init
    <2>2. NoGate.verdict = ""
      BY DEF NoGate
    <2> QED BY <2>1, <2>2 DEF ApprovalIsEarned
  <1> QED BY <1>1, EarnedNext, FullBuildSafe, PTL DEF Spec

-----------------------------------------------------------------------------
(* What a build that is given up has been seen to do. *)

LEMMA GivenUp ==
  ASSUME FullBuildInv, [Next]_vars, build.phase = "running", build'.outcome = "failed"
  PROVE  \/ TooLate
         \/ exec.status \in {"failed", "unsuccessful"}
         \/ exec.quiet >= patience
         \/ watch.print # "current"
  <1>1. build.outcome = ""
    BY InvParts DEF BuildOK
  <1>2. PICK poll \in Poll : Watch(poll)
    <2>1. \/ \E poll \in Poll : Watch(poll)
          \/ build' = [build EXCEPT !.base = build.first]
          \/ UNCHANGED build
      BY <1>1 DEF vars, Next, PutSettings, PutPolicy, SavePolicy, Enqueue, Control, Advise, Time,
            Submission, Submit, Submitted, Minute, Moves, Loop, Restart, StartGates,
            StartCommittee, Answer, Decide
    <2>2. CASE build' = [build EXCEPT !.base = build.first]
      BY <1>1, <2>2, InvParts DEF BuildOK, BuildRecord
    <2> QED BY <1>1, <2>1, <2>2
  <1>3. Ended("failed") \/ Ended("stopped") \/ Ended("complete") => build'.phase = "ended"
    BY DEF Ended, NoBuild
  <1>4. Ended("stopped") => build'.outcome # "failed"
    BY DEF Ended, NoBuild
  <1>5. CASE exec.status \notin {"running", "lost"} /\ Ended(Verdict(exec.status))
    <2>1. Verdict(exec.status) = "failed"
      BY <1>5 DEF Ended, NoBuild
    <2>2. exec.status \in ExecStatus
      BY InvParts DEF BuildOK, ExecRecord
    <2> QED BY <1>5, <2>1, <2>2 DEF Verdict, ExecStatus
  <1>6. CASE Stalled(poll)
    <2>1. patience \in Nat \ {0}
      BY InvParts, PolicyAssumption DEF SettingsOK
    <2>2. watch.still >= patience
      BY <1>6, <2>1 DEF Stalled, StillAfter
    <2>3. watch \in WatchRecord /\ exec \in ExecRecord
          /\ (watch.print = "current" => watch.still <= exec.quiet)
      BY InvParts DEF BuildOK, WatchIsHonest
    <2>4. watch.still \in Nat /\ exec.quiet \in Nat
      BY <2>3, FullBuildAssumption DEF WatchRecord, ExecRecord
    <2> QED BY <2>1, <2>2, <2>3, <2>4
  <1>7. CASE build' = [build EXCEPT !.phase = "queued", !.base = "open_code", !.degraded = FALSE]
    BY <1>1, <1>7, InvParts DEF BuildOK, BuildRecord
  <1> QED BY <1>1, <1>2, <1>4, <1>5, <1>6, <1>7, WatchCases

(* The watchdog never gives up a build that changed within the limit, unless no *)
(* poll got to see that it did, for any limits and any answers to the polls.   *)
THEOREM KilledOnlyWhenStill == Spec => KilledOnlyIfStill
  <1>1. FullBuildInv /\ [Next]_vars =>
          [build.phase = "running" /\ build'.outcome = "failed" =>
              \/ TooLate
              \/ exec.status \in {"failed", "unsuccessful"}
              \/ exec.quiet >= patience
              \/ watch.print # "current"]_vars
    BY GivenUp
  <1> QED BY <1>1, FullBuildSafe, PTL DEF Spec, KilledOnlyIfStill

-----------------------------------------------------------------------------
(* What a submission decides. *)

LEMMA OverlayRuns ==
  ASSUME NEW p \in RoutingPolicy, NEW roles \in ProviderMap, NEW r \in Role, NEW fast \in BOOLEAN,
         NEW t, t = p[IF fast THEN "implementation" ELSE LaneOf[r]].target
  PROVE  Runs(Overlay(p, roles), r, fast) =
            IF t = "auto" THEN Runs(roles, r, fast) ELSE RuntimeOfTarget(t)
  <1>1. CASE \A l \in Lane : p[l].target = "auto"
    <2>1. t = "auto"
      BY <1>1, RoleFacts
    <2> QED BY <1>1, <2>1 DEF Overlay
  <1>2. CASE ~\A l \in Lane : p[l].target = "auto"
    <2>1. \A x \in Role : Overlay(p, roles)[x] =
             IF p[LaneOf[x]].target # "auto" THEN RuntimeOfTarget(p[LaneOf[x]].target)
             ELSE IF roles[x] = "inherit" THEN roles["default"] ELSE roles[x]
      BY <1>2 DEF Overlay
    <2>2. \A u : RuntimeOfTarget(u) # "inherit"
      BY DEF RuntimeOfTarget, HarnessTarget
    <2>3. roles["default"] # "inherit"
      BY DEF ProviderMap, Runtime, Harness
    <2>4. CASE fast
      BY <2>1, <2>2, <2>3, <2>4, RoleFacts DEF Runs
    <2>5. CASE ~fast
      BY <2>1, <2>2, <2>3, <2>5, RoleFacts DEF Runs
    <2> QED BY <2>4, <2>5
  <1> QED BY <1>1, <1>2

LEMMA SubmitFacts ==
  ASSUME FullBuildInv, [Next]_vars, Submits
  PROVE  /\ ~(Only /\ Ready = {}) /\ Valid(build.snapshot, Only)
         /\ build.snapshot \in RoutingPolicy /\ DefaultRoles \in ProviderMap
         /\ build.fast \in BOOLEAN
         /\ build'.roles = Overlay(build.snapshot, DefaultRoles)
         /\ build'.degraded <=> Only /\ Cardinality(Ready) = 1
  <1>1. build \in BuildRecord /\ build.phase = "queued" /\ build'.phase = "submitting"
    BY InvParts DEF BuildOK, Submits
  <1>2. build.snapshot \in RoutingPolicy /\ build.fast \in BOOLEAN
    BY <1>1 DEF BuildRecord
  <1>3. Submit
    BY <1>1 DEF vars, Next, PutSettings, PutPolicy, SavePolicy, Enqueue, Control, Advise, Time,
          Submission, Submitted, Minute, Moves, Loop, Watch, Restart, StartGates,
          StartCommittee, Answer, Decide, Ended, NoBuild
  <1>4. ~(Only /\ Ready = {}) /\ Valid(build.snapshot, Only)
    BY <1>1, <1>3 DEF Submit, Ended, NoBuild
  <1> DEFINE roles == Overlay(PolicyOf(build), DefaultRoles)
             only == Only /\ Cardinality(Ready) = 1
  <1>5. build' = [build EXCEPT !.phase = "submitting", !.roles = roles,
                               !.base = roles["default"],
                               !.first = IF @ = "" THEN roles["default"] ELSE @,
                               !.degraded = only]
    BY <1>3, <1>4 DEF Submit
  <1>6. build'.roles = roles /\ build'.degraded = only
    <2> HIDE DEF roles, only
    <2> QED BY <1>1, <1>5 DEF BuildRecord
  <1>7. PolicyOf(build) = build.snapshot
    BY <1>2, PolicyFacts DEF PolicyOf
  <1> QED BY <1>2, <1>4, <1>6, <1>7, DefaultRolesType

(* In subscriptions-only mode the defaults name only harnesses that can run. *)
LEMMA OnlyDefaults ==
  ASSUME Only, Ready # {}, NEW r \in Role
  PROVE  DefaultRoles[r] \in Ready
  <1> DEFINE fallback == IF "claude_code" \in Ready THEN "claude_code" ELSE "codex"
  <1>1. DefaultRoles[r] = IF SubscriptionLane[LaneOf[r]] \in Ready
                          THEN SubscriptionLane[LaneOf[r]] ELSE fallback
    BY DEF DefaultRoles, SubscriptionRoles
  <1>2. fallback \in Ready
    BY ReadyFacts DEF First
  <1> HIDE DEF fallback
  <1> QED BY <1>1, <1>2

LEMMA OnlySplit ==
  ASSUME Only, Ready # {}, Cardinality(Ready) # 1
  PROVE  DefaultRoles["coder"] = "claude_code" /\ DefaultRoles["verifier"] = "codex"
  <1>1. Ready = Harness
    <2>1. Ready # {"claude_code"} /\ Ready # {"codex"}
      BY FS_Singleton
    <2> QED BY <2>1, ReadyFacts DEF Harness
  <1>2. SubscriptionLane[LaneOf["coder"]] = "claude_code"
          /\ SubscriptionLane[LaneOf["verifier"]] = "codex"
    BY DEF SubscriptionLane, LaneOf, Lane, Role
  <1> QED BY <1>1, <1>2, RoleFacts DEF DefaultRoles, SubscriptionRoles, Harness

LEMMA DecidingTarget ==
  ASSUME FullBuildInv, [Next]_vars, Submits, NEW r \in Role
  PROVE  /\ Runs(build'.roles, r, build.fast) =
               IF Deciding(r) = "auto" THEN Runs(DefaultRoles, r, build.fast)
               ELSE RuntimeOfTarget(Deciding(r))
         /\ Deciding(r) \in Permitted(Only)
  <1>1. /\ Runs(Overlay(build.snapshot, DefaultRoles), r, build.fast) =
               IF Deciding(r) = "auto" THEN Runs(DefaultRoles, r, build.fast)
               ELSE RuntimeOfTarget(Deciding(r))
    BY SubmitFacts, OverlayRuns DEF Deciding
  <1>2. Deciding(r) \in Permitted(Only)
    BY SubmitFacts, RoleFacts DEF Deciding, Valid
  <1> QED BY <1>1, <1>2, SubmitFacts

LEMMA WithinMode ==
  ASSUME FullBuildInv, [Next]_vars, Submits, Only
  PROVE  /\ \A r \in Role : Runs(build'.roles, r, build.fast) \in Harness
         /\ (/\ ~build.fast /\ ~build'.degraded
             /\ Deciding("coder") = "auto" /\ Deciding("verifier") = "auto") =>
               build'.roles["coder"] # build'.roles["verifier"]
  <1>1. Ready # {}
    BY SubmitFacts
  <1>2. \A r \in Role : DefaultRoles[r] \in Harness
    BY <1>1, OnlyDefaults, ReadyFacts
  <1>3. ASSUME NEW r \in Role PROVE Runs(build'.roles, r, build.fast) \in Harness
    <2>1. CASE Deciding(r) = "auto"
      BY <1>2, <1>3, <2>1, DecidingTarget, RoleFacts DEF Runs
    <2>2. CASE Deciding(r) # "auto"
      <3>1. Deciding(r) \in HarnessTarget
        BY <1>3, <2>2, DecidingTarget DEF Permitted, Target, ModelTarget, HarnessTarget
      <3> QED BY <1>3, <2>2, <3>1, DecidingTarget DEF RuntimeOfTarget, HarnessTarget, Harness
    <2> QED BY <2>1, <2>2
  <1>4. ASSUME ~build.fast, ~build'.degraded,
               Deciding("coder") = "auto", Deciding("verifier") = "auto"
        PROVE  build'.roles["coder"] # build'.roles["verifier"]
    <2>1. Cardinality(Ready) # 1
      BY <1>4, SubmitFacts
    <2>2. DefaultRoles["coder"] = "claude_code" /\ DefaultRoles["verifier"] = "codex"
      BY <1>1, <2>1, OnlySplit
    <2>3. Runs(build'.roles, "coder", FALSE) = "claude_code"
            /\ Runs(build'.roles, "verifier", FALSE) = "codex"
      BY <1>4, <2>2, DecidingTarget, SubmitFacts, RoleFacts DEF Runs
    <2> QED BY <2>3 DEF Runs
  <1> QED BY <1>3, <1>4

(* No role of a build runs on a local model of a subscriptions-only host, and   *)
(* review and coding are done by different harnesses, whatever was stored, sent *)
(* or queued before and whoever edits what while the build waits.             *)
THEOREM WithinModeAlways == Spec => SubmittedWithinMode
  <1>1. FullBuildInv /\ [Next]_vars =>
          [Submits /\ Only =>
            /\ \A r \in Role : Runs(build'.roles, r, build.fast) \in Harness
            /\ (/\ ~build.fast /\ ~build'.degraded
                /\ Deciding("coder") = "auto" /\ Deciding("verifier") = "auto") =>
                  build'.roles["coder"] # build'.roles["verifier"]]_vars
    BY WithinMode
  <1> QED BY <1>1, FullBuildSafe, PTL DEF Spec, SubmittedWithinMode

LEMMA SnapshotKept ==
  ASSUME FullBuildInv, [Next]_vars, build.phase \notin {"none", "ended"}, build'.phase # "ended"
  PROVE  build'.snapshot = build.snapshot
  <1>1. build \in BuildRecord
    BY InvParts DEF BuildOK
  <1>2. CASE \E poll \in Poll : Watch(poll)
    BY <1>1, <1>2, WatchCases DEF Ended, NoBuild, BuildRecord
  <1>3. CASE Submit \/ \E accepted \in BOOLEAN : Submitted(accepted)
    BY <1>1, <1>3 DEF Submit, Submitted, Ended, NoBuild, BuildRecord
  <1>4. CASE Restart
    BY <1>1, <1>4 DEF Restart, NoBuild, BuildRecord
  <1> QED BY <1>2, <1>3, <1>4 DEF vars, Next, PutSettings, PutPolicy, SavePolicy, Enqueue,
             Control, Advise, Time, Submission, Minute, Moves, Loop, StartGates, StartCommittee,
             Answer, Decide

(* The policy a build is queued with rules it until it ends, and a lane left to  *)
(* auto is played as if nobody had assigned any other.                        *)
THEOREM SnapshotRulesAlways == Spec => SnapshotRules
  <1>1. FullBuildInv /\ [Next]_vars =>
          [/\ build.phase \notin {"none", "ended"} /\ build'.phase # "ended" =>
                 build'.snapshot = build.snapshot
           /\ Submits => \A r \in Role :
                 Runs(build'.roles, r, build.fast) =
                     IF Deciding(r) = "auto" THEN Runs(DefaultRoles, r, build.fast)
                     ELSE RuntimeOfTarget(Deciding(r))]_vars
    BY SnapshotKept, DecidingTarget
  <1> QED BY <1>1, FullBuildSafe, PTL DEF Spec, SnapshotRules

(* Who judges a hybrid build. *)
LEMMA HybridJudge ==
  ASSUME ~Only, NEW strong \in BOOLEAN,
         NEW judge, judge = Select(FALSE, TRUE, strong, FALSE), judge \in Harness \ Ready
  PROVE  strong /\ Ready = {} /\ ~LocalModels
  <1>1. Only = FALSE
    BY DEF Only, SubscriptionOnly
  <1>2. Ready = {h \in Harness : Available(h, FALSE)}
    BY <1>1 DEF Ready
  <1>3. CASE Ready = {}
    <2>1. "open_code" \notin Harness
      BY DEF Harness
    <2>2. CASE strong
      BY <1>2, <1>3, <2>1, <2>2 DEF Select, Harness
    <2>3. CASE ~strong
      <3>1. judge = "open_code"
        BY <1>2, <1>3, <2>3 DEF Select
      <3> QED BY <2>1, <3>1
    <2> QED BY <2>2, <2>3
  <1>4. CASE Ready = Harness
    BY <1>4
  <1>5. CASE Ready # {} /\ Ready # Harness
    <2>1. "open_code" \notin Harness /\ First(Ready) \in Ready
      BY <1>5, ReadyFacts DEF Harness
    <2>2. CASE strong
      <3>1. judge = First(Ready)
        BY <1>2, <1>5, <2>2 DEF Select
      <3> QED BY <2>1, <3>1
    <2>3. CASE ~strong
      <3>1. judge \in {"open_code", First(Ready)}
        BY <1>2, <1>5, <2>3 DEF Select
      <3> QED BY <2>1, <3>1
    <2> QED BY <2>2, <2>3
  <1> QED BY <1>3, <1>4, <1>5

LEMMA ByChoice ==
  ASSUME FullBuildInv, [Next]_vars, Submits, NEW r \in Role,
         NEW runtime \in Harness \ Ready, runtime = Runs(build'.roles, r, build.fast)
  PROVE  \/ Deciding(r) = runtime
         \/ ~Only /\ build.strong /\ Ready = {} /\ ~LocalModels /\ r \in HostedRole
  <1>1. CASE Deciding(r) # "auto"
    <2>1. runtime = RuntimeOfTarget(Deciding(r))
      BY <1>1, DecidingTarget
    <2> QED BY <2>1 DEF RuntimeOfTarget, Harness
  <1>2. CASE Deciding(r) = "auto" /\ Only
    <2>1. runtime = Runs(DefaultRoles, r, build.fast)
      BY <1>2, DecidingTarget
    <2> QED BY <1>2, <2>1, OnlyDefaults, SubmitFacts, RoleFacts DEF Runs
  <1>3. CASE Deciding(r) = "auto" /\ ~Only
    <2> DEFINE judge == Select(FALSE, TRUE, build.strong, FALSE)
    <2>1. runtime = Runs(HybridRoles(judge), r, build.fast)
      BY <1>3, DecidingTarget DEF DefaultRoles
    <2> HIDE DEF judge
    <2>2. HybridRoles(judge)["default"] = "open_code" /\ "open_code" \notin Harness
      BY RoleFacts DEF HybridRoles, Harness
    <2>3. ~build.fast /\ runtime = HybridRoles(judge)[r]
      BY <2>1, <2>2 DEF Runs
    <2>4. r \in HostedRole /\ runtime = judge
      BY <2>3 DEF HybridRoles, Harness
    <2>5. build.strong \in BOOLEAN
      BY InvParts DEF BuildOK, BuildRecord
    <2> QED BY <1>3, <2>4, <2>5, HybridJudge DEF judge
  <1> QED BY <1>1, <1>2, <1>3

(* Work goes to an exhausted harness only where the operator named it, or, with  *)
(* strong planning, for judgement when nothing else is left that can judge.   *)
THEOREM ExhaustedOnlyWhenChosen == Spec => ExhaustedOnlyByChoice
  <1>1. FullBuildInv /\ [Next]_vars =>
          [Submits => \A r \in Role :
             LET runtime == Runs(build'.roles, r, build.fast)
             IN runtime \in Harness \ Ready =>
                   \/ Deciding(r) = runtime
                   \/ ~Only /\ build.strong /\ Ready = {} /\ ~LocalModels /\ r \in HostedRole]_vars
    BY ByChoice
  <1> QED BY <1>1, FullBuildSafe, PTL DEF Spec, ExhaustedOnlyByChoice

-----------------------------------------------------------------------------
(* The committee itself. *)

(* Every set of naturals that is not empty has a least member. *)
LEMMA Least ==
  ASSUME NEW T \in SUBSET Nat, T # {}
  PROVE  \E n \in T : \A k \in T : n <= k
  <1> DEFINE R == OpToRel(<, Nat)
  <1>1. IsWellFoundedOn(R, Nat)
    BY NatLessThanWellFounded
  <1>2. \A i, j \in Nat : i < j => <<i, j>> \in R
    BY DEF OpToRel
  <1> HIDE DEF R
  <1>3. PICK n \in T : \A k \in T : <<k, n>> \notin R
    BY <1>1, WFMin
  <1>4. \A k \in T : k \in Nat /\ n \in Nat /\ ~(k < n)
    BY <1>2, <1>3
  <1>5. \A i, j \in Nat : ~(i < j) => j <= i
    OBVIOUS
  <1> QED BY <1>4, <1>5

(* A family's best among those that are fit: the one with the fewest above it. *)
LEMMA BestExists ==
  ASSUME NEW fit \in SUBSET Model, NEW m \in fit
  PROVE  \E best \in fit :
            /\ FamilyOf[best] = FamilyOf[m]
            /\ \A n \in fit : FamilyOf[n] = FamilyOf[m] => Quality[n] <= Quality[best]
  <1> DEFINE kin == {n \in fit : FamilyOf[n] = FamilyOf[m]}
             Above(n) == {k \in kin : Quality[n] < Quality[k]}
             counts == {Cardinality(Above(n)) : n \in kin}
  <1>1. IsFiniteSet(kin)
    <2>1. kin \subseteq Model
      OBVIOUS
    <2> QED BY <2>1, CommitteeAssumption, FS_Subset
  <1>2. \A n \in kin : Quality[n] \in Nat
    BY CommitteeAssumption
  <1>3. \A n \in kin : IsFiniteSet(Above(n)) /\ Cardinality(Above(n)) \in Nat
    <2> SUFFICES ASSUME NEW n \in kin
                 PROVE  IsFiniteSet(Above(n)) /\ Cardinality(Above(n)) \in Nat
      OBVIOUS
    <2>1. Above(n) \subseteq kin
      OBVIOUS
    <2> HIDE DEF Above, kin
    <2> QED BY <1>1, <2>1, FS_Subset, FS_CardinalityType
  <1>4. m \in kin
    OBVIOUS
  <1>5. PICK best \in kin : \A n \in kin : Cardinality(Above(best)) <= Cardinality(Above(n))
    <2>1. counts \in SUBSET Nat /\ counts # {}
      BY <1>3, <1>4
    <2> HIDE DEF counts
    <2>2. PICK low \in counts : \A x \in counts : low <= x
      BY <2>1, Least
    <2>3. \E n \in kin : low = Cardinality(Above(n))
      BY DEF counts
    <2>4. \A n \in kin : Cardinality(Above(n)) \in counts
      BY DEF counts
    <2> HIDE DEF Above, kin
    <2> QED BY <2>2, <2>3, <2>4
  <1>6. ASSUME NEW n \in Above(best) PROVE FALSE
    <2>1. n \in kin /\ Quality[best] < Quality[n]
      BY <1>6
    <2>2. Above(n) \subseteq Above(best) /\ Above(n) # Above(best)
      <3>1. \A k \in Above(n) : k \in Above(best)
        BY <1>2, <2>1
      <3>2. n \notin Above(n)
        BY <1>2, <2>1
      <3> QED BY <1>6, <3>1, <3>2
    <2> HIDE DEF Above, kin
    <2>3. Cardinality(Above(n)) < Cardinality(Above(best))
      <3>1. /\ IsFiniteSet(Above(best)) /\ Cardinality(Above(best)) \in Nat
            /\ Cardinality(Above(n)) \in Nat
        BY <1>3, <2>1
      <3>2. /\ Cardinality(Above(n)) <= Cardinality(Above(best))
            /\ Cardinality(Above(n)) # Cardinality(Above(best))
        BY <2>2, <3>1, FS_Subset
      <3> QED BY <3>1, <3>2
    <2> QED BY <1>3, <1>5, <2>1, <2>3
  <1>7. \A n \in kin : Quality[n] <= Quality[best]
    BY <1>2, <1>6
  <1> QED BY <1>7

(* A committee drawn from the models fit for it has one voice for every family *)
(* among them, and the best that family has to offer (committee.py:293-311).   *)
THEOREM PanelSpeaksForFamilies ==
  ASSUME NEW fit \in SUBSET Model
  PROVE  /\ EligibleMembers(fit) \subseteq fit
         /\ \A m, n \in EligibleMembers(fit) : FamilyOf[m] = FamilyOf[n] => m = n
         /\ \A n \in fit : \E m \in EligibleMembers(fit) :
               FamilyOf[m] = FamilyOf[n] /\ Quality[n] <= Quality[m]
  <1> DEFINE Best(f) == CHOOSE best \in fit :
                /\ FamilyOf[best] = f
                /\ \A n \in fit : FamilyOf[n] = f => Quality[n] <= Quality[best]
  <1>1. EligibleMembers(fit) = {m \in fit : m = Best(FamilyOf[m])}
    BY DEF EligibleMembers
  <1>2. ASSUME NEW n \in fit
        PROVE  /\ Best(FamilyOf[n]) \in fit
               /\ FamilyOf[Best(FamilyOf[n])] = FamilyOf[n]
               /\ Quality[n] <= Quality[Best(FamilyOf[n])]
    BY <1>2, BestExists
  <1> HIDE DEF Best
  <1>3. \A m, n \in EligibleMembers(fit) : FamilyOf[m] = FamilyOf[n] => m = n
    BY <1>1
  <1>4. ASSUME NEW n \in fit
        PROVE  \E m \in EligibleMembers(fit) :
                  FamilyOf[m] = FamilyOf[n] /\ Quality[n] <= Quality[m]
    <2>1. Best(FamilyOf[n]) \in EligibleMembers(fit)
      BY <1>1, <1>2
    <2> QED BY <1>2, <2>1
  <1> QED BY <1>1, <1>3, <1>4

(* The families of those who answer so. *)
Heard(answers, which) == {FamilyOf[m] : m \in {n \in DOMAIN answers : answers[n] \in which}}

LEMMA HeardFinite ==
  ASSUME NEW M, IsFiniteSet(M), NEW a \in [M -> Reply], NEW which
  PROVE  IsFiniteSet(Heard(a, which))
  <1> DEFINE who == {n \in M : a[n] \in which}
             families == {FamilyOf[m] : m \in who}
             family == [m \in who |-> FamilyOf[m]]
  <1>1. IsFiniteSet(who)
    BY FS_Subset
  <1>2. Heard(a, which) = families
    BY DEF Heard
  <1> HIDE DEF who
  <1>3. family \in Surjection(who, families)
    BY DEF Surjection
  <1> QED BY <1>1, <1>2, <1>3, FS_Surjection

(* Members who withdraw their approval, for an objection, an abstention or     *)
(* nothing at all, never get a change through that was not through before; and *)
(* what is approved is not also left to a person (committee.py:335-412).       *)
THEOREM WithdrawingNeverApproves ==
  ASSUME NEW M, IsFiniteSet(M), NEW a \in [M -> Reply], NEW b \in [M -> Reply],
         \A m \in M : b[m] = a[m] \/ a[m] = "approve",
         NEW passed \in BOOLEAN, NEW rule \in Rule, NEW quorum \in Nat,
         Convene(b, passed, rule, quorum).approved
  PROVE  /\ Convene(a, passed, rule, quorum).approved
         /\ ~Convene(b, passed, rule, quorum).needsHuman
  <1> DEFINE Yes(c) == Families(c) \ Rejecting(c)
             No(c) == Rejecting(c)
  <1>1. ASSUME NEW c \in [M -> Reply]
        PROVE  /\ Families(c) = Heard(c, {"approve", "reject"})
               /\ Rejecting(c) = Heard(c, {"reject"})
    BY DEF Families, Rejecting, Counts, Heard
  <1>2. ASSUME NEW c \in [M -> Reply]
        PROVE  /\ IsFiniteSet(Families(c)) /\ IsFiniteSet(No(c)) /\ IsFiniteSet(Yes(c))
               /\ Cardinality(Families(c)) \in Nat /\ Cardinality(No(c)) \in Nat
               /\ Cardinality(Yes(c)) \in Nat
    <2>1. IsFiniteSet(Families(c)) /\ IsFiniteSet(Rejecting(c))
      BY <1>1, <1>2, HeardFinite
    <2>2. IsFiniteSet(Yes(c))
      BY <2>1, FS_Difference
    <2> QED BY <2>1, <2>2, FS_CardinalityType
  <1>3. Rejecting(a) \subseteq Rejecting(b) /\ Families(b) \subseteq Families(a)
    <2>1. Heard(a, {"reject"}) \subseteq Heard(b, {"reject"})
      BY DEF Heard
    <2>2. Heard(b, {"approve", "reject"}) \subseteq Heard(a, {"approve", "reject"})
      BY DEF Heard
    <2> QED BY <1>1, <2>1, <2>2
  <1>4. Yes(b) \subseteq Yes(a)
    BY <1>3
  <1>5. /\ Cardinality(Families(b)) <= Cardinality(Families(a))
        /\ Cardinality(No(a)) <= Cardinality(No(b))
        /\ Cardinality(Yes(b)) <= Cardinality(Yes(a))
    <2> HIDE DEF Yes
    <2> QED BY <1>2, <1>3, <1>4, FS_Subset
  <1>6. ASSUME NEW c \in [M -> Reply]
        PROVE  /\ Convene(c, passed, rule, quorum).approved <=>
                    /\ passed /\ Cardinality(Families(c)) >= quorum
                    /\ IF rule = "majority" THEN Cardinality(Yes(c)) > Cardinality(No(c))
                       ELSE Cardinality(No(c)) = 0
               /\ Convene(c, passed, rule, quorum).needsHuman <=>
                    /\ passed
                    /\ \/ ~(Cardinality(Families(c)) >= quorum)
                       \/ rule = "majority" /\ Cardinality(Yes(c)) = Cardinality(No(c))
    BY DEF Convene
  <1> HIDE DEF Yes, No
  <1> QED BY <1>2, <1>5, <1>6
=============================================================================
