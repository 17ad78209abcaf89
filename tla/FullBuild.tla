----------------------------- MODULE FullBuild -----------------------------
(***************************************************************************)
(* One full (or fast) build and what is decided about it: the policy it    *)
(* was queued with, the runtimes it is submitted with, when it is given up *)
(* as stalled or late, and what the gates say of its result.               *)
(* Orchestrator.submit, poll, run_until_done and run_gates, with the       *)
(* endpoints of scheduler.py that change what they read.                   *)
(*                                                                         *)
(* Two time scales: clock (Capacity) counts in parts of a subscription     *)
(* window, the ages of watch and exec in poll intervals, and an age is not *)
(* counted beyond Horizon, past which no limit lies.                       *)
(***************************************************************************)
EXTENDS Capacity, Scanners, Policy, Committee

CONSTANTS
    Request,        \* policies an operator may send, for the dashboard or with a build
    MaxRun,         \* max_hours of the build, 0 for none
    Horizon,        \* bound: ages beyond it are one
    MaxEvents       \* bound: things people do, lost nodes, deaths of the process

ASSUME FullBuildAssumption ==
    /\ Request \subseteq [Lane -> Assignment]
    /\ MaxRun \in Nat /\ Horizon \in Nat /\ MaxEvents \in Nat
    /\ MaxRun < Horizon /\ \A p \in Patience : p < Horizon
    /\ Model \cap Harness = {} /\ FamilyOf["claude_code"] # FamilyOf["codex"]

VARIABLES
    mode,           \* execution_mode_v1 in the ledger
    timeout,        \* scheduler.no_progress_timeout_s in the ledger
    patience,       \* the timeout this process read when it started
    policy,         \* routing_policy_v1 in the ledger
    put,            \* a change of policy that awaits the model catalog
    build,          \* the build: its queue entry, and where it stands
    control,        \* what its owner last asked for
    watch,          \* the watchdog's view of the running build
    exec,           \* its execution at AgentField
    gate,           \* the gates, or a committee somebody convened
    events          \* bound's counter

settings == <<mode, timeout, policy, put>>
vars == <<capacityVars, settings, patience, build, control, watch, exec, gate, events>>

Only == SubscriptionOnly(mode)
Ready == {h \in Harness : Available(h, Only)}

NoPut == [policy |-> DefaultPolicy, only |-> FALSE, pending |-> FALSE]
PutRecord == [policy : RoutingPolicy, only : BOOLEAN, pending : BOOLEAN]

(* roles: the provider map recorded with build_submitted; base: the runtime of  *)
(* the record, and first that of the first build_submitted; degraded: whether  *)
(* build_degraded was recorded; outcome: the state of its terminal event.      *)
NoRoles == [r \in Role |-> "inherit"]
NoBuild == [phase |-> "none", snapshot |-> DefaultPolicy, fast |-> FALSE, strong |-> TRUE,
            roles |-> NoRoles, base |-> "open_code", first |-> "", degraded |-> FALSE,
            outcome |-> ""]
BuildRecord ==
    [phase : {"none", "queued", "submitting", "running", "ended"}, snapshot : RoutingPolicy,
     fast : BOOLEAN, strong : BOOLEAN, roles : [Role -> Runtime \cup {"inherit"}],
     base : Runtime, first : Runtime \cup {""}, degraded : BOOLEAN,
     outcome : {"", "complete", "failed", "stopped", "blocked"}]

(* still: the age of last_progress_at; elapsed: of this run_until_done; print:  *)
(* the last fingerprint, of the execution as it is, of an answer that was no   *)
(* execution, or of something older; noted: _rate_limited_seen.               *)
NoWatch == [still |-> 0, elapsed |-> 0, print |-> "older", noted |-> {}]
WatchRecord == [still : 0..Horizon, elapsed : 0..Horizon,
                print : {"current", "error", "older"}, noted : SUBSET Harness]

(* quiet: the age of the last change an observer could see; says: whom its      *)
(* messages of exhaustion name, "nobody" where one names no harness.          *)
ExecStatus == {"running", "succeeded", "unsuccessful", "failed", "cancelled", "lost"}
NoExec == [status |-> "running", quiet |-> 0, says |-> {}]
ExecRecord == [status : ExecStatus, quiet : 0..Horizon,
               says : SUBSET (Harness \cup {"nobody"})]

Member == Model \cup Harness
NoGate == [phase |-> "none", panel |-> {}, answers |-> <<>>, scans |-> {}, crash |-> FALSE,
           rule |-> "majority", quorum |-> 0, verdict |-> ""]
GateRecord ==
    [phase : {"none", "asking", "done"}, panel : SUBSET Member,
     answers : UNION {[S -> Reply] : S \in SUBSET Member}, scans : SUBSET Status,
     crash : BOOLEAN, rule : Rule, quorum : 0..3,
     verdict : {"", "approved", "blocked", "no quorum", "crashed"}]

Init ==
    /\ InitCapacity
    /\ mode \in Mode
    /\ timeout \in Patience /\ patience = timeout
    /\ policy = DefaultPolicy
    /\ put = NoPut
    /\ build = NoBuild
    /\ control = "running"
    /\ watch = NoWatch /\ exec = NoExec /\ gate = NoGate
    /\ events = 0

-----------------------------------------------------------------------------
(* What people do. *)

Event == events < MaxEvents /\ events' = events + 1

(* PUT /api/settings.  The orchestrator goes on with the timeout it started with. *)
PutSettings(keys, newMode, newTimeout) ==
    /\ Event
    /\ Accepted(keys, newMode, newTimeout)
    /\ mode' = IF "mode" \in keys THEN newMode ELSE mode
    /\ timeout' = IF "timeout" \in keys THEN newTimeout ELSE timeout
    /\ UNCHANGED <<capacityVars, policy, put, patience, build, control, watch, exec, gate>>

(* PUT /api/dashboard/routing-policy reads the mode and asks for the catalog; in *)
(* subscriptions-only mode that answers at once, with nothing.                *)
PutPolicy(request) ==
    /\ Event
    /\ ~put.pending /\ Valid(request, Only)
    /\ IF ~Only
       THEN /\ put' = [policy |-> Normalize(request), only |-> Only, pending |-> TRUE]
            /\ UNCHANGED policy
       ELSE /\ Servable(Normalize(request), Only, {}, Ready)
            /\ policy' = Normalize(request)
            /\ UNCHANGED put
    /\ UNCHANGED <<capacityVars, mode, timeout, patience, build, control, watch, exec, gate>>

(* The catalog came.  Headroom is that of now, the mode that of the request. *)
SavePolicy(served) ==
    /\ put.pending
    /\ policy' = IF Servable(put.policy, put.only, served, Ready) THEN put.policy ELSE policy
    /\ put' = NoPut
    /\ UNCHANGED <<capacityVars, mode, timeout, patience, build, control, watch, exec, gate,
                   events>>

(* POST /builds takes the policy of the request, or the one stored. *)
Enqueue(sent, fast, strong) ==
    /\ build.phase = "none"
    /\ Valid(sent, Only)
    /\ build' = [build EXCEPT !.phase = "queued", !.snapshot = Normalize(sent), !.fast = fast,
                                 !.strong = strong]
    /\ UNCHANGED <<capacityVars, settings, patience, control, watch, exec, gate, events>>

(* A stop of a queued build that the scheduler sees in time is in BuildScheduler. *)
Control(wish) ==
    /\ Event
    /\ build.phase \in {"queued", "submitting", "running"}
    /\ control' = wish
    /\ UNCHANGED <<capacityVars, settings, patience, build, watch, exec, gate>>

(* An operator or a probe reports on a subscription. *)
Advise(h, verdict) ==
    /\ Event
    /\ Report(h, verdict)
    /\ UNCHANGED <<settings, patience, build, control, watch, exec, gate>>

Time ==
    /\ Tick
    /\ UNCHANGED <<settings, patience, build, control, watch, exec, gate, events>>

-----------------------------------------------------------------------------
(* Submission. *)

Ended(outcome) ==
    /\ build' = [NoBuild EXCEPT !.phase = "ended", !.outcome = outcome]
    /\ watch' = NoWatch /\ exec' = NoExec

(* The default assignment, before the operator's; strong: the request asks for *)
(* a subscription to plan and to judge.                                       *)
DefaultRoles ==
    IF Only THEN SubscriptionRoles(Ready)
    ELSE HybridRoles(Select(FALSE, TRUE, build.strong, FALSE))

(* Slip: the policy of the dashboard decides, and not the one queued. *)
PolicyOfToday(b) == Load(policy, Only)

PolicyOf(b) == Normalize(b.snapshot)

(* Everything up to the first await.  A snapshot that the mode no longer permits *)
(* raises, which ends the build.                                              *)
Submit ==
    /\ build.phase = "queued"
    /\ IF Only /\ Ready = {} THEN Ended("blocked")
       ELSE IF ~Valid(build.snapshot, Only) THEN Ended("failed")
       ELSE LET roles == Overlay(PolicyOf(build), DefaultRoles)
            IN /\ build' = [build EXCEPT !.phase = "submitting", !.roles = roles,
                                         !.base = roles["default"],
                                         !.first = IF @ = "" THEN roles["default"] ELSE @,
                                         !.degraded = Only /\ Cardinality(Ready) = 1]
               /\ UNCHANGED <<watch, exec>>
    /\ UNCHANGED <<capacityVars, settings, patience, control, gate, events>>

(* The control plane takes the execution up, or it does not. *)
Submitted(accepted) ==
    /\ build.phase = "submitting"
    /\ IF ~accepted THEN Ended("failed")
       ELSE /\ build' = [build EXCEPT !.phase = "running", !.roles = NoRoles]
            /\ watch' = NoWatch /\ exec' = NoExec
    /\ UNCHANGED <<capacityVars, settings, patience, control, gate, events>>

-----------------------------------------------------------------------------
(* The running build. *)

Older(age) == IF age < Horizon THEN age + 1 ELSE age

(* A poll interval passes. *)
Minute ==
    /\ build.phase = "running"
    /\ watch' = [watch EXCEPT !.still = Older(@), !.elapsed = Older(@)]
    /\ exec' = [exec EXCEPT !.quiet = Older(@)]
    /\ UNCHANGED <<capacityVars, settings, patience, build, control, gate, events>>

(* What a message of the execution may be read as (capacity.py:57-95). *)
Messages == {Signal(exhausted, named, {"nobody"}) :
                exhausted \in BOOLEAN, named \in SUBSET Harness}

(* AgentField: the execution changes visibly, and may say what it lacks. *)
Moves(status, message) ==
    /\ build.phase = "running"
    /\ exec.status = "running"
    /\ status = "lost" => Event
    /\ status # "lost" => UNCHANGED events
    /\ exec' = [status |-> status, quiet |-> 0,
                says |-> exec.says \cup message]
    /\ watch' = [watch EXCEPT !.print = IF @ = "current" THEN "older" ELSE @]
    /\ UNCHANGED <<capacityVars, settings, patience, build, control, gate>>

(* A poll is answered with the execution, with an error, or not at all. *)
Poll == {"current", "error", "nothing"}

(* Slip: only a change of status is progress. *)
StillAfterStatus(poll) ==
    IF poll = "current" /\ exec.status # "running" THEN 0 ELSE watch.still

(* A fingerprint that differs is progress, and that of an error differs too. *)
StillAfter(poll) == IF poll \in {"nothing", watch.print} THEN watch.still ELSE 0

(* Slip: a build is given up only when it shows no life. *)
TooLateNever == FALSE

TooLate == MaxRun > 0 /\ watch.elapsed > MaxRun
Stalled(poll) == StillAfter(poll) >= patience

(* _note_any_exhaustion: each harness once in the life of the record.  What     *)
(* names nobody is put to the runtime of the record.                          *)
Blamed == (exec.says \cap Harness) \cup {h \in Harness : "nobody" \in exec.says /\ h = build.base}
News(poll) == IF poll = "current" THEN Blamed \ watch.noted ELSE {}
NoteExhaustion(harnesses) ==
    /\ limited' = [h \in Harness |-> IF h \in harnesses THEN clock ELSE limited[h]]
    /\ UNCHANGED <<clock, cleared, spent>>

Verdict(status) ==
    CASE status = "succeeded" -> "complete"
      [] status \in {"cancelled", "lost"} -> "stopped"
      [] OTHER -> "failed"

(* One iteration of run_until_done: the owner's stop, the deadline, the poll,  *)
(* the watchdog.  A node that was lost is submitted again.  While the build is *)
(* paused nothing is looked at, neither the execution nor the deadline.       *)
Watch(poll) ==
    /\ build.phase = "running"
    /\ control # "paused"
    /\ IF control = "stopped" THEN Ended("stopped") /\ UNCHANGED capacityVars
       ELSE IF TooLate THEN Ended("failed") /\ UNCHANGED capacityVars
       ELSE /\ NoteExhaustion(News(poll))
            /\ IF poll = "current" /\ exec.status = "lost"
               THEN /\ build' = [build EXCEPT !.phase = "queued", !.base = "open_code",
                                              !.degraded = FALSE]
                    /\ watch' = NoWatch /\ exec' = NoExec
               ELSE IF poll = "current" /\ exec.status # "running" THEN Ended(Verdict(exec.status))
               ELSE IF Stalled(poll) THEN Ended("failed")
               ELSE /\ watch' = [watch EXCEPT !.print = IF poll = "nothing" THEN @ ELSE poll,
                                    !.still = StillAfter(poll), !.noted = @ \cup News(poll)]
                    /\ UNCHANGED <<build, exec>>
    /\ UNCHANGED <<settings, patience, control, gate, events>>

(* The scheduler dies and comes back: an execution it knows of is adopted by a *)
(* new run_until_done, with a new record whose runtime is that of the first    *)
(* submission, whichever one runs; an execution it does not know of is         *)
(* submitted again; a change of policy under way is gone.                      *)
Restart ==
    /\ Event
    /\ patience' = timeout
    /\ put' = NoPut
    /\ build' = IF build.phase = "submitting"
                THEN [NoBuild EXCEPT !.phase = "queued", !.snapshot = build.snapshot,
                                     !.fast = build.fast, !.strong = build.strong,
                                     !.first = build.first]
                ELSE IF build.phase = "running" THEN [build EXCEPT !.base = build.first]
                ELSE build
    /\ watch' = NoWatch
    /\ UNCHANGED <<capacityVars, mode, timeout, policy, control, exec, gate>>

-----------------------------------------------------------------------------
(* The gates of a complete build, and the committee command. *)

Secrets == {ScanSecrets(tool, sweep) : tool \in ToolReport, sweep \in BOOLEAN}
Dependencies == {ScanDependencies(manifest, tool) : manifest \in BOOLEAN, tool \in ToolReport}
Tests == {ScanTests(manifest, tool) : manifest \in BOOLEAN, tool \in ToolReport}
AntiSlop == {ScanAntiSlop(found) : found \in BOOLEAN}
Scans == {{s, d, t, a} : s \in Secrets, d \in Dependencies, t \in Tests, a \in AntiSlop}

(* The panel is the two command line tools where there is no model to ask, and *)
(* then the answers are in vain: run_gates ends in an unbound name.           *)
Panels == IF Only THEN SUBSET Harness ELSE {EligibleMembers(fit) : fit \in SUBSET Model}

Ask(panel, scans, rule, quorum, crash) ==
    gate' = IF Cardinality(panel) < quorum
            THEN [NoGate EXCEPT !.phase = "done", !.verdict = "no quorum"]
            ELSE [NoGate EXCEPT !.phase = "asking", !.panel = panel, !.scans = scans,
                                !.rule = rule, !.quorum = quorum, !.crash = crash]

(* run_gates; reachable says that there is a backend to ask. *)
StartGates(scans, panel, reachable) ==
    /\ gate.phase = "none" /\ build.outcome = "complete"
    /\ IF ~Summarize(scans)
       THEN gate' = [NoGate EXCEPT !.phase = "done", !.verdict = "blocked"]
       ELSE Ask(IF reachable \/ Only THEN panel ELSE {}, scans, "any_reject_blocks", 2, Only)
    /\ UNCHANGED <<capacityVars, settings, patience, build, control, watch, exec, events>>

(* ctswarm committee: any rule, any quorum, and no scanners to fail. *)
StartCommittee(panel, rule, quorum) ==
    /\ gate.phase = "none"
    /\ Ask(panel, {}, rule, quorum, FALSE)
    /\ UNCHANGED <<capacityVars, settings, patience, build, control, watch, exec, events>>

(* Members are asked one after the other. *)
Answer(m, reply) ==
    /\ gate.phase = "asking" /\ m \in gate.panel \ DOMAIN gate.answers
    /\ gate' = IF reply = "malformed"
               THEN [NoGate EXCEPT !.phase = "done", !.verdict = "crashed"]
               ELSE [gate EXCEPT !.answers =
                        [n \in DOMAIN @ \cup {m} |-> IF n = m THEN reply ELSE @[n]]]
    /\ UNCHANGED <<capacityVars, settings, patience, build, control, watch, exec, events>>

Decide ==
    /\ gate.phase = "asking" /\ DOMAIN gate.answers = gate.panel
    /\ LET result == Convene(gate.answers, Summarize(gate.scans), gate.rule, gate.quorum)
       IN gate' = [gate EXCEPT !.phase = "done",
                    !.verdict = IF gate.crash THEN "crashed"
                                ELSE IF result.approved /\ ~result.needsHuman THEN "approved"
                                ELSE "blocked"]
    /\ UNCHANGED <<capacityVars, settings, patience, build, control, watch, exec, events>>

-----------------------------------------------------------------------------
Loop == \E poll \in Poll : Watch(poll)
Submission == Submit \/ \E accepted \in BOOLEAN : Submitted(accepted)

Next ==
    \/ \E keys \in SUBSET {"mode", "timeout", "bind_mode"}, m \in Mode \cup {"typo"},
          t \in Patience \cup {0} : PutSettings(keys, m, t)
    \/ \E request \in Request : PutPolicy(request)
    \/ \E served \in SUBSET ModelTarget : SavePolicy(served)
    \/ \E sent \in Request \cup {Load(policy, Only)}, fast, strong \in BOOLEAN :
          Enqueue(sent, fast, strong)
    \/ \E wish \in {"running", "paused", "stopped"} : Control(wish)
    \/ \E h \in Harness, verdict \in {"usable", "refused"} : Advise(h, verdict)
    \/ Time
    \/ Submission
    \/ Minute
    \/ \E status \in ExecStatus, message \in Messages : Moves(status, message)
    \/ Loop
    \/ Restart
    \/ \E scans \in Scans, panel \in Panels, reachable \in BOOLEAN :
          StartGates(scans, panel, reachable)
    \/ \E panel \in Panels, rule \in Rule, quorum \in 1..3 : StartCommittee(panel, rule, quorum)
    \/ \E m \in gate.panel, reply \in Reply : Answer(m, reply)
    \/ Decide

Spec == Init /\ [][Next]_vars

(* The task of a build goes on polling, and every call it makes has a timeout. *)
FairSpec == Spec /\ WF_vars(Submission) /\ WF_vars(Loop) /\ WF_vars(Minute)

-----------------------------------------------------------------------------
(* Properties. *)

TypeOK ==
    /\ TypeOKCapacity
    /\ mode \in Mode /\ timeout \in Patience /\ patience \in Patience
    /\ policy \in RoutingPolicy
    /\ put \in PutRecord
    /\ build \in BuildRecord
    /\ control \in {"running", "paused", "stopped"}
    /\ watch \in WatchRecord
    /\ exec \in ExecRecord
    /\ gate \in GateRecord
    /\ events \in Nat

(* Only a running build is watched, only a submission has a provider map, a     *)
(* build that was submitted has a first runtime on record, and a build or a    *)
(* set of gates has a verdict when it is over.                                *)
OneLife ==
    /\ build.phase # "running" => watch = NoWatch /\ exec = NoExec
    /\ build.phase # "submitting" => build.roles = NoRoles
    /\ build.phase \in {"submitting", "running"} => build.first # ""
    /\ build.phase = "ended" <=> build.outcome # ""
    /\ gate.phase = "done" <=> gate.verdict # ""

(* Since a poll last saw the execution change it has not changed again unseen.  *)
(* A harness is blamed in the ledger only if the execution named it as         *)
(* exhausted, or said so of nobody while the record gave the build to it; after *)
(* a restart the record does so of the first submission, and not of the        *)
(* execution that runs (orchestrator.py:683-698, 1163, 1175).                  *)
WatchIsHonest ==
    /\ watch.print = "current" => watch.still <= exec.quiet
    /\ watch.still <= watch.elapsed
    /\ watch.noted \subseteq Blamed

FullBuildInv == TypeOK /\ OneLife /\ WatchIsHonest

Submits == build.phase = "queued" /\ build'.phase = "submitting"

(* The target that decides about a role: the fast node knows one lane. *)
Deciding(r) == build.snapshot[IF build.fast THEN "implementation" ELSE LaneOf[r]].target

(* On a subscriptions-only host no role runs on a local model, whatever was    *)
(* stored, sent or queued before the mode changed; and unless the operator     *)
(* chose so or the ledger says that it was lost, review is not done by the     *)
(* harness that wrote the code (orchestrator.py:194-242, 402-452).            *)
SubmittedWithinMode ==
    [][Submits /\ Only =>
        /\ \A r \in Role : Runs(build'.roles, r, build.fast) \in Harness
        /\ (/\ ~build.fast /\ ~build'.degraded
            /\ Deciding("coder") = "auto" /\ Deciding("verifier") = "auto") =>
              build'.roles["coder"] # build'.roles["verifier"]]_vars

(* The policy a build was queued with is the one it is submitted with, after    *)
(* any edit, restart or lost node; and assigning one lane moves no role of a   *)
(* lane that was left to auto (scheduler.py:144-146; routing_config.py:157-165).*)
SnapshotRules ==
    [][/\ build.phase \notin {"none", "ended"} /\ build'.phase # "ended" =>
              build'.snapshot = build.snapshot
       /\ Submits => \A r \in Role :
              Runs(build'.roles, r, build.fast) =
                  IF Deciding(r) = "auto" THEN Runs(DefaultRoles, r, build.fast)
                  ELSE RuntimeOfTarget(Deciding(r))]_vars

(* A harness without headroom is given work only where the operator named it,   *)
(* or, where the request asks for strong planning in hybrid mode, for judgement *)
(* when nothing at all can judge                                               *)
(* (orchestrator.py:402-434; capacity.py:727-745).                            *)
ExhaustedOnlyByChoice ==
    [][Submits => \A r \in Role :
          LET runtime == Runs(build'.roles, r, build.fast)
          IN runtime \in Harness \ Ready =>
                \/ Deciding(r) = runtime
                \/ ~Only /\ build.strong /\ Ready = {} /\ ~LocalModels /\ r \in HostedRole]_vars

(* A build is given up as stalled only if its execution did not change for the  *)
(* limit, or no poll got to see that it did (orchestrator.py:985-1012).       *)
KilledOnlyIfStill ==
    [][build.phase = "running" /\ build'.outcome = "failed" =>
          \/ TooLate
          \/ exec.status \in {"failed", "unsuccessful"}
          \/ exec.quiet >= patience
          \/ watch.print # "current"]_vars

(* A queued build with a deadline gets its verdict even if its execution never  *)
(* ends, keeps changing for ever, or the control plane's answers alternate     *)
(* with errors (which the watchdog takes for progress); unless its owner       *)
(* leaves it paused.  Nothing is said of a build without a deadline, and       *)
(* max_hours is 0 unless the request sets it (scheduler.py:117-118).           *)
EveryBuildSettles ==
    MaxRun > 0 /\ []<>(control # "paused") => (build.phase = "queued" ~> build.phase = "ended")

Reached(reply) == {FamilyOf[m] : m \in {n \in DOMAIN gate.answers : gate.answers[n] = reply}}

(* An approval means that every scanner passed, that enough independent model   *)
(* families gave a verdict, and that those who objected, under the rule, could *)
(* not have prevailed: with any_reject_blocks nobody objected at all, and no   *)
(* answer that could not be read stands for consent (committee.py:133-165,     *)
(* 341-400; orchestrator.py:852-925).                                         *)
ApprovalIsEarned ==
    gate.verdict = "approved" =>
        /\ gate.scans \subseteq {"passed"}
        /\ Cardinality(Reached("approve") \cup Reached("reject")) >= gate.quorum
        /\ Reached("reject") # {} =>
              /\ gate.rule = "majority"
              /\ Cardinality(Reached("approve") \ Reached("reject")) > Cardinality(Reached("reject"))
=============================================================================
