------------------------------- MODULE Policy -------------------------------
(***************************************************************************)
(* Which runtime each role of a full build runs on: the execution mode     *)
(* (src/ctswarm/execution_mode.py), the operator's assignments of lanes    *)
(* (routing_config.py), the settings (settings.py) and the defaults of     *)
(* Orchestrator.submit.  Roles that are always treated alike stand as one. *)
(***************************************************************************)
EXTENDS Naturals

CONSTANTS
    Pin,            \* CTSWARM_EXECUTION_MODE: "" where it is not set
    Patience        \* no-progress timeouts an operator may store

Mode == {"hybrid", "subscription_only"}

ASSUME PolicyAssumption ==
    /\ Pin \in Mode \cup {"", "typo"}
    /\ Patience \subseteq Nat \ {0}

Lane == {"planning", "implementation", "review", "maintenance"}
ModelTarget == {"ollama", "openrouter"}
HarnessTarget == {"claude_code", "codex"}
Target == ModelTarget \cup HarnessTarget \cup {"auto"}

Role == {"default", "coder", "pm", "retry_advisor", "verifier", "qa_synthesizer", "git"}
LaneOf == [r \in Role |-> CASE r \in {"default", "coder"} -> "implementation"
                            [] r \in {"pm", "retry_advisor"} -> "planning"
                            [] r \in {"verifier", "qa_synthesizer"} -> "review"
                            [] OTHER -> "maintenance"]
HostedRole == {"pm", "verifier"}

(* load_mode: the host's environment wins, and a typo there means the safe mode. *)
SubscriptionOnly(stored) ==
    IF Pin = "" THEN stored = "subscription_only" ELSE Pin # "hybrid"

Permitted(only) == IF only THEN Target \ ModelTarget ELSE Target

(* What an operator may send for a lane, and what is kept of it: a target, and *)
(* whether it names a model.                                                  *)
Assignment == [target : Target \cup {"unknown"}, model : {"", "named"}]
Automatic == [target |-> "auto", model |-> ""]
Settled == {a \in Assignment : a.target \in Target /\ (a.model # "" <=> a.target \in ModelTarget)}
RoutingPolicy == [Lane -> Settled]
DefaultPolicy == [l \in Lane |-> Automatic]

(* Slip: the mode is not looked at. *)
ValidAnywhere(policy, only) ==
    \A l \in Lane : /\ policy[l].target \in Permitted(FALSE)
                    /\ policy[l].target \in ModelTarget => policy[l].model # ""

(* normalize_routing_policy refuses the whole policy for one bad lane ... *)
Valid(policy, only) ==
    \A l \in Lane : /\ policy[l].target \in Permitted(only)
                    /\ policy[l].target \in ModelTarget => policy[l].model # ""

(* Slip: a model that was named for a harness is kept. *)
NormalizeNothing(policy) == [l \in Lane |-> policy[l]]

(* ... and drops a model named for a target that takes none. *)
WithoutModel(a) == [target |-> a.target, model |-> ""]
Normalize(policy) ==
    [l \in Lane |-> IF policy[l].target \in ModelTarget THEN policy[l] ELSE WithoutModel(policy[l])]

(* load_routing_policy: what a host without models cannot serve falls back to *)
(* auto, lane by lane; in hybrid mode a bad policy is dropped whole.          *)
Load(stored, only) ==
    IF Valid(stored, only) THEN Normalize(stored)
    ELSE IF ~only THEN DefaultPolicy
    ELSE [l \in Lane |-> IF stored[l].target \in Permitted(TRUE)
                         THEN WithoutModel(stored[l]) ELSE Automatic]

(* validate_policy_availability, against the catalog and the headroom of now. *)
Servable(policy, only, served, available) ==
    \A l \in Lane :
        /\ policy[l].target \in ModelTarget => ~only /\ policy[l].target \in served
        /\ policy[l].target \in HarnessTarget => policy[l].target \in available

-----------------------------------------------------------------------------
(* Who plays a role.  "inherit" is a role the provider map does not name: it  *)
(* runs on the base runtime, the one of the role default.                    *)

SubscriptionLane ==
    [l \in Lane |-> IF l \in {"planning", "implementation"} THEN "claude_code" ELSE "codex"]

(* Slip: the split does not look at who is usable. *)
SubscriptionRolesAlways(usable) == [r \in Role |-> SubscriptionLane[LaneOf[r]]]

(* subscription_role_policy: a lane whose harness cannot run moves to the other. *)
SubscriptionRoles(usable) ==
    LET fallback == IF "claude_code" \in usable THEN "claude_code" ELSE "codex"
    IN [r \in Role |-> IF SubscriptionLane[LaneOf[r]] \in usable
                       THEN SubscriptionLane[LaneOf[r]] ELSE fallback]

(* hybrid_role_policy: local models work, a subscription judges. *)
HybridRoles(planning) ==
    [r \in Role |-> IF r = "default" THEN "open_code"
                    ELSE IF r \in HostedRole /\ planning # "open_code" THEN planning
                    ELSE "inherit"]

RuntimeOfTarget(t) == IF t \in HarnessTarget THEN t ELSE "open_code"

(* apply_routing_policy: what a role would inherit is settled before an explicit *)
(* assignment moves the base.                                                  *)
Overlay(policy, roles) ==
    IF \A l \in Lane : policy[l].target = "auto" THEN roles
    ELSE [r \in Role |->
            IF policy[LaneOf[r]].target # "auto" THEN RuntimeOfTarget(policy[LaneOf[r]].target)
            ELSE IF roles[r] = "inherit" THEN roles["default"] ELSE roles[r]]

(* What SWE-AF makes of it; the fast node has one runtime for everything. *)
Runs(roles, r, fast) ==
    IF fast \/ roles[r] = "inherit" THEN roles["default"] ELSE roles[r]

-----------------------------------------------------------------------------
(* save_settings: one bad change refuses all of them.  keys are the settings a *)
(* request changes: the mode, the no-progress timeout, or one the host decides. *)
Accepted(keys, mode, timeout) ==
    /\ "bind_mode" \notin keys
    /\ "mode" \in keys => Pin = "" /\ mode \in Mode
    /\ "timeout" \in keys => timeout \in Patience
=============================================================================
