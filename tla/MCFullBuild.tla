---------------------------- MODULE MCFullBuild ----------------------------
(* One build, four things an operator may send, three models of two families. *)
EXTENDS FullBuild, TLC

CONSTANTS m1, m2, m3

To(target, model) == [target |-> target, model |-> model]
MCRequest ==
    {[DefaultPolicy EXCEPT !["implementation"] = To("ollama", "named")],
     [DefaultPolicy EXCEPT !["implementation"] = To("codex", "named")],
     [DefaultPolicy EXCEPT !["review"] = To("claude_code", "")],
     [DefaultPolicy EXCEPT !["planning"] = To("ollama", "")]}
MCFamilyOf == m1 :> "qwen" @@ m2 :> "qwen" @@ m3 :> "granite"
                @@ "claude_code" :> "anthropic" @@ "codex" :> "openai"
MCQuality == m1 :> 1 @@ m2 :> 2 @@ m3 :> 1
MCBudget == [h \in Harness |-> 0]

(* Nobody chose anything for this build. *)
Plain == /\ build.snapshot = DefaultPolicy /\ ~build.fast /\ build.strong
         /\ policy = DefaultPolicy /\ timeout = 2
         /\ \A h \in Harness : cleared[h] = 0

Moved == build.phase = "running" /\ exec'.status = "running" /\ exec'.quiet < exec.quiet

(* Bounds: people and processes intervene twice before the build runs or once   *)
(* while it does, and once more where a restart forgets who runs it; settings   *)
(* and policies change and windows pass only before it runs; an execution       *)
(* keeps changing and complains only in a plain build, and of nobody only where *)
(* it named no harness and the record gives it to one; without strong planning  *)
(* the mode is hybrid and there is no policy; while a fast build is followed    *)
(* the dashboard's policy and timeout are the usual ones and no report is       *)
(* withdrawn; gates and committees follow only a build that complained of       *)
(* nothing.                                                                    *)
MCInit == Init /\ timeout = 2

MCNext ==
    /\ Next
    /\ build.phase = "running" =>
          events' = events \/ events = 0 \/ (Restart /\ build.base # build.first)
    /\ <<mode, timeout, policy, put, clock>>' # <<mode, timeout, policy, put, clock>> =>
          build.phase \in {"none", "queued"} \/ put.pending
    /\ clock' # clock => \E h \in Harness : limited[h] # 0
    /\ put.pending => build'.phase # "running"
    /\ ~build'.strong => /\ mode' = "hybrid" /\ build'.snapshot = DefaultPolicy
                         /\ ~build'.fast
                         /\ <<policy, put, timeout>>' = <<DefaultPolicy, NoPut, 2>>
    /\ build'.fast => /\ policy' = DefaultPolicy /\ timeout' = 2
                      /\ \A h \in Harness : cleared'[h] = 0
    /\ "nobody" \in exec'.says => exec'.says = {"nobody"} /\ build'.base \in Harness
    /\ Moved \/ (build'.phase = "running" /\ exec'.says # exec.says) => Plain
    /\ gate' # gate => /\ build.phase = "ended" /\ Plain /\ clock = 1
                       /\ \A h \in Harness : limited[h] = 0
    /\ build.phase = "ended" => events' = events

MCFairSpec ==
    /\ MCInit /\ [][MCNext]_vars
    /\ WF_vars(Submission) /\ WF_vars(Loop) /\ WF_vars(Minute)
=============================================================================
