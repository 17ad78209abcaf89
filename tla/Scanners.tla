------------------------------ MODULE Scanners ------------------------------
(***************************************************************************)
(* The deterministic gates of src/ctswarm/evidence/scanners.py: what the   *)
(* output of each tool is taken to mean, and how the results are combined. *)
(***************************************************************************)

Status == {"passed", "failed", "unavailable"}

(* What running a tool gave: whether it is there, how it exited, and whether  *)
(* its output is a report, empty (a killed tool leaves none) or unreadable;   *)
(* found: the report names something that blocks.                            *)
ToolReport == [installed : BOOLEAN, exit : {"zero", "one", "other", "timeout"},
               output : {"report", "nothing", "garbage"}, found : BOOLEAN]

(* gitleaks decides when it ran, else a sweep for patterns does; a report that *)
(* cannot be read names nothing.                                              *)
ScanSecrets(gitleaks, sweepFinds) ==
    LET found == IF gitleaks.installed /\ gitleaks.exit \in {"zero", "one"}
                 THEN gitleaks.output = "report" /\ gitleaks.found
                 ELSE sweepFinds
    IN IF found THEN "failed" ELSE "passed"

(* npm audit or pip-audit.  Empty output is read as an empty report, so an    *)
(* audit that was killed or that died passes.                                *)
ScanDependencies(manifest, audit) ==
    IF ~manifest \/ ~audit.installed \/ audit.output = "garbage" THEN "unavailable"
    ELSE IF audit.output = "report" /\ audit.found THEN "failed" ELSE "passed"

(* The repository's own tests. *)
ScanTests(manifest, suite) ==
    IF ~manifest \/ ~suite.installed THEN "unavailable"
    ELSE IF suite.exit = "zero" THEN "passed" ELSE "failed"

ScanAntiSlop(blockers) == IF blockers THEN "failed" ELSE "passed"

(* A gate that could not be evaluated is not a satisfied one. *)
Summarize(statuses) == \A s \in statuses : s = "passed"
=============================================================================
