------------------------------- MODULE Scoped -------------------------------
(***************************************************************************)
(* Scoped builds, src/ctswarm/scoped.py, as the scheduler runs them through*)
(* Orchestrator.run_scoped: one change made, tested, reviewed, scanned and *)
(* published by harness calls of this process.  Builds run concurrently    *)
(* over the same two subscriptions; a restart of the process redoes every  *)
(* unfinished one from a fresh clone, over what the first attempt pushed.  *)
(*                                                                         *)
(* Versions of the files are numbers; 0 is the version of the base branch. *)
(* The remote records with a pushed branch what was judged before the push,*)
(* and whether the owner has merged it.                                    *)
(***************************************************************************)
EXTENDS Capacity, Scanners

CONSTANTS
    Build,          \* scoped builds
    Only,           \* TRUE in subscriptions-only mode
    MaxRepairs,     \* repairs of failing tests (1)
    Cost,           \* [Harness -> what a successful call costs]; codex tells nothing
    MaxEvents       \* bound: stops, reports of operators or probes, deaths of the process

ASSUME ScopedAssumption ==
    /\ IsFiniteSet(Build)
    /\ Only \in BOOLEAN
    /\ MaxRepairs \in Nat
    /\ Cost \in [Harness -> Nat]
    /\ MaxEvents \in Nat

VARIABLES
    pc,             \* [Build -> where its run stands]
    work,           \* [Build -> the local variables of its run]
    remote,         \* [Build -> its branch on the git host]
    stopped,        \* builds their owner wants stopped
    state,          \* [Build -> what the ledger says of it]
    refused,        \* [Harness -> when it last refused a call, in words that are known]
    events          \* bound's counter

buildVars == <<pc, work, remote, state>>
vars == <<capacityVars, buildVars, stopped, refused, events>>

Running == {"implementing", "testing", "repairing", "reviewing", "delivering",
            "publishing", "finishing"}

(* tree: the version in the worktree; head: the last one committed; tested and *)
(* suite: the version the tests last ran on, and their result; approved: the   *)
(* version whose diff the reviewer approved; past: the base it was cloned from *)
(* has what an earlier attempt pushed.                                        *)
WorkRecord == [implementer : Harness, reviewer : Harness, tree : Nat, head : Nat,
               tested : Nat, suite : Status, repairs : Nat, approved : Nat, past : BOOLEAN,
               outcome : {"", "complete", "blocked", "failed"}]
NoWork == [implementer |-> "claude_code", reviewer |-> "claude_code", tree |-> 0, head |-> 0,
           tested |-> 0, suite |-> "unavailable", repairs |-> 0, approved |-> 0, past |-> FALSE,
           outcome |-> ""]

Absent == [head |-> 0, tree |-> 0, tested |-> 0, suite |-> "unavailable", approved |-> 0,
           pushed |-> FALSE, pr |-> FALSE, merged |-> FALSE]
Branch == [head : Nat, tree : Nat, tested : Nat, suite : Status, approved : Nat,
           pushed : BOOLEAN, pr : BOOLEAN, merged : BOOLEAN]

(* How a harness call ends, as far as anybody acts on it.  "rate_limited" is a *)
(* refusal in the words that classify_failure knows; one that it does not, a   *)
(* bare 429, a credit balance or an answer that is empty, is "failed".         *)
Answer == {"ok", "rate_limited", "failed"}

Init ==
    /\ InitCapacity
    /\ pc = [b \in Build |-> "waiting"]
    /\ work = [b \in Build |-> NoWork]
    /\ remote = [b \in Build |-> Absent]
    /\ state = [b \in Build |-> "queued"]
    /\ stopped = {}
    /\ refused = [h \in Harness |-> 0]
    /\ events = 0

-----------------------------------------------------------------------------
(* Parts of steps. *)

Goto(b, where) == pc' = [pc EXCEPT ![b] = where]

(* SCOPED_TERMINAL_STATES: what the record says of an outcome. *)
Terminal(outcome) ==
    IF outcome = "complete" THEN "complete"
    ELSE IF outcome \in {"blocked", "capacity_exhausted"} THEN "blocked" ELSE "failed"

Result(b, outcome) ==
    /\ Goto(b, "finishing")
    /\ work' = [work EXCEPT ![b] = [NoWork EXCEPT !.outcome = Terminal(outcome)]]

Quiet == UNCHANGED <<capacityVars, refused, events, stopped, state>>

(* Slip: a refusal does not reach the ledger. *)
InvokeSilently(h, answer) ==
    /\ RecordUsage(h, IF answer = "ok" THEN Cost[h] ELSE 0)
    /\ refused' = IF answer = "rate_limited" THEN [refused EXCEPT ![h] = clock] ELSE refused
    /\ UNCHANGED <<clock, cleared, limited, events, stopped, state, remote>>

(* A call is recorded whatever becomes of it, and a refusal that was recognised *)
(* as one is reported.                                                         *)
Invoke(h, answer) ==
    /\ RecordUsage(h, IF answer = "ok" THEN Cost[h] ELSE 0)
    /\ IF answer = "rate_limited"
       THEN NoteLimited(h) /\ refused' = [refused EXCEPT ![h] = clock]
       ELSE UNCHANGED <<limited, refused>>
    /\ UNCHANGED <<clock, cleared, events, stopped, state, remote>>

(* The harness wrote a new version; commit_if_needed does not look at whether *)
(* its commit succeeded.                                                     *)
Write(b, committed, repairs) ==
    LET v == 1 + IF work[b].tree > remote[b].tree THEN work[b].tree ELSE remote[b].tree
    IN work' = [work EXCEPT ![b].tree = v, ![b].repairs = repairs,
                            ![b].head = IF committed THEN v ELSE work[b].head]

-----------------------------------------------------------------------------
(* The steps of one run, in the order of ScopedBuild.run. *)

(* The owner's word is read, the roles are chosen by headroom, and the base    *)
(* branch is cloned afresh.                                                   *)
Begin(b, cloned) ==
    LET free == {h \in Harness : Available(h, Only)}
    IN /\ pc[b] = "waiting"
       /\ IF b \in stopped THEN Goto(b, "finishing") /\ UNCHANGED work
          ELSE IF free = {} THEN Result(b, "blocked")
          ELSE IF ~cloned THEN Result(b, "workspace_failed")
          ELSE /\ Goto(b, "implementing")
               /\ work' = [work EXCEPT
                    ![b].implementer = First(free),
                    ![b].reviewer = IF free = Harness THEN "codex" ELSE First(free),
                    ![b].past = remote[b].merged]
       /\ UNCHANGED remote /\ Quiet

(* The call, the change gate behind it, and the commit. *)
Implement(b, answer, changed, committed) ==
    /\ pc[b] = "implementing"
    /\ Invoke(work[b].implementer, answer)
    /\ IF answer = "ok" /\ changed
       THEN Write(b, committed, 0) /\ Goto(b, "testing")
       ELSE Result(b, IF answer = "ok" THEN "no_changes"
                      ELSE IF answer = "rate_limited" THEN "capacity_exhausted"
                      ELSE "implementer_failed")

(* The suite runs on the worktree, not on what was committed. *)
Test(b, status) ==
    /\ pc[b] = "testing"
    /\ IF status = "failed" /\ work[b].repairs >= MaxRepairs
       THEN Result(b, "tests_failed")
       ELSE /\ Goto(b, IF status = "failed" THEN "repairing" ELSE "reviewing")
            /\ work' = [work EXCEPT ![b].tested = work[b].tree, ![b].suite = status]
    /\ UNCHANGED remote /\ Quiet

(* A repair that could not run leaves the failing tests as the outcome. *)
Repair(b, answer, changed, committed) ==
    /\ pc[b] = "repairing"
    /\ Invoke(work[b].implementer, answer)
    /\ IF answer # "ok" THEN Result(b, "tests_failed")
       ELSE /\ Goto(b, "testing")
            /\ IF changed THEN Write(b, committed, work[b].repairs + 1)
               ELSE work' = [work EXCEPT ![b].repairs = work[b].repairs + 1]

(* Slip: a reviewer that gives no verdict has nothing against it. *)
ReviewLenient(b, answer, verdict) ==
    /\ pc[b] = "reviewing"
    /\ Invoke(work[b].reviewer, answer)
    /\ IF verdict # "reject" /\ answer # "rate_limited"
       THEN /\ Goto(b, "delivering")
            /\ work' = [work EXCEPT ![b].approved =
                            IF answer = "ok" /\ verdict = "approve" THEN work[b].head ELSE 0]
       ELSE Result(b, "review_rejected")

(* The reviewer is shown the diff of what was committed, or as much of it as  *)
(* git tells and the prompt holds.  No verdict is a rejection.                *)
Review(b, answer, verdict) ==
    /\ pc[b] = "reviewing"
    /\ Invoke(work[b].reviewer, answer)
    /\ IF answer = "ok" /\ verdict = "approve"
       THEN Goto(b, "delivering") /\ work' = [work EXCEPT ![b].approved = work[b].head]
       ELSE Result(b, IF answer = "ok" THEN "review_rejected"
                      ELSE IF answer = "rate_limited" THEN "capacity_exhausted"
                      ELSE "review_unavailable")

Pushed(b) ==
    [head |-> work[b].head, tree |-> work[b].tree, tested |-> work[b].tested,
     suite |-> work[b].suite, approved |-> work[b].approved, pushed |-> TRUE, pr |-> FALSE,
     merged |-> FALSE]

(* Slip: the branch of an earlier attempt is overwritten. *)
DeliverForced(b, finding, reached) ==
    /\ pc[b] = "delivering"
    /\ IF ~Summarize({work[b].suite} \cup {finding})
       THEN UNCHANGED remote /\ Result(b, "scanners_failed")
       ELSE IF reached
       THEN remote' = [remote EXCEPT ![b] = Pushed(b)] /\ Goto(b, "publishing") /\ UNCHANGED work
       ELSE UNCHANGED remote /\ Result(b, "complete")
    /\ Quiet

(* git takes a push that goes on from what the branch holds: nothing, the base *)
(* alone (the commit of an earlier attempt had failed), or commits that were   *)
(* merged into the base before this attempt cloned it.                         *)
FastForward(b) == ~remote[b].pushed \/ remote[b].head = 0 \/ work[b].past

(* The scanners decide, with the result of the tests that already ran; finding *)
(* is the worst result of the others.  Then the branch is pushed: it has the   *)
(* same name in every attempt, and a push that fails is no failure of the      *)
(* build.                                                                      *)
Deliver(b, finding, reached) ==
    /\ pc[b] = "delivering"
    /\ IF ~Summarize({work[b].suite} \cup {finding})
       THEN UNCHANGED remote /\ Result(b, "scanners_failed")
       ELSE IF reached /\ FastForward(b)
       THEN remote' = [remote EXCEPT ![b] = Pushed(b)] /\ Goto(b, "publishing") /\ UNCHANGED work
       ELSE UNCHANGED remote /\ Result(b, "complete")
    /\ Quiet

(* No pull request is opened for a branch without a commit of its own. *)
Publish(b, created) ==
    /\ pc[b] = "publishing"
    /\ remote' = [remote EXCEPT ![b].pr = created /\ remote[b].head # 0]
    /\ Result(b, "complete")
    /\ Quiet

(* Slip: a build without capacity goes back to the queue. *)
FinishRequeues(b) ==
    /\ pc[b] = "finishing"
    /\ Goto(b, IF work[b].outcome = "blocked" /\ b \notin stopped THEN "waiting" ELSE "ended")
    /\ state' = [state EXCEPT ![b] =
                    IF b \in stopped THEN "stopped"
                    ELSE IF work[b].outcome = "blocked" THEN "queued" ELSE work[b].outcome]
    /\ work' = [work EXCEPT ![b] = NoWork]
    /\ UNCHANGED <<capacityVars, remote, stopped, refused, events>>

(* run_scoped and the scheduler: a stop that came meanwhile decides the record, *)
(* whatever was published.                                                     *)
Finish(b) ==
    /\ pc[b] = "finishing"
    /\ Goto(b, "ended")
    /\ state' = [state EXCEPT ![b] =
                    IF b \in stopped THEN "stopped" ELSE work[b].outcome]
    /\ work' = [work EXCEPT ![b] = NoWork]
    /\ UNCHANGED <<capacityVars, remote, stopped, refused, events>>

Step(b) ==
    \/ \E ok \in BOOLEAN : Begin(b, ok) \/ Publish(b, ok)
    \/ \E answer \in Answer, changed, committed \in BOOLEAN :
          Implement(b, answer, changed, committed) \/ Repair(b, answer, changed, committed)
    \/ \E status \in Status : Test(b, status)
    \/ \E answer \in Answer, verdict \in {"approve", "reject", "none"} : Review(b, answer, verdict)
    \/ \E finding \in Status, reached \in BOOLEAN : Deliver(b, finding, reached)
    \/ Finish(b)

-----------------------------------------------------------------------------
Time == Tick /\ UNCHANGED <<buildVars, stopped, refused, events>>

Event == events < MaxEvents /\ events' = events + 1

(* An operator or a probe speaks of a harness; a probe without an answer says *)
(* nothing.                                                                   *)
Verdict == {ProbeVerdict(f, a, e, c) : f, a, e, c \in BOOLEAN} \ {"unknown"}

Advise(h, verdict) ==
    /\ Event
    /\ Report(h, verdict)
    /\ UNCHANGED <<buildVars, stopped, refused>>

Stop(b) ==
    /\ Event
    /\ b \notin stopped
    /\ stopped' = stopped \cup {b}
    /\ UNCHANGED <<capacityVars, buildVars, refused>>

(* The owner merges a pull request. *)
Merge(b) ==
    /\ remote[b].pr
    /\ ~remote[b].merged
    /\ remote' = [remote EXCEPT ![b].merged = TRUE]
    /\ UNCHANGED <<capacityVars, pc, work, state, stopped, refused, events>>

(* The scheduler dies and is started again: what was running starts over. *)
Crash ==
    /\ Event
    /\ pc' = [b \in Build |-> IF pc[b] \in Running THEN "waiting" ELSE pc[b]]
    /\ work' = [b \in Build |-> NoWork]
    /\ UNCHANGED <<capacityVars, remote, state, stopped, refused>>

Next ==
    \/ \E b \in Build : Step(b)
    \/ Time
    \/ \E h \in Harness, verdict \in Verdict : Advise(h, verdict)
    \/ \E b \in Build : Stop(b) \/ Merge(b)
    \/ Crash

Spec == Init /\ [][Next]_vars

(* Every call, clone, push and suite has a timeout, so a run that can take its *)
(* next step does.                                                            *)
FairSpec == Spec /\ \A b \in Build : WF_vars(Step(b))

-----------------------------------------------------------------------------
(* Properties. *)

TypeOK ==
    /\ TypeOKCapacity
    /\ pc \in [Build -> Running \cup {"waiting", "ended"}]
    /\ work \in [Build -> WorkRecord]
    /\ remote \in [Build -> Branch]
    /\ state \in [Build -> {"queued", "complete", "blocked", "failed", "stopped"}]
    /\ stopped \subseteq Build
    /\ refused \in [Harness -> Nat]
    /\ events \in Nat

(* The suite that counts ran on the files as the last call left them. *)
TestsAreCurrent ==
    \A b \in Build : pc[b] \in {"reviewing", "delivering"} =>
        work[b].tested = work[b].tree /\ work[b].suite # "failed"

(* Nothing is written between the review and the push (scoped.py:841-882). *)
ApprovalIsCurrent ==
    \A b \in Build : pc[b] = "delivering" => work[b].approved = work[b].head

(* What is on the git host is the very version the reviewer approved, with all *)
(* scanners passed; its tests passed too, unless a commit failed and left them *)
(* a newer version to run on (scoped.py:638-642).  A pull request shows it.    *)
DeliveredIsJudged ==
    \A b \in Build : remote[b].pushed =>
        /\ remote[b].approved = remote[b].head
        /\ remote[b].suite = "passed"
        /\ remote[b].tested = remote[b].head \/ remote[b].tree # remote[b].head

(* A build waiting to be redone, or one that has its verdict, holds no run; a  *)
(* pull request shows commits; an attempt that goes on from merged commits     *)
(* finds them on the branch.                                                   *)
LedgerMatchesRun ==
    \A b \in Build : /\ pc[b] = "ended" <=> state[b] # "queued"
                     /\ pc[b] \in {"waiting", "ended"} => work[b] = NoWork
                     /\ remote[b].pr => remote[b].pushed /\ remote[b].head # 0
                     /\ remote[b].merged => remote[b].pr
                     /\ work[b].past /\ pc[b] # "publishing" => remote[b].merged

(* No run repairs more often than it may (scoped.py:769-814). *)
RepairsAreBounded ==
    \A b \in Build : /\ pc[b] = "testing" => work[b].repairs <= MaxRepairs
                     /\ pc[b] = "repairing" => work[b].repairs < MaxRepairs

(* The calls to h that the run of b may still make, and those of all runs.     *)
CallsLeft(b, h) ==
    IF h \notin {work[b].implementer, work[b].reviewer} THEN 0
    ELSE CASE pc[b] = "implementing" -> 2 + MaxRepairs
           [] pc[b] \in {"testing", "repairing"} -> 1 + MaxRepairs - work[b].repairs
           [] pc[b] = "reviewing" -> 1
           [] OTHER -> 0

OpenCalls(h) == {x \in Build \X (1..(2 + MaxRepairs)) : x[2] <= CallsLeft(x[1], h)}

(* What a window was charged, and what the runs that were given the harness    *)
(* may still charge it, stay together below the bound of OverspendIsBounded.   *)
CallsAreCovered ==
    \A h \in Harness : Budget[h] > 0 =>
        5 * (WindowUsage(h) + Cost[h] * Cardinality(OpenCalls(h)))
            < 4 * Budget[h] + 5 * Cardinality(Build) * (2 + MaxRepairs) * Cost[h]

FactoryInv ==
    /\ TypeOK /\ TestsAreCurrent /\ ApprovalIsCurrent /\ DeliveredIsJudged /\ LedgerMatchesRun
    /\ RepairsAreBounded /\ CallsAreCovered

(* Headroom is looked at once, before the clone, and used for every call: what *)
(* a window can be overspent by is what the builds under way then may still    *)
(* spend, at most two calls each and one per repair (scoped.py:687-711).       *)
OverspendIsBounded ==
    \A h \in Harness : Budget[h] > 0 =>
        5 * WindowUsage(h) < 4 * Budget[h] + 5 * Cardinality(Build) * (2 + MaxRepairs) * Cost[h]

(* What a person may be looking at is not changed under them: once a branch    *)
(* shows a commit, and until its owner merges it, no redone attempt replaces   *)
(* what an earlier one pushed, and no pull request goes away                   *)
(* (scoped.py:594-599, 659-663).                                              *)
PullRequestStands ==
    [][\A b \in Build : remote[b].pushed /\ remote[b].head # 0 /\ ~remote[b].merged =>
            /\ remote'[b] = [remote[b] EXCEPT !.pr = remote'[b].pr,
                                              !.merged = remote'[b].merged]
            /\ remote[b].pr => remote'[b].pr]_vars

(* A harness whose refusal was recognised is given to no build that starts     *)
(* later, whichever build or role it refused, until its window has passed or   *)
(* somebody withdrew the report.  What classify_failure does not recognise,    *)
(* although capacity.py:64-68 would, rests nobody (scoped.py:222-237,          *)
(* 539-550; capacity.py:551-581).                                             *)
RefusedIsRested ==
    [][\A b \in Build, h \in Harness :
            pc[b] = "waiting" /\ pc'[b] = "implementing"
                /\ h \in {work'[b].implementer, work'[b].reviewer} =>
            refused[h] = 0 \/ refused[h] <= cleared[h] \/ refused[h] + Window <= clock]_vars

(* Every build gets its verdict: calls that fail, tests that keep failing and  *)
(* deaths of the process do not keep it from one.                             *)
EveryBuildEnds == <>(\A b \in Build : pc[b] = "ended")
=============================================================================
