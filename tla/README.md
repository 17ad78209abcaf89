# Verification of ctswarm

TLA+ models of ctswarm, the TLC runs that check them on small instances, and
TLAPS proofs for every value of the constants. Paths are relative to the
repository (`src/` here).

## 1. The system

ctswarm is a build factory. Clients enqueue build requests; an always-on
scheduler takes them up one after the other, submits each to AgentField (an
external control plane that runs SWE-AF agents), follows the execution and
records a verdict. Small changes are built in the scheduler's own process
(scoped builds). Models are reached through a router; people are reached
through an approval service. A SQLite file, the *ledger*, is the only state
that all processes share and the only state that survives them.

| Component | Source | State it keeps | Operations | Talks to | Hard behaviours | Correct when |
|---|---|---|---|---|---|---|
| Build scheduler | `ctswarm/scheduler.py` | `_tasks`, `_active_records` in memory; `build_enqueued`, `build_terminal` events | enqueue, `run_once`, `_run_request`, close, settings and policy endpoints | orchestrator, ledger, status cards, HTTP clients | tasks interleave at awaits, crash and restart, a task or the loop ends by an exception | order and limit are kept across restarts; every build gets one verdict, and gets it |
| Orchestrator | `ctswarm/orchestrator.py` | none of its own; `build_*` events | submit, poll, `run_until_done`, cancel, pause/resume/stop, `load_build`, `run_gates` | AgentField, ledger, capacity, committee | lost replies, lost agent nodes, stalled executions, stop against retry, pauses against timers | memory and ledger agree; complete is earned; a verdict leaves nothing running; only a build that stands still is given up |
| Ledger | `ctswarm/ledger.py` | calls, events, settings, breaker rows | append and read; `_update_breaker`, `is_open` | all | several processes write it | the breaker opens after repeated failures and stays open for its backoff |
| Approvals | `ctswarm/approvals/{rules,store,service,slack}.py` | approval and decision rows | request, poll, decide (page or Slack), expire | SWE-AF, Slack, owner | duplicates, expiry against a late click, crash before the card | one card per request, one decision, silence is never approval |
| Status cards | `ctswarm/approvals/status.py` | `build_status` events | post | Slack | a card fails to send | the ledger has the last state |
| Scoped builds | `ctswarm/scoped.py` | a disposable clone, a pushed branch | prepare, implement, test, repair, review, scan, push, pull request | CLI harnesses, git, capacity | roles that fail, a repair after the tests, a crash after the push | fails closed: nothing is published that was not reviewed and tested |
| Capacity | `ctswarm/capacity.py` | usage, `limited` and `cleared` events | headroom, select, note and clear limits | ledger, scoped builds, submit | a rolling window, late reports, several builds spending | the reserve is kept; a spent subscription is not chosen |
| Router policy | `ctswarm/router/policy.py` | routing table | eligible, decide, explain | ledger breaker | every candidate excluded | never routes to an excluded or failing model |
| Router server | `ctswarm/router/server.py` | cached lists of installed models | chat completions with failover and streaming | backends | a backend fails in mid-stream, a chain chosen before a breaker opened | one record per attempt; fallbacks keep the caller's terms |
| Committee | `ctswarm/committee.py` | none | convene, tally | backends | malformed or missing votes | no approval without quorum; a reject blocks |
| Evidence | `ctswarm/evidence/*.py` | none | run scanners, summarize | subprocesses | a scanner that cannot run | that is not a pass |
| Modes and settings | `ctswarm/{execution_mode,settings,routing_config}.py` | settings rows | read, set, validate | scheduler, submit | a setting changes while a build waits | each build runs under one policy, within the mode |
| MCP registry | `ctswarm/mcp_registry.py` | registry row, file of secrets, rendered files | add, change, delete, secrets, import, materialize | scheduler, harnesses | requests change the same row and files in threads | what the harnesses read is what is registered |
| Project workspace, protection, platform detection | `project_workspace.py`, `policy/protection.py`, `platform_detect.py` | none | synchronous helpers | git, GitHub | | |
| Backends | `ctswarm/backends` | none | calls, streams, classification of failures | Ollama, OpenRouter, CLIs | a success that is none | a bad answer counts as a failure |
| Catalog, benchmark, probes, observability, CLI | `catalog.py`, `bench`, `verify`, `observability.py`, `cli.py` | none | adapters and views | | | |
| Dashboard, sandbox, deployment | `dashboard-ui`, `sandbox`, `infra`, `*.sh` | UI state, item store | | | | |

`PROJECT.json` lists every component with its status, and under `hazards` what
is hard to test in this code, at its line, with the property that covers it.

## 2. Modules

| Module | Role |
|---|---|
| `BuildQueue` | abstract: what the durable queue promises, with one variable, `phase` |
| `BuildScheduler` | detailed: worker loop, build tasks, ledger, AgentField, owner, crashes, faults |
| `ApprovalGate` | abstract: what a build that needs approval is promised |
| `Approvals` | detailed: tables, handlers, Slack, deaths of the service |
| `Replies` | what a call to a model comes back with, and how it is judged; the context window |
| `Router` | extends `Replies`: concurrent requests, the choice of a chain, failover, the breaker |
| `Capacity` | headroom of the two subscriptions: clock, reports, usage |
| `Scanners` | what the output of the evidence tools is taken to mean |
| `Scoped` | extends `Capacity`, `Scanners`: scoped builds over two subscriptions |
| `Policy` | the execution mode, assignments of lanes, who plays a role |
| `Committee` | who votes, and what votes amount to |
| `FullBuild` | extends `Capacity`, `Scanners`, `Policy`, `Committee`: the decisions about one full build |
| `*_proofs` | theorems and proofs about the module they are named after |
| `BuildHistory_proofs` | the second part about `BuildScheduler`: what ledger, tasks and AgentField have to do with each other |
| `MCBuildScheduler`, `MCApprovals`, `MCRouter`, `MCScoped`, `MCFullBuild` | instances for TLC, one `.cfg` per run |

The abstract modules are checked through the detailed ones, which refine them
(`ImplementsQueue`, `ImplementsGate`), and proved about on their own.
`Capacity`, `Scanners`, `Policy`, `Committee` and `Replies` have no
specification of their own: they are the state and the functions that `Scoped`,
`FullBuild` and `Router` compose. `BuildScheduler` and `FullBuild` look at the
same code from two sides: the first follows many builds and leaves time, policy
and judgement to chance, the second follows one and keeps them.

Definitions under a comment that begins "Slip:" are not part of the
specification. Each is a plausible error in the definition that follows it;
replacing that definition by the slip makes TLC report the property named in
`PROJECT.json` under `mutants`.

### BuildQueue

Builds are numbered by arrival. A build is absent, waiting, running or has a
verdict. `StartBuild` needs fewer than `MaxConcurrent` unfinished builds ahead
of the one that starts, so builds start in order. `EndBuilds` gives verdicts to
a set of builds at a time, because one pass of `run_once` does; a complete
build was running or is scoped.

### BuildScheduler

| In the model | In the code |
|---|---|
| `arrived` | the `build_enqueued` events |
| `ledger[b]` | what `load_build` and `control_state` return for the other events of `b`; each event changes the field that its branch sets |
| `worker` | whether `run_forever` loops, was ended by an exception, or there is no process |
| `pc[b]` | `_tasks[b]` and the await its coroutine is at |
| `record[b]` | the `BuildRecord` of that coroutine; `nodeLost` is the error text that makes a stop retryable |
| `sent[b]` | the POST whose reply is awaited |
| `execution`, `cancels` | AgentField, as the orchestrator uses it (external) |

A coroutine runs alone between two awaits, but the Slack service and the CLI
write the ledger from other processes and the process can die between two
commits. Therefore a step of a task ends at each await **and** at each commit
that changes what a restart would rebuild. `run_once` never awaits. Its
dispatching only creates tasks that have not run, so a crash or a control
signal inside it cannot be told from one after it, and it is one step; an
exception inside it (`RunOnceRaises`) leaves any prefix of its commits.

QUEUED, PLANNING and EXECUTING are one state, because the code tells them apart
only to word a status. Time is left out: a timer that may have run out
(wall-clock limit, no-progress limit, HTTP timeout) is a choice; `FullBuild`
has the timers. Only a build of `Timed`, one whose request sets `max_hours`, has a
wall-clock limit (`DeadlineExceeded`). A scoped build is one step inside the
process; `Scoped` has its steps. The payload given to AgentField is left out.

### ApprovalGate

A request is unasked, open, or settled by a choice or by silence; a routine
request is approved as soon as it is asked. `Tell` gives the verdict and nothing
else.

### Approvals

| In the model | In the code |
|---|---|
| `row[k]` | the row of the `approvals` table whose `dedupe_key` is `k`; `expired` stands for `expires_at < now`, `channel` and `messageRef` for what `mark_notified` writes |
| `decisions[k]` | the rows of the append-only `decisions` table |
| `posting`, `updating` | handlers that await `chat.postMessage` or `chat.update` |
| `card[k]` | the message in Slack, as the service uses it (external) |
| `told[k]` | the last settled answer of `request_approval` or `approval_status` |
| `SlackInUse` | whether Slack is configured; without it the page is the only channel |

One asyncio process serves every request and SQLite is called synchronously, so
a handler runs alone between two awaits: `RequestBySlack` stores the row and
sends the card, `PostDelivered` or `PostFailed` resumes it. A death of the
process (`Crash`) drops the handlers and keeps the tables. Slack may show a card
whose sender gave up on it. Time is left out: `Expire` may happen to any stored
request. Which rule of `rules.py` a request falls under is the constant
`Routine`; build controls from Slack are `Control` in `BuildScheduler`.

### Replies and Router

| In the model | In the code |
|---|---|
| `breaker[m]` | the `breaker` row of a model; `UpdateBreaker` is `_update_breaker` |
| `up`, `installed`, `discovered_at` | backends whose process answers; the cached lists of `RouterState` and their age |
| `status`, `demand`, `chain`, `at` | the local variables of `chat_completions` for one request |
| `since[r]` | when the chain of `r` was chosen: of no use to the code, only to the properties |
| `demand[r].pin`, `.bare` | the models a pin may mean: one with its backend, or all of a bare reference, of which one on an installed list answers (`Pinned`) |
| `Attr`, `Demand`, `Reply` | what catalog and benchmark say of a model, what a request asks for, what a call may come back with |

`Arrive` renews a stale list and chooses a chain; `Report` is one call coming
back, classified by `Replies` and written to the breaker, after which the
request ends, starts to stream, goes on to its next candidate, or asks the
backends for their models again ("renewing"); `Renew` is their answer, after
which it goes on too; `StreamEnds` is the end of a stream, whole or broken off.
Between these steps any other request may open or close a breaker. A pin knows
no policy, breaker or fallback, and a bare one that is on no installed list ends
in a 404 (`Route`). `discover` asks one backend after the other; in the models
they all answer at once. `Restart` loses the requests and the
cache and keeps the breaker. The scores by which `_diversify` orders models are
data, so `Chains` admits every order that some scores give. Which status code an
error ends in is left out.

### Capacity, Scanners and Scoped

`clock` counts in parts of the rolling window. `limited` and `cleared` are when a
harness was last reported exhausted and when a report was last withdrawn, `spent`
is the usage the ledger has per tick. `Select` is `select_runtime`, `Available`
is `headroom(r).available`.

| In the model | In the code |
|---|---|
| `pc[b]` | the call that `ScopedBuild.run` awaits |
| `work[b]` | its local variables: who implements and reviews; the version in the worktree (`tree`), the last one committed (`head`), what the tests ran on, what was approved, whether the base that was cloned has what an earlier attempt pushed (`past`) |
| `remote[b]` | the branch on the git host, with what was judged before the push, and whether its pull request was merged |
| `stopped`, `state` | control state and terminal event |
| `refused[h]` | when a harness last refused a call in words that `classify_failure` knows: only for the properties |

One action per awaited call, each with its failure: `Begin` (headroom, clone),
`Implement`, `Test`, `Repair`, `Review`, `Deliver` (scanners and push),
`Publish` (pull request), `Finish` (`run_scoped`: a stop that came meanwhile
decides). A call to a harness spends, or is refused in words that are recognised and
noted, or fails, exhausted or not, with nothing noted (`Invoke`). A commit may
fail without being noticed, so `tree` and `head` may part. `Crash` makes every
running build wait to be redone, with the branch it pushed still there under the
name the redone attempt will use; the owner may merge a pull request at any time
(`Merge`). The code pushes without a check of its own, so git decides: it takes a
push to a branch that is absent, at its base, or merged before the new clone
(`FastForward`). Versions are numbers; the content of files, prompts, and the MCP
configuration are left out.

### Policy, Committee and FullBuild

| In the model | In the code |
|---|---|
| `mode`, `timeout`, `policy` | `execution_mode_v1`, `scheduler.no_progress_timeout_s`, `routing_policy_v1` in the ledger |
| `patience` | the timeout the orchestrator read when it was constructed; it differs from `timeout` until the next start |
| `put` | a change of policy between its two awaits: the mode was read, the catalog is awaited |
| `build` | the queue entry with the policy it was queued with (`snapshot`), the provider map recorded at submission (`roles`), the runtime of its record (`base`) and of its first `build_submitted` (`first`), whether it asked for strong planning (`strong`), the verdict |
| `control` | what the owner last asked for |
| `watch` | local variables of `run_until_done`: age of `last_progress_at`, time since it started, last fingerprint, `_rate_limited_seen` |
| `exec` | the execution at AgentField (external): status, age of its last visible change, whom its messages of exhaustion name (`says`; "nobody" where one names no harness) |
| `gate` | one run of `run_gates` or of the `committee` command: panel, answers, scanners, verdict |

There are two time scales, because a window is hours and a poll is seconds:
`clock` counts in parts of a subscription window, the ages in `watch` and `exec`
in poll intervals; an age beyond `Horizon` is not told apart, and no limit lies
beyond it. `Minute` ages everything at once; `Watch` is one iteration of the
loop: stop, deadline, poll, exhaustion notes, watchdog. `Submit` is everything up
to the first await of `Orchestrator.submit`, `Submitted` is its reply. `Restart`
adopts an execution that the ledger knows and submits one that it does not; the
record it rebuilds has the runtime of the first submission, as `load_build` has.
`Answer` and `Decide` ask a panel one after the other and count.

Roles that the code always treats alike stand as one (`Role`); of the settings,
the mode, the timeout and one that only the host may set stand for all.

## 3. Runs

| Run | Bounds | Shows |
|---|---|---|
| `safety` | 2 builds with wall-clock limits, limit 1, 3 executions, 1 crash, 1 fault, 2 control signals | all safety and action properties of the scheduler, and the refinement of `BuildQueue` |
| `kinds` | 4 builds, limit 2, 3 executions, build 2 scoped, build 3 unreadable, builds 1 and 4 with wall-clock limits; 1 crash; the loop may raise | the invariants of queue and history and the refinement where several tasks run, a restart meets more builds than slots, and builds are of all kinds |
| `live` | 2 builds without a fault or 1 build with one, all with wall-clock limits, limit 1, 3 executions, 1 crash, 2 signals | the queue drains, through retries and failures too; a stop is honoured |
| `approvals` | 2 requests and a routine one, Slack in use, 1 crash, 1 fault | one card, one decision, no approval by silence; a person's word stands; whoever asked is told something, with its card lost too |
| `approvals_local` | the same with the page alone, 1 crash | the service implements the gate, an expiry is final |
| `router` | 3 requests of 4 kinds (private, streamed, pinned, pinned by a bare reference), 3 models on 2 backends, 3 replies, a breaker that opens after 2 failures, 2 ticks, 1 death or return of a backend or 1 restart | a sidelined model is reached along old chains and pins only, fallbacks keep the caller's terms, the catalog page is honest |
| `factory` | 2 scoped builds, 2 subscriptions with a budget of 2, a window of 1 tick, 1 repair, 1 stop, report or crash, merges | what is published was judged and stands until it is merged, overspending is bounded, a refused harness rests, every build ends |
| `decisions` | 1 full build, 4 policies an operator may send, 3 models of 2 families, timeouts of 1 and 2, a deadline of 2, 2 interventions, with and without strong planning | assignments stay within the mode and the snapshot, no live build is given up, green gates are earned, every build settles |
| `duplicate`, `stop_in_queue`, `dead_worker`, `late_click` | the smallest bounds that reach the case | one counterexample each, see Findings |

*Why these bounds are enough.*

* Scheduler: two builds on one slot are the least for which order, a full queue
  and a stop in the queue exist. A build that is submitted, loses its node, is
  retried, and whose reply is then lost to a crash needs three executions.
  Pause-then-stop and stop-then-resume need two signals. `kinds` has builds
  beyond the limit after a restart. `live` asks its question of an instance with
  contention and of one with failures, as both together are too large for
  temporal checking (`MCNext`); its builds have as many executions as their
  crashes and faults can use, and it checks deadlock.
* Approvals: two requests are enough to tell their rows apart, and nothing in the
  service relates more of them; one death and one fault let a card be lost in
  either way, between storing the request and noting the card, or by a post that
  fails; `SilenceIsSettled` is asked of the same run, without symmetry.
* Router: a breaker that opens needs two failing calls, and the report that closes
  it early a third that was routed before: three requests. Two models share a
  backend so that its death fails both; the third is hosted, so that privacy
  excludes it. Replies are a good one, a refused key and a dead line,
  which is retried at once in a stream and after a renewal of the lists elsewhere:
  each way `AfterCall` goes on. The other kinds are told apart by `Replies` only
  and lead to one of these. The bare pin needs the list that a dead backend has
  shrunk. A backend dies or the router does, time passes only once something has
  failed, and one request at a time has a pin (`MCNext`). Backoffs of 2 and 3 ticks let one
  breaker open and close within the run.
* Scoped builds: two builds compete for headroom at each of their calls; a budget
  of 2 is reached by one build, so the other meets an exhausted harness. `claude`
  reports what a call cost, `codex` does not. A person, a probe or a crash
  intervenes once, while one build is left: together with the second build that
  is too large. A stop, a redo after a push and a withdrawn report are all within
  one intervention, and a merge before or after the new clone needs none.
* Full build: the four policies are a local model for implementation, each of the
  two harnesses for a lane, and an assignment that is not valid; those plus the
  stored one cover what the assignments distinguish. Timeouts of 1 and 2 with a
  deadline of 2 let each of watchdog and deadline come first, and a restart pick
  up another timeout. People and processes intervene twice before the build runs
  or once while it does, and once more where a restart gives the record another
  runtime than the one that runs (a node was lost, and the build resubmitted on
  another harness). A message that names nobody comes alone, and from a build on a
  harness. A request without strong planning is looked at where it matters, in
  hybrid mode and with no policy; a fast one, which has one runtime, while policy and
  timeout of the dashboard are the usual ones and no report is withdrawn. An
  execution that keeps changing, and gates, are
  followed in a build for which nobody chose anything (`Plain`), since what it
  was assigned is not looked at any more. Three models of two families let two
  members speak for one family.

Executions and requests are only compared, so the safety runs use symmetry on
them; the liveness runs do not. The bounded counters appear in the guards of
`Enqueue`, `Control`, `Crash`, `Tick`, `Flip`, `Restart`, `Event` and the fault
actions, and nowhere else. `Submit` of `BuildScheduler` also needs an unused
execution: in runs with retries a behaviour can use them up, which is why safety
runs leave deadlock unchecked. The runs of `Approvals`, `Router`, `Scoped` and
`FullBuild` really end: every request is settled, every build has its verdict.

*Fairness.* The event loop starves nobody: weak fairness for `RunOnce` and for
each task's steps. The containers are restarted unless stopped: weak fairness
for `Restart`. Every await ends, since the HTTP clients have timeouts. Strong
fairness for `DeadlineExceeded`: the limit of a build of `Timed` is counted from
the start of its loop, which crashes and retries start over a bounded number of
times; once it has passed it stays passed, and is looked at whenever the loop comes
round and the build is not paused. For a build without a limit it is empty.
Nothing is assumed of the progress watchdog, since an error poll or ever-new
progress puts it off for good (`orchestrator.py:641`, `1067-1072`), nor of
AgentField, of the owner or of the faults. For approvals: the clock goes on
(`Expire`), a build that asked goes on polling (`Poll`), and calls to Slack get a
reply; nobody ever has to decide. For scoped builds: weak fairness for the steps
of each, as every call, clone, push and suite has a timeout. For a full build:
weak fairness for its submission, for the iterations of its loop and for the
passing of time; what a poll is answered with is not assumed. `QueueDrains` and
`EveryBuildSettles` are conditional on nobody keeping a build paused for ever: a
paused build keeps its slot by design (`orchestrator.py:950-963`).
Both are stated for builds with a deadline (`Timed`, `MaxRun > 0`), which is not
the default (`scheduler.py:117-118`): without one they do not hold, see below.

### What the properties say

* `HistoryInv`: of every build at every await, that what memory and ledger say of
  its execution is true of AgentField, that a word for its outcome has its reason,
  and that what it leaves behind has ended or was told to stop. It contains
  `QueueInv`, the order of the queue, and explains the seven properties below.
* `TrackedWithinLimit`: the executions that unfinished builds wait for are never
  more than `max_concurrent`, across restarts.
* `MemoryMatchesLedger`: what a task holds is what a restart would rebuild.
* `VerdictLeavesNothingRunning`, `NoStrayWithoutFailure`: what AgentField works
  on is awaited, tracked or told to stop, with the exceptions the code has.
* `CompleteIsEarned`, `StoppedHasACause`: why a build may have its verdict.
* `SubmitsOnlyUntracked`, `GivesUpOnlyLostNodes`, `VerdictIsFinal`: what a step
  may never do.
* `ImplementsQueue`: the scheduler refines `BuildQueue` under `Phase`.
* `QueueDrains`, `StopIsHonoured`: what must happen in the end: every build gets its
  verdict, where all have a deadline; a stopped one does without.
* `OneCard`, `DecidedOnce`, `NoSilentApproval`: two channels and a death of the
  service give one card, one decision, and no approval nobody gave.
* `PersonsWordStands`: once told a choice, a build is never told another.
* `SilenceIsSettled`: a build that asked is told something, even if the post of its
  card failed or the process died before the card was noted, after which no request
  sends one again.
* `ImplementsGate`, `ExpiryIsFinal`: what holds with the page alone and, as
  `late_click` shows, not with Slack.
* `RouterInv`: whoever was routed after a model was sidelined does not have it in
  the chain; a fallback never goes to a hosted model for a private request, nor
  to one model twice.
* `EarlyReleaseByOldChain`: an open breaker closes before its time only by the
  report of a request that was routed before it opened, or of one that pins the
  model. The call reported may be younger than the trip: a fallback walks the chain
  as it was chosen (`server.py:397-402`).
* `CatalogIsHonest`: no model is shown as routable that the router would reject,
  although page and router read different lists.
* `FactoryInv`: what a scoped build pushed is the version its reviewer approved,
  with its tests and scanners passed, after repairs, failed commits and redos; no
  run repairs more often than it may; and what a window was charged stays below
  its bound together with the calls still open (`CallsAreCovered`).
* `OverspendIsBounded`: headroom is looked at once and used for every call; what
  can be overspent is what the builds under way may still spend.
* `PullRequestStands`: once a branch shows a commit, and until its owner merges it,
  a redone attempt replaces nothing that was pushed, and no pull request goes away.
* `RefusedIsRested`: a harness whose refusal was recognised is given to no build
  that starts later, until its window has passed or the report was withdrawn.
* `EveryBuildEnds`: each scoped build gets its verdict.
* `FullBuildInv`: what is stored and queued is in normal form, the watchdog never
  thinks an execution quieter than it is, and a harness is blamed only if
  it was named, or if nobody was and the record gave it the build.
* `SubmittedWithinMode`: no role runs on a local model of a subscriptions-only
  host, and review is split from coding unless the ledger says otherwise.
* `SnapshotRules`: a build runs with the policy it was queued with, and assigning
  one lane moves no role of another.
* `ExhaustedOnlyByChoice`: a harness without headroom gets no work that nobody
  chose for it, but for judging a hybrid build that wants strong planning when
  nothing else can judge.
* `KilledOnlyIfStill`: a build is given up as stalled only if it stood still or
  no poll could see that it moved.
* `ApprovalIsEarned`: a green gate had all scanners passed, a quorum of families
  and no prevailing objection.
* `EveryBuildSettles`: a build with a deadline gets its verdict whatever the polls
  bring.

### Findings

The violation runs state what a comment, a document or the dashboard says of
the program. `PROJECT.json` quotes the lines.

* `duplicate`: a crash between AgentField's acceptance and `build_started`
  makes the restarted scheduler submit again; two executions are live.
* `stop_in_queue`: a stop that meets a build without a task, as all are after a
  restart, ends it with no cancel request for its execution.
* `dead_worker`: one exception in `run_once` ends the worker loop for good.
* `late_click`: a Slack button works after the request expired, which the page
  refuses; a build told to pause is then told to go on.

### Differences met that have no run

The models follow the code in each of these.

Scheduler and approvals. The control state is not read before a submission, so a
build paused in the queue is submitted and then found paused (`Start`,
`Submit`). A failed task frees its slot and leaves its execution running
(`TaskFails`). A decision made while its card is being posted finds no reference
and leaves the card's buttons alive (`Decide`, `PostDelivered`); `DecidedOnce`
shows that a second click is refused.

Watchdog. A poll that is answered with an error counts as progress
(`StillAfter`), so a control plane that alternates between answers and errors
keeps a dead build alive where `max_hours` is 0, the default of the API, contrary
to `orchestrator.py:983-988`. The no-progress timeout is read once, when the
orchestrator is constructed (`orchestrator.py:340-344`), so a change of the
setting waits for a restart (`patience`). The deadline is counted from each start
of the loop and not looked at while a build is paused. `_rate_limited_seen` is
lost at a restart, so an old message limits a harness again that an operator
cleared. A record that `load_build` makes has the runtime of the first
`build_submitted` (`orchestrator.py:1163`, `1175`): after a lost node, a
resubmission on another harness and a restart, a message of exhaustion that names
nobody is put to a harness the execution does not use, where
`orchestrator.py:683-696` calls it "evidence about whoever was running" (`Blamed`).
`scheduler.agent_timeout_seconds` is never read.

Policies. A build queued in hybrid mode with a local model raises at submission
once the mode is subscriptions-only (`Submit`), where `routing_config.py:102-104`
says of the stored policy that this is "not an error worth failing a build over". A fast build has one runtime and ignores the assignments of all
lanes but implementation (`Runs`). No `build_degraded` is recorded where the
operator's own assignments give coding and review to one harness. A policy is
saved as checked for the mode that was read before the catalog was awaited
(`SavePolicy`). `save_settings` may answer 422 after it applied a part of what it
was sent when the pinned mode is misspelt.

Gates. On a subscriptions-only host `run_gates` asks the two CLIs and then ends
in a name that is not bound (`orchestrator.py:912-914`; verdict "crashed"); the
`committee` command does so after it printed the result (`cli.py:714-715`). A member that answers JSON which is no object
ends the gates by an exception (`"malformed"`). An audit that dies without output
passes (`scanners.py:213-223`, `262-281`), and so does a `gitleaks` report that
cannot be read (`112-129`). `run_all` says "cheapest first" and runs all.

Scoped builds. A commit that fails is not noticed: a repair whose commit failed is
tested and not published, and a build whose first commit failed is "complete"
with nothing (`Write`). A redo after a push finds its branch rejected and ends
"complete" without the link to the pull request that is open; where the first push
was of the base alone, or was merged before the new clone, it is taken
(`FastForward`). `classify_failure` (`scoped.py:222-237`) is a second and narrower
test for exhaustion than `capacity.py:64-68`, against which `capacity.py:57-63`
warns: a bare 429, a credit balance or billing is an ordinary failure, and so is
the empty answer of an exhausted subscription (`scoped.py:517-529`); nothing is
noted, and the harness goes to the next build. The diff the reviewer sees is empty
where `git diff` fails and cut where it is long (`scoped.py:341`, `646-650`), so
`approved` is the version it was asked about. A repair that is
refused for capacity ends as failed, where `orchestrator.py:124-128` calls
exhausted capacity blocked. `codex` reports no cost, so its budget never binds.

Router. A late failure writes `open_until = 0` and so closes the breaker that
earlier ones opened (`ledger.py:217-232`). Pins pass over privacy, local-only mode
and the breaker. A refused connection renews the list and not the chain
(`Renew`), so the fallback of an old request is sent to a model that was sidelined
meanwhile, and its success ends the backoff (`server.py:397-402`). The context that `server.py:37-39` would raise a request to is
never raised. A stream that starts is a success whatever it brings
(`StreamEnds`).

## 4. Proofs

All theorems hold for every value of the constants and every bound, under the
assumptions that the modules name: `SchedulerConstants`, `ApprovalConstants`,
`RouterAssumption`, `CapacityAssumption`, `ScopedAssumption`, `PolicyAssumption`,
`CommitteeAssumption` and `FullBuildAssumption`, which TLC evaluates in each run.
The theorems about `BuildQueue` have its `QueueConstants` as a hypothesis, which
`SchedulerConstants` implies.

The queue:

* `QueueInvariant`: `Spec => []QueueInv`, and `TypeCorrect` from it. The limit
  alone is not inductive: after a crash `pc` is empty and nothing in it says
  how many executions are out. What is preserved is an order: **a build with a
  task has fewer than `MaxConcurrent` pending builds ahead of it**
  (`TasksInOrder`). `RunOnce` establishes it because slots go to the longest
  waiting and every task's build is pending (`TaskIsPending`); verdicts only
  shrink the set ahead, and later arrivals are behind. `SubmissionIsKnown` and
  `VerdictIsReady` carry what the refinement needs of the tasks.
* `HistoryInvariant` (`BuildHistory_proofs`): `Spec => []HistoryInv`. `QueueInv`
  says who may have a task; the rest says, build by build (`BuildHistory`), what
  its task, its ledger entry and AgentField have to do with each other, and of
  each execution, whose it is (`GivenIsSound`). It is inductive with `QueueInv`,
  which supplies that only pending builds have tasks. Its steps rest on two
  lemmas: an execution only moves onward (`Onward`), so what was said of it stays
  true while others act; and a step of a task moves its own build only.
* From it, by `PTL` alone or from the two states of a step: `MemoryIsLedger`,
  `NothingLeftRunning`, `NoStray`, `CompleteEarned`, `StoppedCaused`,
  `SubmitsUntracked` and `GivesUpLost`, one for each of the properties listed in
  section 3.
* `VerdictFinal`: `Spec => VerdictIsFinal`. Only steps of tasks and dismissals
  write an entry, tasks belong to pending builds, so an entry with a verdict is
  written by control signals only.
* `Refinement`: `Spec => ImplementsQueue`. `Submit` maps to `StartBuild`,
  `Enqueue` to `Arrive`, every step that records verdicts to `EndBuilds`, all
  others stutter. The guard of `StartBuild` is `TasksInOrder`.
* `QueueLimit` (`BuildQueue_proofs`): the abstract queue keeps its limit.
* `TrackedLimit`: `Spec => []TrackedWithinLimit`, by carrying `QueueLimit` over
  through `Refinement`: a tracked execution belongs to a running build, and an
  execution is tracked once per build at most.

Approvals:

* `ApprovalInvariant`: `Spec => []ApprovalInv`, and from it `OneCardAlways`,
  `DecidedOnceAlways` and `SilenceIsNoApproval`. One card and one decision need
  each other's state and `StoredFirst`: a decision belongs to a stored request,
  and a row is stored once, so its card is sent once. `ToldExpired` ties the
  answer `expired` to the row.
* `WordStands`: `Spec => PersonsWordStands`, for both channels: a choice that was
  told is the only row of `decisions` and no step appends a second.
* `LocalRefinement`, `LocalExpiry`: without Slack, `Spec => ImplementsGate` and
  `Spec => ExpiryIsFinal`. `NoLateDecisionLocally` is what fails with Slack: no
  card, no click on it, and the page looks at the expiry.
* `GateAnswers` (`ApprovalGate_proofs`): at the gate every answer is the verdict.

Router:

* `RouterInvariant`: `Spec => []RouterInv`, which is inductive. Its heart is the
  comparison of two times: a chain that was chosen at `since` holds only models
  whose breaker was closed then (`Eligible`), so a breaker that is open now opened
  at `since` or later; `BreakerCounts` is what makes `OpenedAt` the time of the
  last trip. `ChainShape` says what every order that crosses backends has in
  common, and `RecordShape` that a report changes one model's breaker.
* `EarlyRelease`: `Spec => EarlyReleaseByOldChain`, from the same comparison: only a
  report or the end of a stream writes a breaker, and the chain it walks was chosen
  before the breaker opened.
* `HonestCatalog`: `Spec => []CatalogIsHonest`.
* `ChainFound`: a request always gets an answer, and "nobody" exactly when it has
  no pin and no model serves its tier or a lower one, or when its pin is a bare
  reference on no installed list. The chain is built place by
  place, up to the number of models that are eligible.
* `BackoffDoubles`: each trip doubles the time out of service up to the longest.
* `WindowHolds`: the context that `ollama` is asked for holds half as much again
  as prompt and answer, unless a limit forbids it.

Scoped builds:

* `FactorySafe`: `Spec => []FactoryInv`. The invariant is not inductive alone:
  what a run that is "finishing" leaves in the ledger needs its outcome, what
  "publishing" shows needs the push, and what `Rested` says needs that no refusal
  is newer than the report of it (`Reported`). `IInv` adds these three; it is
  stated per build (`Sound`) so that a step of one leaves the others alone
  (`Apart`).
  What the budget needs is a sum: `CallsInv` adds to the usage of a window the cost
  of all calls that runs with the harness may still make (`OpenCalls`, counted as
  a set of pairs). A run opens calls only with a harness that is below its
  reserve, a call that is made was open, and time only takes usage out of the
  window. That the recursive `WindowUsage` is such a sum is shown by the least
  tick at which it would not be (`Least`).
* `OverspendBounded`: `Spec => []OverspendIsBounded`, from the same.
* `StepsRunOut`: the part of `EveryBuildEnds` that needs no fairness. `StepsLeft`
  is at most `2 * MaxRepairs + 7`, is 0 exactly when the build has its verdict, and
  is lowered by every step of the build, whatever the others do; only a death of
  the process raises it, at the price of one of finitely many events.
* `PullRequests`: `Spec => PullRequestStands`. It needs that a run which goes on from
  merged commits finds its branch still merged, and that only a branch with a
  commit has a pull request (`LedgerMatchesRun`). `Rested`: `Spec =>
  RefusedIsRested`, from `Reported`, which says of recognised refusals only that
  the ledger has them.

Full builds:

* `FullBuildSafe`: `Spec => []FullBuildInv`, which is inductive. Of
  `WatchIsHonest` the age is kept by time passing for both sides at once, by a
  change of the execution because it makes the fingerprint old, and by a poll
  because what it calls progress it resets. That the watchdog blames only whom it
  may is kept because the runtime of a record changes only with a new record, which
  has blamed nobody yet. `NormalForm` and `Loads` carry the
  normal form of policies through sending, storing and a change of the mode.
* `KilledOnlyWhenStill`: from `WatchIsHonest`, by the cases of one iteration.
* `WithinModeAlways`, `SnapshotRulesAlways`, `ExhaustedOnlyWhenChosen`: by what
  `Overlay` does to a role (`OverlayRuns`), who the default is (`OnlyDefaults`,
  `OnlySplit`, `HybridJudge`), and the normal form of the snapshot.
* `ApprovalEarned`: `Spec => []ApprovalIsEarned`, by counting families: those that
  approve and do not reject, and those that reject, part the families that
  voted.

* `PanelSpeaksForFamilies`: a committee drawn from any set of fit models has one
  member of each family among them, and none of that family is better.
* `WithdrawingNeverApproves`: replacing approvals by rejections, abstentions or
  errors never gets a change through, under every rule and quorum. The same is not
  true of an abstention replaced by a rejection: under the majority rule the
  objection can complete the quorum that was missing (`committee.py:354-366`).

Induction over data (a backoff, a chain, a sum) is done without an induction rule:
the set of numbers at which a claim fails has a least member (`Least`), and
there is none.

Every safety invariant and every action property that a passing run checks is
proved. Only model-checked are the liveness properties (`QueueDrains`,
`StopIsHonoured`, `SilenceIsSettled`, `EveryBuildEnds`, `EveryBuildSettles`): the
prover has no `ENABLED`, so fairness cannot be used.

## 5. Plan

| Order | What | Composes or refines | Runs | Theorems |
|---|---|---|---|---|
| done | `BuildQueue`, `BuildScheduler`, `ApprovalGate`, `Approvals`, `Router`, `Scoped`, `FullBuild` and what they compose | as in section 2 | as in section 3 | as in section 4 |
| 1 | what the other liveness properties rest on | | | a measure like `StepsLeft` for a task of `BuildScheduler` between two polls, and for the submission and the deadline of `FullBuild` |
| 2 | `Registry`: the MCP registry under concurrent requests | read by `Submit` | two requests in two threads | once nobody writes, the files are those of the registry, or where not |

### Not modelled

* The MCP registry, so far. Its requests run in threads that read the whole row or
  file, change it and write it back (`mcp_registry.py:329-369`, `418-445`), then
  render the configuration of the harnesses from another read (`596-628`). An
  update can be lost, a deleted server's credential written back by a request that
  read it before, and an older rendering be the last one written, while
  `scheduler.py:738-745` calls the file "always the committed state".
* `max_concurrent` changed between two starts: it is a constant of the models.
* The answer to `POST /builds` lost on its way: a person who sends the request
  again has two builds, which is `Enqueue` twice.
* Layout of cards, pages and reports, prompts, redaction; the payload given to
  AgentField: formatting.
* Subprocess and HTTP adapters, git and GitHub calls, protection rules, probes:
  synchronous, without a state of their own. What they can answer is a choice in
  the actions that call them.
* Catalog and benchmark run offline; what they found is the constants `Attr` and
  `Quality`.
* The dashboard is a view that polls; two of its statements are checked. The
  sandbox service is the target of the benchmark. Scripts and containers start
  things. The SWE-AF patches change another program.
