---------------------------- MODULE BuildScheduler ----------------------------
(***************************************************************************)
(* The always-on build scheduler (ctswarm/scheduler.py) driving AgentField *)
(* executions through the orchestrator (ctswarm/orchestrator.py), with the *)
(* SQLite event ledger as the only state that outlives the process.        *)
(*                                                                         *)
(* One asyncio process runs a worker loop (run_forever / run_once) and one *)
(* task per dispatched build (_run_request).  A task runs alone from one   *)
(* await to the next; the ledger is also written by the Slack service and  *)
(* the CLI, at any time, and the process can die between any two commits.  *)
(* A step of a task below ends at an await or at a ledger commit that      *)
(* changes what a restart would rebuild.                                   *)
(*                                                                         *)
(* Time is left out: a timer that may have run out is a choice.            *)
(***************************************************************************)
EXTENDS Integers, FiniteSets

CONSTANTS
    MaxBuilds,      \* bound: builds ever enqueued, numbered by arrival
    MaxConcurrent,  \* BuildScheduler.max_concurrent
    Executions,     \* identities AgentField can give a submission
    NoExecution,    \* execution_id = ""
    Scoped,         \* builds of tier "scoped": run here, not by AgentField
    Unreadable,     \* builds whose stored payload this version cannot read
    Timed,          \* builds with a wall-clock limit: max_hours > 0
    RunOnceMayRaise,\* whether the ledger can fail the worker loop itself
    MaxCrashes,     \* bound: process deaths
    MaxFaults,      \* bound: lost replies, dead nodes, exceptions in tasks
    MaxControls     \* bound: pause, resume and stop requests

Builds == 1 .. MaxBuilds

ASSUME SchedulerConstants ==
    /\ MaxBuilds \in Nat
    /\ MaxConcurrent \in Nat \ {0}
    /\ NoExecution \notin Executions
    /\ Scoped \subseteq Builds
    /\ Unreadable \subseteq Builds
    /\ Timed \subseteq Builds
    /\ RunOnceMayRaise \in BOOLEAN
    /\ MaxCrashes \in Nat
    /\ MaxFaults \in Nat
    /\ MaxControls \in Nat

VARIABLES
    arrived,    \* durable: builds 1 .. arrived have a build_enqueued event
    ledger,     \* durable: what the other events of each build replay to
    worker,     \* run_forever: looping, ended by an exception, or no process
    pc,         \* _tasks: where the task of each build is
    record,     \* the BuildRecord that task holds in memory
    sent,       \* the submission whose HTTP reply that task awaits
    execution,  \* AgentField: what became of each submission
    cancels,    \* executions a cancel request was sent for
    crashes, faults, controls   \* how much of each bound is used

durable == <<arrived, ledger>>
tasks == <<pc, record, sent>>
agentField == <<execution, cancels>>
bounds == <<crashes, faults, controls>>
vars == <<durable, worker, tasks, agentField, bounds>>

-------------------------------------------------------------------------------
(* BuildState.  QUEUED, PLANNING and EXECUTING are one state, "active":    *)
(* the code never tells them apart except to word a status.                *)

Terminal == {"complete", "failed", "stopped", "blocked"}
BuildState == {"active", "paused"} \cup Terminal

(***************************************************************************)
(* A LedgerEntry is load_build and control_state as functions of the       *)
(* events so far: each event changes the field its branch in load_build    *)
(* sets.  verdict is the first build_terminal event; stopAsked says that   *)
(* a build_control_stop event is in the log.                               *)
(***************************************************************************)
LedgerEntry ==
    [submitted : BOOLEAN,
     execution : Executions \cup {NoExecution},
     state     : BuildState,
     control   : {"running", "paused", "stopped"},
     stopAsked : BOOLEAN,
     verdict   : Terminal \cup {"none"}]

NewEntry ==
    [submitted |-> FALSE, execution |-> NoExecution, state |-> "active",
     control |-> "running", stopAsked |-> FALSE, verdict |-> "none"]

(***************************************************************************)
(* A BuildRecord in memory.  nodeLost is an error text that carries        *)
(* AgentField's cancelled_by_control_plane marker: no event stores it, so  *)
(* load_build never restores it.                                           *)
(***************************************************************************)
BuildRecord ==
    [execution : Executions \cup {NoExecution},
     state     : BuildState,
     nodeLost  : BOOLEAN]

NewRecord == [execution |-> NoExecution, state |-> "active", nodeLost |-> FALSE]

Replayed(entry) ==
    [execution |-> entry.execution, state |-> entry.state, nodeLost |-> FALSE]

(* The awaits and commits a task of _run_request can be at. *)
TaskPc ==
    {"none",        \* not in _tasks
     "created",     \* create_task returned, the task has not run yet
     "submitting",  \* about to call submit, or sleeping before a retry
     "posting",     \* awaiting the reply to the submission
     "looping",     \* at the top of run_until_done
     "polling",     \* awaiting the execution's status
     "stopping",    \* awaiting cancel_execution for the owner
     "expiring",    \* awaiting cancel_execution after a time limit
     "finishing",   \* about to post the final status
     "deciding",    \* run_until_done returned
     "scoped",      \* running a scoped change in this process
     "done"}        \* task.done(), not yet reaped by run_once

ExecutionStatus ==
    {"unused", "requested", "rejected", "live", "succeeded", "failed",
     "cancelled",                   \* on request
     "cancelled_by_control_plane"}  \* its agent node disappeared

TypeOK ==
    /\ arrived \in 0 .. MaxBuilds
    /\ ledger \in [Builds -> LedgerEntry]
    /\ worker \in {"up", "down", "dead"}
    /\ pc \in [Builds -> TaskPc]
    /\ record \in [Builds -> BuildRecord]
    /\ sent \in [Builds -> Executions \cup {NoExecution}]
    /\ execution \in [Executions -> [build : 0 .. MaxBuilds, status : ExecutionStatus]]
    /\ cancels \subseteq Executions
    /\ crashes \in 0 .. MaxCrashes
    /\ faults \in 0 .. MaxFaults
    /\ controls \in 0 .. MaxControls

Init ==
    /\ arrived = 0
    /\ ledger = [b \in Builds |-> NewEntry]
    /\ worker = "up"
    /\ pc = [b \in Builds |-> "none"]
    /\ record = [b \in Builds |-> NewRecord]
    /\ sent = [b \in Builds |-> NoExecution]
    /\ execution = [e \in Executions |-> [build |-> 0, status |-> "unused"]]
    /\ cancels = {}
    /\ crashes = 0
    /\ faults = 0
    /\ controls = 0

-------------------------------------------------------------------------------
(* Helpers *)

Pending == {b \in 1 .. arrived : ledger[b].verdict = "none"}

(* The task of b is about to take the step it waits at. *)
At(b, point) == pc[b] = point

Goto(b, point) == pc' = [pc EXCEPT ![b] = point]

(* _record_terminal: the first build_terminal event stands. *)
WithVerdict(entry, v) ==
    IF entry.verdict = "none" THEN [entry EXCEPT !.verdict = v] ELSE entry

(* cancel_execution: the request leaves; it may never take effect. *)
SendCancel(e) == cancels' = cancels \cup ({e} \ {NoExecution})

-------------------------------------------------------------------------------
(* The outside: clients, the owner, AgentField *)

(* POST /builds and POST /swarms. *)
Enqueue ==
    /\ worker # "down"
    /\ arrived < MaxBuilds
    /\ arrived' = arrived + 1
    /\ UNCHANGED <<ledger, worker, tasks, agentField, bounds>>

(* request_pause, request_resume and request_stop, by the API, the CLI or  *)
(* Slack: an event for a known build, whatever became of the build.        *)
Control(b, signal) ==
    /\ b <= arrived
    /\ controls < MaxControls
    /\ controls' = controls + 1
    /\ ledger' = [ledger EXCEPT ![b].control = signal,
                                ![b].stopAsked = @ \/ signal = "stopped"]
    /\ UNCHANGED <<arrived, worker, tasks, agentField, crashes, faults>>

(* AgentField takes a submission up, possibly after the client gave up. *)
Accept(e) ==
    /\ execution[e].status = "requested"
    /\ execution' = [execution EXCEPT ![e].status = "live"]
    /\ UNCHANGED <<durable, worker, tasks, cancels, bounds>>

(* A live execution ends: succeeded with success=true, or anything less. *)
Conclude(e, outcome) ==
    /\ execution[e].status = "live"
    /\ outcome \in {"succeeded", "failed"}
    /\ execution' = [execution EXCEPT ![e].status = outcome]
    /\ UNCHANGED <<durable, worker, tasks, cancels, bounds>>

(* The agent node of a live execution disappears. *)
LoseNode(e) ==
    /\ execution[e].status = "live"
    /\ faults < MaxFaults
    /\ faults' = faults + 1
    /\ execution' = [execution EXCEPT ![e].status = "cancelled_by_control_plane"]
    /\ UNCHANGED <<durable, worker, tasks, cancels, crashes, controls>>

CancelTakesEffect(e) ==
    /\ e \in cancels
    /\ execution[e].status = "live"
    /\ execution' = [execution EXCEPT ![e].status = "cancelled"]
    /\ UNCHANGED <<durable, worker, tasks, cancels, bounds>>

-------------------------------------------------------------------------------
(* run_once, between two sleeps of run_forever: it never awaits, so tasks  *)
(* see all of it or nothing.  A control signal or a crash in its midst     *)
(* cannot be told from one right after it: what it does past its last      *)
(* commit is creating tasks that have not run yet.                         *)

HasNoTask(b) == pc[b] \in {"none", "done"}

UnreadablePending == Pending \cap Unreadable

(* Slip: the sweep forgets that a build may have a task. *)
StoppedAnywhere == {b \in Pending \ Unreadable : ledger[b].control = "stopped"}

(* Slip: a paused build in the queue is taken for a stopped one. *)
HeldInQueue ==
    {b \in Pending \ Unreadable : HasNoTask(b) /\ ledger[b].control # "running"}

StoppedInQueue ==
    {b \in Pending \ Unreadable : HasNoTask(b) /\ ledger[b].control = "stopped"}

ToDismiss == UnreadablePending \cup StoppedInQueue

(* A payload that cannot be read fails its build (pending_requests), and   *)
(* every queued build the owner stopped ends without waiting for a slot.   *)
Dismissed(swept) ==
    [b \in Builds |->
        CASE b \in swept \cap UnreadablePending -> WithVerdict(ledger[b], "failed")
          [] b \in swept \cap StoppedInQueue    -> WithVerdict(ledger[b], "stopped")
          [] OTHER                              -> ledger[b]]

(* Unreadable payloads go first, then the stops, each by order of arrival. *)
DismissedBefore(c, b) ==
    IF c \in Unreadable <=> b \in Unreadable THEN c < b ELSE c \in Unreadable

(* Slip: a build that has its verdict is waiting still. *)
WaitingForever == {b \in 1 .. arrived \ ToDismiss : HasNoTask(b)}

(* The free slots go to the builds that have been waiting longest. *)
Waiting == {b \in Pending \ ToDismiss : HasNoTask(b)}

FreeSlots == MaxConcurrent - Cardinality({b \in Builds : ~HasNoTask(b)})

(* Slip: one build too many. *)
DispatchedOneMore ==
    {b \in Waiting : Cardinality({c \in Waiting : c < b}) <= FreeSlots}

(* Slip: the latest arrivals first. *)
DispatchedNewestFirst ==
    {b \in Waiting : Cardinality({c \in Waiting : c > b}) < FreeSlots}

Dispatched == {b \in Waiting : Cardinality({c \in Waiting : c < b}) < FreeSlots}

(* Slip: finished tasks are never taken out of _tasks. *)
RunOnceUnreaped ==
    /\ worker = "up"
    /\ ledger' = Dismissed(ToDismiss)
    /\ pc' = [b \in Builds |-> IF b \in Dispatched /\ pc[b] = "none"
                                  /\ \A c \in Builds : pc[c] # "done"
                               THEN "created" ELSE pc[b]]
    /\ UNCHANGED <<arrived, worker, record, sent, agentField, bounds>>

(* Finished tasks are reaped, so their slots are free in the same pass. *)
RunOnce ==
    /\ worker = "up"
    /\ ledger' = Dismissed(ToDismiss)
    /\ pc' = [b \in Builds |-> IF b \in Dispatched THEN "created"
                               ELSE IF pc[b] = "done" THEN "none"
                               ELSE pc[b]]
    /\ UNCHANGED <<arrived, worker, record, sent, agentField, bounds>>

(* An exception in run_once, after any of its commits, ends run_forever    *)
(* for good; the tasks and the API go on.                                  *)
RunOnceRaises ==
    /\ RunOnceMayRaise
    /\ worker = "up"
    /\ worker' = "dead"
    /\ \E swept \in SUBSET ToDismiss :
        /\ \A b \in swept, c \in ToDismiss : DismissedBefore(c, b) => c \in swept
        /\ ledger' = Dismissed(swept)
    /\ UNCHANGED <<arrived, tasks, agentField, bounds>>

(* GET /health reads the queue, and fails what it cannot read. *)
Health ==
    /\ worker # "down"
    /\ ledger' = Dismissed(UnreadablePending)
    /\ UNCHANGED <<arrived, worker, tasks, agentField, bounds>>

(* The process ends, killed or through close(): every task goes with it. *)
Crash ==
    /\ worker # "down"
    /\ crashes < MaxCrashes
    /\ crashes' = crashes + 1
    /\ worker' = "down"
    /\ pc' = [b \in Builds |-> "none"]
    /\ record' = [b \in Builds |-> NewRecord]
    /\ sent' = [b \in Builds |-> NoExecution]
    /\ UNCHANGED <<durable, agentField, faults, controls>>

Restart ==
    /\ worker = "down"
    /\ worker' = "up"
    /\ UNCHANGED <<durable, tasks, agentField, bounds>>

-------------------------------------------------------------------------------
(* _run_request: taking a build up and submitting it *)

(* A scoped build that was stopped before it began does no work at all. *)
StartScoped(b) ==
    /\ At(b, "created")
    /\ b \in Scoped
    /\ IF ledger[b].control = "stopped"
       THEN /\ Goto(b, "deciding")
            /\ record' = [record EXCEPT ![b].state = "stopped"]
       ELSE /\ Goto(b, "scoped")
            /\ UNCHANGED record
    /\ UNCHANGED <<durable, worker, sent, agentField, bounds>>

(* Slip: what load_build found is not looked at. *)
StartAfresh(b) ==
    /\ At(b, "created")
    /\ b \notin Scoped
    /\ Goto(b, "submitting")
    /\ UNCHANGED <<durable, worker, record, sent, agentField, bounds>>

(* Slip: the tier is not looked at. *)
StartAnyTier(b) ==
    /\ At(b, "created")
    /\ record' = [record EXCEPT ![b] = Replayed(ledger[b])]
    /\ Goto(b, IF ledger[b].execution = NoExecution THEN "submitting" ELSE "looping")
    /\ UNCHANGED <<durable, worker, sent, agentField, bounds>>

(* load_build: a build that already has an execution is not submitted. *)
Start(b) ==
    /\ At(b, "created")
    /\ b \notin Scoped
    /\ record' = [record EXCEPT ![b] = Replayed(ledger[b])]
    /\ Goto(b, IF ledger[b].execution = NoExecution THEN "submitting"
               ELSE IF ledger[b].state \in Terminal THEN "deciding"
               ELSE "looping")
    /\ UNCHANGED <<durable, worker, sent, agentField, bounds>>

(* submit with both subscriptions spent: no submission, BLOCKED. *)
SubmitBlocked(b) ==
    /\ At(b, "submitting")
    /\ record' = [record EXCEPT ![b].state = "blocked"]
    /\ Goto(b, "deciding")
    /\ UNCHANGED <<durable, worker, sent, agentField, bounds>>

(* submit: the build_submitted event, then the POST leaves. *)
Submit(b) ==
    /\ At(b, "submitting")
    /\ \E e \in Executions :
        /\ execution[e].status = "unused"
        /\ execution' = [execution EXCEPT ![e] = [build |-> b, status |-> "requested"]]
        /\ sent' = [sent EXCEPT ![b] = e]
    /\ ledger' = [ledger EXCEPT ![b].submitted = TRUE]
    /\ Goto(b, "posting")
    /\ UNCHANGED <<arrived, worker, record, cancels, bounds>>

(* Slip: the build_started event is missing. *)
SubmitAcceptedUnrecorded(b) ==
    /\ At(b, "posting")
    /\ execution[sent[b]].status \notin {"requested", "rejected"}
    /\ record' = [record EXCEPT ![b] = [NewRecord EXCEPT !.execution = sent[b]]]
    /\ sent' = [sent EXCEPT ![b] = NoExecution]
    /\ Goto(b, "looping")
    /\ UNCHANGED <<durable, worker, agentField, bounds>>

(* 202 with an execution id: the build_started event. *)
SubmitAccepted(b) ==
    /\ At(b, "posting")
    /\ execution[sent[b]].status \notin {"requested", "rejected"}
    /\ ledger' = [ledger EXCEPT ![b].execution = sent[b]]
    /\ record' = [record EXCEPT ![b] = [NewRecord EXCEPT !.execution = sent[b]]]
    /\ sent' = [sent EXCEPT ![b] = NoExecution]
    /\ Goto(b, "looping")
    /\ UNCHANGED <<arrived, worker, agentField, bounds>>

SubmitFails(b) ==
    /\ record' = [record EXCEPT ![b] = [NewRecord EXCEPT !.state = "failed"]]
    /\ sent' = [sent EXCEPT ![b] = NoExecution]
    /\ Goto(b, "deciding")

(* HTTP 4xx or 5xx: AgentField did not take the submission. *)
SubmitRejected(b) ==
    /\ At(b, "posting")
    /\ execution[sent[b]].status = "requested"
    /\ execution' = [execution EXCEPT ![sent[b]].status = "rejected"]
    /\ SubmitFails(b)
    /\ UNCHANGED <<durable, worker, cancels, bounds>>

(* A timeout, a broken connection or a reply without an id: AgentField may *)
(* have the submission all the same.                                       *)
SubmitReplyLost(b) ==
    /\ At(b, "posting")
    /\ faults < MaxFaults
    /\ faults' = faults + 1
    /\ SubmitFails(b)
    /\ UNCHANGED <<durable, worker, agentField, crashes, controls>>

-------------------------------------------------------------------------------
(* run_until_done.  A status that is posted while the build goes on commits *)
(* the state the ledger already replays to, so it is not a step of its own. *)

(* Slip: the loop does not look for a stop. *)
StopUnseen(b) == FALSE

StopSeen(b) ==
    /\ At(b, "looping")
    /\ ledger[b].control = "stopped"
    /\ SendCancel(record[b].execution)
    /\ Goto(b, "stopping")
    /\ UNCHANGED <<durable, worker, record, sent, execution, bounds>>

(* cancel_execution returned, true or false: the build_stopped event. *)
Stopped(b) ==
    /\ At(b, "stopping")
    /\ record' = [record EXCEPT ![b].state = "stopped"]
    /\ ledger' = [ledger EXCEPT ![b].state = "stopped"]
    /\ Goto(b, "deciding")
    /\ UNCHANGED <<arrived, worker, sent, agentField, bounds>>

(* The build_paused event; a build that is paused already just sleeps. *)
PauseSeen(b) ==
    /\ At(b, "looping")
    /\ ledger[b].control = "paused"
    /\ record[b].state # "paused"
    /\ record' = [record EXCEPT ![b].state = "paused"]
    /\ ledger' = [ledger EXCEPT ![b].state = "paused"]
    /\ UNCHANGED <<arrived, worker, pc, sent, agentField, bounds>>

(* No stop and no pause: a paused build resumes (build_resumed), and then  *)
(* either its wall-clock limit has passed or its execution is polled.      *)
GoesOn(b) ==
    /\ At(b, "looping")
    /\ ledger[b].control = "running"
    /\ record' = [record EXCEPT ![b].state = "active"]
    /\ ledger' = [ledger EXCEPT ![b].state = IF record[b].state = "paused"
                                             THEN "active" ELSE @]
    /\ UNCHANGED <<arrived, worker, sent, execution, bounds>>

Continue(b) ==
    /\ GoesOn(b)
    /\ Goto(b, "polling")
    /\ UNCHANGED cancels

DeadlineExceeded(b) ==
    /\ b \in Timed
    /\ GoesOn(b)
    /\ SendCancel(record[b].execution)
    /\ Goto(b, "expiring")

(* poll found nothing new, or failed: the record is what it was. *)
PollUnchanged(b) ==
    /\ At(b, "polling")
    /\ Goto(b, "looping")
    /\ UNCHANGED <<durable, worker, record, sent, agentField, bounds>>

(* Slip: AgentField's word for it is taken over as it is. *)
StateUnmapped(status) == status

(* Slip: a reasoner that ran is taken for a build that succeeded. *)
StateOfTransport(status) ==
    IF status \in {"succeeded", "failed"} THEN "complete" ELSE "stopped"

(* update_record_from_execution on an execution that has ended. *)
StateOf(status) ==
    CASE status = "succeeded" -> "complete"
      [] status = "failed"    -> "failed"
      [] OTHER                -> "stopped"

PollEnded(b) ==
    LET status == execution[record[b].execution].status
    IN  /\ At(b, "polling")
        /\ status \in {"succeeded", "failed", "cancelled", "cancelled_by_control_plane"}
        /\ record' = [record EXCEPT
                        ![b].state = StateOf(status),
                        ![b].nodeLost = (status = "cancelled_by_control_plane")]
        /\ Goto(b, "finishing")
        /\ UNCHANGED <<durable, worker, sent, agentField, bounds>>

(* Slip: a stalled build is failed, its execution left alone. *)
NoProgressUncancelled(b) ==
    /\ At(b, "polling")
    /\ Goto(b, "expiring")
    /\ UNCHANGED <<durable, worker, record, sent, agentField, bounds>>

(* The poll showed no progress for no_progress_timeout_s. *)
NoProgress(b) ==
    /\ At(b, "polling")
    /\ SendCancel(record[b].execution)
    /\ Goto(b, "expiring")
    /\ UNCHANGED <<durable, worker, record, sent, execution, bounds>>

(* cancel_execution returned: build_deadline_exceeded or                   *)
(* build_no_progress_timeout, events that load_build does not replay.      *)
Expired(b) ==
    /\ At(b, "expiring")
    /\ record' = [record EXCEPT ![b].state = "failed"]
    /\ Goto(b, "finishing")
    /\ UNCHANGED <<durable, worker, sent, agentField, bounds>>

(* The closing build_status event. *)
PostFinalStatus(b) ==
    /\ At(b, "finishing")
    /\ ledger' = [ledger EXCEPT ![b].state = record[b].state]
    /\ Goto(b, "deciding")
    /\ UNCHANGED <<arrived, worker, record, sent, agentField, bounds>>

(* run_scoped returns: a stop that came meanwhile decides the outcome. *)
FinishScoped(b) ==
    /\ At(b, "scoped")
    /\ \E outcome \in {"complete", "blocked", "failed"} :
        record' = [record EXCEPT ![b].state =
                     IF ledger[b].control = "stopped" THEN "stopped" ELSE outcome]
    /\ Goto(b, "deciding")
    /\ UNCHANGED <<durable, worker, sent, agentField, bounds>>

-------------------------------------------------------------------------------
(* _run_request: what becomes of a build that has run *)

(* Slip: every stop is retried. *)
RetryAnyStop(b) == record[b].state = "stopped"

(* _retryable_infrastructure_stop, unless the owner wants a stop; there is *)
(* no retry on the scoped path (_run_scoped_request).                      *)
RetryIsDue(b) ==
    b \notin Scoped /\ record[b].nodeLost /\ ledger[b].control # "stopped"

(* The build_infrastructure_retry event; the sleep leads back to submit. *)
Retry(b) ==
    /\ At(b, "deciding")
    /\ RetryIsDue(b)
    /\ ledger' = [ledger EXCEPT ![b].execution = NoExecution, ![b].state = "active"]
    /\ record' = [record EXCEPT ![b] = NewRecord]
    /\ Goto(b, "submitting")
    /\ UNCHANGED <<arrived, worker, sent, agentField, bounds>>

(* The task is over: nothing of it is left in memory. *)
EndTask(b) ==
    /\ record' = [record EXCEPT ![b] = NewRecord]
    /\ sent' = [sent EXCEPT ![b] = NoExecution]
    /\ Goto(b, "done")

RecordTerminal(b) ==
    /\ At(b, "deciding")
    /\ ~RetryIsDue(b)
    /\ ledger' = [ledger EXCEPT ![b] = WithVerdict(@, record[b].state)]
    /\ EndTask(b)
    /\ UNCHANGED <<arrived, worker, agentField, bounds>>

(* An unexpected exception ends the task; the build is recorded as failed, *)
(* and whatever execution it had is left alone.                            *)
TaskFails(b) ==
    /\ ~HasNoTask(b)
    /\ faults < MaxFaults
    /\ faults' = faults + 1
    /\ ledger' = [ledger EXCEPT ![b] = WithVerdict(@, "failed")]
    /\ EndTask(b)
    /\ UNCHANGED <<arrived, worker, agentField, crashes, controls>>

(* The same, and recording the failure raises too (the ledger is locked):  *)
(* the build stays pending and the next run_once takes it up again.        *)
TaskVanishes(b) ==
    /\ ~HasNoTask(b)
    /\ faults < MaxFaults
    /\ faults' = faults + 1
    /\ EndTask(b)
    /\ UNCHANGED <<durable, worker, agentField, crashes, controls>>

-------------------------------------------------------------------------------
(* The specification *)

Environment ==
    \/ Enqueue
    \/ \E b \in Builds, signal \in {"running", "paused", "stopped"} : Control(b, signal)
    \/ \E e \in Executions :
        \/ Accept(e)
        \/ \E outcome \in {"succeeded", "failed"} : Conclude(e, outcome)
        \/ LoseNode(e)
        \/ CancelTakesEffect(e)

Worker == RunOnce \/ RunOnceRaises \/ Health \/ Crash \/ Restart

Submission(b) ==
    \/ StartScoped(b) \/ Start(b)
    \/ SubmitBlocked(b) \/ Submit(b)
    \/ SubmitAccepted(b) \/ SubmitRejected(b) \/ SubmitReplyLost(b)

RunUntilDone(b) ==
    \/ StopSeen(b) \/ Stopped(b) \/ PauseSeen(b)
    \/ Continue(b) \/ DeadlineExceeded(b)
    \/ PollUnchanged(b) \/ PollEnded(b) \/ NoProgress(b) \/ Expired(b)
    \/ PostFinalStatus(b) \/ FinishScoped(b)

Ending(b) == Retry(b) \/ RecordTerminal(b) \/ TaskFails(b) \/ TaskVanishes(b)

Next ==
    \/ Environment
    \/ Worker
    \/ \E b \in Builds : Submission(b) \/ RunUntilDone(b) \/ Ending(b)

Spec == Init /\ [][Next]_vars

-------------------------------------------------------------------------------
(* Fairness.  The event loop starves nobody, so the worker loop and every  *)
(* task move whenever they can, and a restart follows a crash (the         *)
(* containers restart unless stopped).  Every await of a task ends: the    *)
(* HTTP client has timeouts, and a submission nobody answers is refused.   *)
(* The wall-clock limit, where a build has one, is counted from the start  *)
(* of the loop and looked at whenever the build may go on; once it has     *)
(* passed it stays passed, so a build that keeps coming back to the top of *)
(* the loop meets it: strong fairness, which is empty for the others.      *)
(* Nothing is assumed of the progress watchdog, which a poll that is       *)
(* answered with an error or with ever-new progress puts off for good, nor *)
(* of AgentField, of the owner or of the faults.                           *)

TaskStep(b) ==
    \/ StartScoped(b) \/ Start(b)
    \/ SubmitBlocked(b) \/ Submit(b) \/ SubmitAccepted(b) \/ SubmitRejected(b)
    \/ StopSeen(b) \/ Stopped(b) \/ PauseSeen(b)
    \/ Continue(b) \/ DeadlineExceeded(b)
    \/ PollUnchanged(b) \/ PollEnded(b) \/ Expired(b)
    \/ PostFinalStatus(b) \/ FinishScoped(b)
    \/ Retry(b) \/ RecordTerminal(b)

Fairness ==
    /\ WF_vars(RunOnce) /\ WF_vars(Restart)
    /\ \A b \in Builds : WF_vars(TaskStep(b)) /\ SF_vars(DeadlineExceeded(b))

FairSpec == Spec /\ Fairness

-------------------------------------------------------------------------------
(* Properties *)

Live(e) == execution[e].status = "live"
LiveExecutions(b) == {e \in Executions : Live(e) /\ execution[e].build = b}

(***************************************************************************)
(* The executions that unfinished builds are waiting for never exceed the  *)
(* limit, across restarts too: a restarted scheduler has no tasks, and     *)
(* must take up the builds it had in flight before any other               *)
(* (run_once, scheduler.py:426-441).                                       *)
(***************************************************************************)
TrackedExecutions ==
    {e \in Executions : \E b \in Pending : ledger[b].execution = e}

TrackedWithinLimit == Cardinality(TrackedExecutions) <= MaxConcurrent

(***************************************************************************)
(* What a task holds in memory is what a restart would rebuild: while an   *)
(* execution is followed, it is the one in the ledger, and it is an        *)
(* execution of this build (_run_request against load_build).              *)
(***************************************************************************)
Following == {"looping", "polling", "stopping", "expiring", "finishing"}

MemoryMatchesLedger ==
    \A b \in Builds : pc[b] \in Following =>
        /\ record[b].execution = ledger[b].execution
        /\ record[b].execution # NoExecution
        /\ execution[record[b].execution].build = b

(***************************************************************************)
(* Why ImplementsQueue holds: an invariant strong enough to be preserved   *)
(* by every step on its own.  A build with a task is pending and has fewer *)
(* than MaxConcurrent pending builds ahead of it, whatever crashes and     *)
(* stops happened (run_once); only a submitted build can be on its way to  *)
(* complete (_run_request); a build that has not arrived has no history.   *)
(***************************************************************************)
PendingAhead(b) == {c \in Pending : c < b}

AbsentIsBlank ==
    \A b \in Builds : b > arrived =>
        /\ pc[b] = "none"
        /\ ledger[b].verdict = "none"
        /\ ~ledger[b].submitted

TaskIsPending == \A b \in Builds : ~HasNoTask(b) => b \in Pending \ Unreadable

TasksInOrder ==
    \A b \in Builds : ~HasNoTask(b) => Cardinality(PendingAhead(b)) < MaxConcurrent

SubmissionIsKnown ==
    \A b \in Builds :
        /\ ledger[b].execution # NoExecution \/ pc[b] \in Following \cup {"posting"} =>
               ledger[b].submitted
        /\ pc[b] \in Following \cup {"submitting", "posting"} => b \notin Scoped
        /\ pc[b] = "scoped" => b \in Scoped

VerdictIsReady ==
    \A b \in Builds :
        /\ pc[b] \in {"finishing", "deciding"} => record[b].state \in Terminal
        /\ pc[b] = "deciding" /\ record[b].state = "complete" =>
               ledger[b].submitted \/ b \in Scoped

QueueInv ==
    /\ TypeOK
    /\ AbsentIsBlank
    /\ TaskIsPending
    /\ TasksInOrder
    /\ SubmissionIsKnown
    /\ VerdictIsReady

(***************************************************************************)
(* A verdict leaves nothing running that the scheduler knows of: the       *)
(* execution in the ledger has ended or was told to stop.  The exceptions  *)
(* are the two the code has: a failed task, and a stop that meets a build  *)
(* in the queue (after a crash, or after a task vanished).                 *)
(***************************************************************************)
VerdictLeavesNothingRunning ==
    \A b \in Builds :
        LET e == ledger[b].execution
        IN  ledger[b].verdict # "none" /\ e # NoExecution /\ Live(e) =>
                \/ e \in cancels
                \/ faults > 0
                \/ crashes > 0 /\ ledger[b].verdict = "stopped"

(***************************************************************************)
(* Without crashes and faults there is no stray execution: whatever        *)
(* AgentField works on is awaited by a task, is the execution of an        *)
(* unfinished build, or was told to stop.                                  *)
(***************************************************************************)
NoStrayWithoutFailure ==
    crashes = 0 /\ faults = 0 =>
        \A e \in Executions : Live(e) =>
            \/ e \in cancels
            \/ LET b == execution[e].build
               IN  \/ pc[b] = "posting" /\ sent[b] = e
                   \/ b \in Pending /\ ledger[b].execution = e

(***************************************************************************)
(* A build is complete only because the execution in its ledger succeeded, *)
(* however often it was resubmitted and the scheduler restarted.           *)
(***************************************************************************)
CompleteIsEarned ==
    \A b \in Builds \ Scoped :
        ledger[b].verdict = "complete" =>
            /\ ledger[b].execution # NoExecution
            /\ execution[ledger[b].execution] = [build |-> b, status |-> "succeeded"]

(***************************************************************************)
(* A stopped build was stopped by its owner, or its execution was: by its  *)
(* own cancel request or by the control plane.                             *)
(***************************************************************************)
StoppedHasACause ==
    \A b \in Builds :
        ledger[b].verdict = "stopped" =>
            \/ ledger[b].stopAsked
            \/ /\ ledger[b].execution # NoExecution
               /\ execution[ledger[b].execution].status
                    \in {"cancelled", "cancelled_by_control_plane"}

(***************************************************************************)
(* Why these hold: what is written of a build, in memory or in the ledger, *)
(* stays true of what AgentField does.  Every step keeps these parts, by   *)
(* their own strength and that of QueueInv (_run_request, run_until_done,  *)
(* load_build).                                                            *)
(***************************************************************************)
Ended == {"succeeded", "failed", "cancelled", "cancelled_by_control_plane"}
Stops == {"cancelled", "cancelled_by_control_plane"}

(* What the scheduler knows of has ended, or was told to stop. *)
NothingRuns(b) ==
    LET e == ledger[b].execution
    IN  e # NoExecution /\ Live(e) => e \in cancels

(* A word for the outcome of b has its reason in AgentField or the owner. *)
Justified(b, word) ==
    LET e == ledger[b].execution
    IN  /\ word = "complete" /\ b \notin Scoped =>
               e # NoExecution /\ execution[e].status = "succeeded"
        /\ word = "stopped" =>
               \/ ledger[b].stopAsked
               \/ e # NoExecution /\ execution[e].status \in Stops

(* The ledger names an execution AgentField has taken up for this build;   *)
(* before that it knows of no state but "active".                          *)
TrackingIsSound(b) ==
    LET e == ledger[b].execution
    IN  /\ e # NoExecution =>
               /\ execution[e].build = b
               /\ Live(e) \/ execution[e].status \in Ended
               /\ b \notin Scoped \cup Unreadable
        /\ e = NoExecution => ledger[b].state = "active"
        /\ ledger[b].control = "stopped" => ledger[b].stopAsked

(* A submission is under way only where the ledger names no execution. *)
SubmittingIsSound(b) ==
    /\ pc[b] \in {"submitting", "posting"} => ledger[b].execution = NoExecution
    /\ pc[b] = "posting" =>
          /\ sent[b] # NoExecution
          /\ execution[sent[b]].build = b
          /\ execution[sent[b]].status # "unused"

(* A task follows the execution of the ledger, and has sent the cancel     *)
(* requests it waits for; a lost node is one AgentField reported.          *)
FollowingIsSound(b) ==
    LET e == ledger[b].execution
    IN  /\ pc[b] \in Following => e # NoExecution /\ record[b].execution = e
        /\ pc[b] \in {"stopping", "expiring"} => e \in cancels
        /\ pc[b] = "stopping" => ledger[b].stopAsked
        /\ record[b].nodeLost =>
              /\ pc[b] \in {"finishing", "deciding"}
              /\ e # NoExecution /\ execution[e].status = "cancelled_by_control_plane"

(* An outcome, still in memory or in the ledger already, is justified and  *)
(* leaves nothing running.  Without a failure a pending build that has an  *)
(* execution has a task too.                                               *)
OutcomeIsSound(b) ==
    /\ pc[b] \in {"finishing", "deciding"} =>
          Justified(b, record[b].state) /\ NothingRuns(b)
    /\ Justified(b, ledger[b].state)
    /\ ledger[b].state \in Terminal => NothingRuns(b)
    /\ Justified(b, ledger[b].verdict)
    /\ ledger[b].verdict # "none" =>
          \/ NothingRuns(b)
          \/ faults > 0
          \/ crashes > 0 /\ ledger[b].verdict = "stopped"
    /\ crashes = 0 /\ faults = 0 /\ HasNoTask(b) /\ ledger[b].verdict = "none" =>
          ledger[b].execution = NoExecution

(* What AgentField was given belongs to a build, and is not forgotten      *)
(* while nothing fails.                                                    *)
NotForgotten(e) ==
    LET b == execution[e].build
    IN  \/ e \in cancels
        \/ pc[b] = "posting" /\ sent[b] = e
        \/ b \in Pending /\ ledger[b].execution = e

GivenIsSound(e) ==
    execution[e].status # "unused" =>
        /\ execution[e].build \in Builds
        /\ crashes = 0 /\ faults = 0 /\ execution[e].status \in {"requested", "live"} =>
               NotForgotten(e)

BuildHistory(b) ==
    /\ TrackingIsSound(b)
    /\ SubmittingIsSound(b)
    /\ FollowingIsSound(b)
    /\ OutcomeIsSound(b)

(***************************************************************************)
(* Every build's queue place and history, and every execution, are sound:  *)
(* what the other invariants rest on, kept by each step of the scheduler.  *)
(***************************************************************************)
HistoryInv ==
    /\ QueueInv
    /\ \A b \in Builds : BuildHistory(b)
    /\ \A e \in Executions : GivenIsSound(e)

(***************************************************************************)
(* A submission leaves only for a build with no verdict and no execution   *)
(* in the ledger: a restart adopts the execution it finds.                 *)
(***************************************************************************)
SubmitsOnlyUntracked ==
    [][\A e \in Executions :
          execution[e].status = "unused" /\ execution'[e].status # "unused" =>
              LET b == execution'[e].build
              IN  /\ ledger[b].verdict = "none"
                  /\ ledger[b].execution = NoExecution]_vars

(***************************************************************************)
(* The ledger gives an execution up only to retry after its agent node was *)
(* lost, and never for a build the owner has stopped.                      *)
(***************************************************************************)
GivesUpOnlyLostNodes ==
    [][\A b \in Builds :
          ledger[b].execution # NoExecution
              /\ ledger'[b].execution # ledger[b].execution =>
              /\ execution[ledger[b].execution].status = "cancelled_by_control_plane"
              /\ ledger'[b].execution = NoExecution
              /\ ledger[b].control # "stopped"]_vars

(***************************************************************************)
(* A recorded verdict is the last word: no later event changes what the    *)
(* ledger replays to, except the owner's own control signals.              *)
(***************************************************************************)
VerdictIsFinal ==
    [][\A b \in Builds :
          ledger[b].verdict # "none" =>
              /\ ledger'[b].verdict = ledger[b].verdict
              /\ ledger'[b].execution = ledger[b].execution
              /\ ledger'[b].state = ledger[b].state]_vars

(***************************************************************************)
(* The queue implements BuildQueue: order, limit and one verdict per       *)
(* build.  A build counts as running from its build_submitted event.       *)
(***************************************************************************)
Phase ==
    [b \in Builds |->
        IF b > arrived THEN "absent"
        ELSE IF ledger[b].verdict # "none" THEN ledger[b].verdict
        ELSE IF ledger[b].submitted THEN "running"
        ELSE "waiting"]

Queue == INSTANCE BuildQueue WITH phase <- Phase

ImplementsQueue == Queue!QueueSpec

(***************************************************************************)
(* The queue drains, whatever AgentField answers or fails to answer: if    *)
(* every build it submits has a wall-clock limit and from some time on     *)
(* nobody keeps a build paused, every build that arrived gets its verdict. *)
(* Without a limit an execution whose polls only bring errors, or new      *)
(* progress each time, keeps its slot (run_until_done).                    *)
(***************************************************************************)
NobodyPaused == \A b \in 1 .. arrived : ledger[b].control # "paused"

QueueDrains ==
    Builds \ Scoped \subseteq Timed /\ <>[]NobodyPaused =>
        \A b \in Builds : b <= arrived ~> ledger[b].verdict # "none"

(***************************************************************************)
(* A stop needs no slot and no cooperation from AgentField: a build ends   *)
(* unless its owner takes the stop back.                                   *)
(***************************************************************************)
StopIsHonoured ==
    \A b \in Builds :
        ledger[b].control = "stopped" ~>
            ledger[b].verdict # "none" \/ ledger[b].control # "stopped"

-------------------------------------------------------------------------------
(* What the documentation says of the scheduler, and the code does not do. *)

(***************************************************************************)
(* docs/OPERATIONS.md:105-108: a restarted scheduler "resumes polling the  *)
(* same AgentField execution; it does not submit a duplicate".             *)
(***************************************************************************)
NoDuplicateExecution ==
    \A b \in Builds : Cardinality(LiveExecutions(b)) <= 1

(***************************************************************************)
(* dashboard-ui/src/components/build-detail.tsx:140, shown for a stopped   *)
(* build: "The scheduler cancelled the remaining execution tree".          *)
(***************************************************************************)
StoppedIsCancelled ==
    \A b \in Builds :
        ledger[b].verdict = "stopped" =>
            \A e \in LiveExecutions(b) : e \in cancels
===============================================================================
