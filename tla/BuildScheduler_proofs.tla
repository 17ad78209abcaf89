------------------------- MODULE BuildScheduler_proofs -------------------------
(***************************************************************************)
(* Proofs about BuildScheduler.tla, for any number of builds, executions,  *)
(* crashes, faults and control signals.                                    *)
(***************************************************************************)
EXTENDS BuildScheduler, FiniteSetTheorems, TLAPS

-------------------------------------------------------------------------------
(* Types *)

(* What the steps change of a ledger entry leaves an entry. *)
LEMMA EntryType ==
    ASSUME NEW entry \in LedgerEntry
    PROVE  /\ [entry EXCEPT !.submitted = TRUE] \in LedgerEntry
           /\ \A e \in Executions \cup {NoExecution} :
                  [entry EXCEPT !.execution = e] \in LedgerEntry
           /\ \A state \in BuildState : [entry EXCEPT !.state = state] \in LedgerEntry
           /\ \A signal \in {"running", "paused", "stopped"}, asked \in BOOLEAN :
                  [entry EXCEPT !.control = signal, !.stopAsked = asked] \in LedgerEntry
           /\ entry.state \in BuildState
           /\ entry.stopAsked \in BOOLEAN
           /\ entry.execution \in Executions \cup {NoExecution}
BY DEF LedgerEntry

(* What the steps change of a record in memory leaves a record. *)
LEMMA RecordType ==
    ASSUME NEW rec \in BuildRecord, NEW state \in BuildState
    PROVE  /\ [rec EXCEPT !.state = state] \in BuildRecord
           /\ \A lost \in BOOLEAN :
                  [rec EXCEPT !.state = state, !.nodeLost = lost] \in BuildRecord
           /\ rec.state \in BuildState
           /\ rec.execution \in Executions \cup {NoExecution}
BY DEF BuildRecord

(* So do the records that are made afresh. *)
LEMMA FreshRecordType ==
    /\ NewRecord \in BuildRecord
    /\ [NewRecord EXCEPT !.state = "failed"] \in BuildRecord
    /\ \A e \in Executions \cup {NoExecution} :
          [NewRecord EXCEPT !.execution = e] \in BuildRecord
    /\ \A entry \in LedgerEntry : Replayed(entry) \in BuildRecord
BY DEF NewRecord, Replayed, BuildRecord, BuildState, Terminal, LedgerEntry

(* The states of a build, by name. *)
LEMMA StateNames ==
    /\ {"active", "paused", "complete", "failed", "stopped", "blocked"} = BuildState
    /\ Terminal \subseteq BuildState
    /\ \A status : StateOf(status) \in BuildState
BY DEF BuildState, Terminal, StateOf

(* An entry that gets its verdict stays an entry. *)
LEMMA WithVerdictType ==
    ASSUME NEW entry \in LedgerEntry, NEW v \in Terminal
    PROVE  WithVerdict(entry, v) \in LedgerEntry
BY DEF WithVerdict, LedgerEntry

(* Dismissing queued builds leaves a ledger. *)
LEMMA DismissedType ==
    ASSUME TypeOK, NEW swept
    PROVE  Dismissed(swept) \in [Builds -> LedgerEntry]
<1>1. ASSUME NEW b \in Builds
      PROVE  /\ WithVerdict(ledger[b], "failed") \in LedgerEntry
             /\ WithVerdict(ledger[b], "stopped") \in LedgerEntry
             /\ ledger[b] \in LedgerEntry
  BY WithVerdictType DEF TypeOK, Terminal
<1>2. QED
  BY <1>1 DEF Dismissed

(* Type correctness is kept by what happens outside the scheduler. *)
LEMMA EnvironmentType ==
    ASSUME TypeOK, Environment
    PROVE  TypeOK'
<1> USE DEF TypeOK, durable, tasks, agentField, bounds
<1>1. CASE Enqueue
  BY <1>1, SchedulerConstants DEF Enqueue
<1>2. ASSUME NEW b \in Builds, NEW signal \in {"running", "paused", "stopped"},
             Control(b, signal)
      PROVE  TypeOK'
  <2>1. ledger' = [ledger EXCEPT ![b] = [ledger[b] EXCEPT
                     !.control = signal,
                     !.stopAsked = ledger[b].stopAsked \/ signal = "stopped"]]
    BY <1>2 DEF Control
  <2>2. (ledger[b].stopAsked \/ signal = "stopped") \in BOOLEAN
    OBVIOUS
  <2>3. [ledger[b] EXCEPT
           !.control = signal,
           !.stopAsked = ledger[b].stopAsked \/ signal = "stopped"] \in LedgerEntry
    BY <2>2, EntryType
  <2>4. ledger' \in [Builds -> LedgerEntry]
    BY <2>1, <2>3
  <2>5. QED
    BY <1>2, <2>4, SchedulerConstants DEF Control
<1>3. ASSUME NEW e \in Executions, Accept(e)
      PROVE  TypeOK'
  BY <1>3 DEF Accept, ExecutionStatus
<1>4. ASSUME NEW e \in Executions, NEW outcome \in {"succeeded", "failed"},
             Conclude(e, outcome)
      PROVE  TypeOK'
  BY <1>4 DEF Conclude, ExecutionStatus
<1>5. ASSUME NEW e \in Executions, LoseNode(e)
      PROVE  TypeOK'
  BY <1>5, SchedulerConstants DEF LoseNode, ExecutionStatus
<1>6. ASSUME NEW e \in Executions, CancelTakesEffect(e)
      PROVE  TypeOK'
  BY <1>6 DEF CancelTakesEffect, ExecutionStatus
<1>7. QED
  BY <1>1, <1>2, <1>3, <1>4, <1>5, <1>6 DEF Environment

(* The same for the worker loop and the life of the process. *)
LEMMA WorkerType ==
    ASSUME TypeOK, Worker
    PROVE  TypeOK'
<1> USE DEF TypeOK, durable, tasks, agentField, bounds
<1>1. CASE RunOnce
  BY <1>1, DismissedType DEF RunOnce, TaskPc
<1>2. CASE RunOnceRaises
  BY <1>2, DismissedType DEF RunOnceRaises
<1>3. CASE Health
  BY <1>3, DismissedType DEF Health
<1>4. CASE Crash
  BY <1>4, SchedulerConstants DEF Crash, TaskPc, NewRecord, BuildRecord, BuildState
<1>5. CASE Restart
  BY <1>5 DEF Restart
<1>6. QED
  BY <1>1, <1>2, <1>3, <1>4, <1>5 DEF Worker

(* The same for a task that takes a build up and submits it. *)
LEMMA SubmissionType ==
    ASSUME TypeOK, NEW b \in Builds, Submission(b)
    PROVE  TypeOK'
<1> USE DEF TypeOK, durable, tasks, agentField, bounds, At, Goto, TaskPc
<1>1. CASE StartScoped(b)
  <2>1. [record[b] EXCEPT !.state = "stopped"] \in BuildRecord
    BY RecordType, StateNames
  <2>2. record' \in [Builds -> BuildRecord] /\ pc' \in [Builds -> TaskPc]
    BY <1>1, <2>1 DEF StartScoped
  <2>3. QED
    BY <1>1, <2>2 DEF StartScoped
<1>2. CASE Start(b)
  BY <1>2, FreshRecordType DEF Start
<1>3. CASE SubmitBlocked(b)
  BY <1>3, RecordType, StateNames DEF SubmitBlocked
<1>4. CASE Submit(b)
  <2>1. ledger' \in [Builds -> LedgerEntry]
    BY <1>4, EntryType DEF Submit
  <2>2. b \in 0 .. MaxBuilds /\ "requested" \in ExecutionStatus
    BY SchedulerConstants DEF Builds, ExecutionStatus
  <2>3. /\ sent' \in [Builds -> Executions \cup {NoExecution}]
        /\ execution' \in [Executions -> [build : 0 .. MaxBuilds, status : ExecutionStatus]]
    BY <1>4, <2>2 DEF Submit
  <2>4. QED
    BY <1>4, <2>1, <2>3 DEF Submit
<1>5. CASE SubmitAccepted(b)
  BY <1>5, EntryType, FreshRecordType DEF SubmitAccepted
<1>6. CASE SubmitRejected(b)
  BY <1>6, FreshRecordType DEF SubmitRejected, SubmitFails, ExecutionStatus
<1>7. CASE SubmitReplyLost(b)
  BY <1>7, FreshRecordType, SchedulerConstants DEF SubmitReplyLost, SubmitFails
<1>8. QED
  BY <1>1, <1>2, <1>3, <1>4, <1>5, <1>6, <1>7 DEF Submission

(* The step both ways out of the loop's control check share. *)
LEMMA GoesOnType ==
    ASSUME TypeOK, NEW b \in Builds, GoesOn(b)
    PROVE  record' \in [Builds -> BuildRecord] /\ ledger' \in [Builds -> LedgerEntry]
<1>1. [record[b] EXCEPT !.state = "active"] \in BuildRecord
  BY RecordType, StateNames DEF TypeOK
<1>2. [ledger[b] EXCEPT !.state = IF record[b].state = "paused" THEN "active" ELSE @]
        \in LedgerEntry
  BY EntryType, StateNames DEF TypeOK
<1>3. QED
  BY <1>1, <1>2 DEF GoesOn, TypeOK

(* A cancel request names an execution. *)
LEMMA CancelType ==
    ASSUME TypeOK, NEW b \in Builds, SendCancel(record[b].execution)
    PROVE  cancels' \subseteq Executions
<1>1. record[b].execution \in Executions \cup {NoExecution}
  BY RecordType, StateNames DEF TypeOK
<1>2. QED
  BY <1>1 DEF SendCancel, TypeOK

(* The same for a task in run_until_done, or in run_scoped. *)
LEMMA RunUntilDoneType ==
    ASSUME TypeOK, NEW b \in Builds, RunUntilDone(b)
    PROVE  TypeOK'
<1> USE DEF TypeOK, durable, tasks, agentField, bounds, At, Goto, TaskPc
<1>1. CASE StopSeen(b)
  BY <1>1, CancelType DEF StopSeen
<1>2. CASE Stopped(b)
  BY <1>2, EntryType, RecordType, StateNames DEF Stopped
<1>3. CASE PauseSeen(b)
  BY <1>3, EntryType, RecordType, StateNames DEF PauseSeen
<1>4. CASE Continue(b)
  BY <1>4, GoesOnType DEF Continue, GoesOn
<1>5. CASE DeadlineExceeded(b)
  BY <1>5, GoesOnType, CancelType DEF DeadlineExceeded, GoesOn
<1>6. CASE PollUnchanged(b)
  BY <1>6 DEF PollUnchanged
<1>7. CASE PollEnded(b)
  <2> DEFINE status == execution[record[b].execution].status
  <2>1. [record[b] EXCEPT
           !.state = StateOf(status),
           !.nodeLost = (status = "cancelled_by_control_plane")] \in BuildRecord
    BY RecordType, StateNames
  <2>2. record' \in [Builds -> BuildRecord]
    BY <1>7, <2>1 DEF PollEnded
  <2>3. QED
    BY <1>7, <2>2 DEF PollEnded
<1>8. CASE NoProgress(b)
  BY <1>8, CancelType DEF NoProgress
<1>9. CASE Expired(b)
  BY <1>9, RecordType, StateNames DEF Expired
<1>10. CASE PostFinalStatus(b)
  BY <1>10, EntryType, RecordType, StateNames DEF PostFinalStatus
<1>11. CASE FinishScoped(b)
  <2>1. ASSUME NEW outcome \in {"complete", "blocked", "failed"}
        PROVE  [record[b] EXCEPT !.state = IF ledger[b].control = "stopped"
                                           THEN "stopped" ELSE outcome] \in BuildRecord
    BY RecordType, StateNames
  <2>2. record' \in [Builds -> BuildRecord]
    BY <1>11, <2>1 DEF FinishScoped
  <2>3. QED
    BY <1>11, <2>2 DEF FinishScoped
<1>12. QED
  BY <1>1, <1>2, <1>3, <1>4, <1>5, <1>6, <1>7, <1>8, <1>9, <1>10, <1>11
     DEF RunUntilDone

(***************************************************************************)
(* Only a terminal state is ever recorded as a verdict: what a task has    *)
(* in its record when it decides.                                          *)
(***************************************************************************)
LEMMA EndingType ==
    ASSUME TypeOK, VerdictIsReady, NEW b \in Builds, Ending(b)
    PROVE  TypeOK'
<1> USE DEF TypeOK, durable, tasks, agentField, bounds, At, Goto, TaskPc, EndTask
<1>1. CASE Retry(b)
  <2>1. [ledger[b] EXCEPT !.execution = NoExecution, !.state = "active"] \in LedgerEntry
    BY EntryType, StateNames
  <2>2. ledger' \in [Builds -> LedgerEntry]
    BY <1>1, <2>1 DEF Retry
  <2>3. QED
    BY <1>1, <2>2, FreshRecordType DEF Retry
<1>2. NewRecord \in BuildRecord
  BY FreshRecordType
<1>3. CASE RecordTerminal(b)
  <2>1. WithVerdict(ledger[b], record[b].state) \in LedgerEntry
    BY <1>3, WithVerdictType DEF RecordTerminal, VerdictIsReady
  <2>2. QED
    BY <1>2, <1>3, <2>1 DEF RecordTerminal
<1>4. CASE TaskFails(b)
  <2>1. WithVerdict(ledger[b], "failed") \in LedgerEntry
    BY WithVerdictType DEF Terminal
  <2>2. QED
    BY <1>2, <1>4, <2>1, SchedulerConstants DEF TaskFails
<1>5. CASE TaskVanishes(b)
  BY <1>2, <1>5, SchedulerConstants DEF TaskVanishes
<1>6. QED
  BY <1>1, <1>3, <1>4, <1>5 DEF Ending

-------------------------------------------------------------------------------
(* The invariant of the queue *)

(***************************************************************************)
(* QueueInv, build by build: everything it says of b but the order.        *)
(***************************************************************************)
BuildInv(b) ==
    /\ b > arrived =>
        pc[b] = "none" /\ ledger[b].verdict = "none" /\ ~ledger[b].submitted
    /\ ~HasNoTask(b) => b \in Pending \ Unreadable
    /\ ledger[b].execution # NoExecution \/ pc[b] \in Following \cup {"posting"} =>
        ledger[b].submitted
    /\ pc[b] \in Following \cup {"submitting", "posting"} => b \notin Scoped
    /\ pc[b] = "scoped" => b \in Scoped
    /\ pc[b] \in {"finishing", "deciding"} => record[b].state \in Terminal
    /\ pc[b] = "deciding" /\ record[b].state = "complete" =>
        ledger[b].submitted \/ b \in Scoped

LEMMA QueueInvByBuild ==
    QueueInv <=> TypeOK /\ (\A b \in Builds : BuildInv(b)) /\ TasksInOrder
BY DEF QueueInv, BuildInv, AbsentIsBlank, TaskIsPending, SubmissionIsKnown, VerdictIsReady

LEMMA QueueInvByBuildNext ==
    ASSUME TypeOK', TasksInOrder', \A b \in Builds : BuildInv(b)'
    PROVE  QueueInv'
BY DEF QueueInv, BuildInv, AbsentIsBlank, TaskIsPending, SubmissionIsKnown, VerdictIsReady

(* The steps of the task of b. *)
TaskAction(b) == Submission(b) \/ RunUntilDone(b) \/ Ending(b)

(* A step of b's task needs a task, and touches nothing of another build. *)
TaskFrame(b) ==
    /\ arrived' = arrived
    /\ ~HasNoTask(b)
    /\ \A c \in Builds : c # b =>
        pc'[c] = pc[c] /\ record'[c] = record[c] /\ ledger'[c] = ledger[c]

(***************************************************************************)
(* Setting a verdict changes nothing else of an entry, and only the first  *)
(* one counts.                                                             *)
(***************************************************************************)
LEMMA WithVerdictFields ==
    ASSUME NEW entry \in LedgerEntry, NEW v
    PROVE  /\ WithVerdict(entry, v).verdict =
                (IF entry.verdict = "none" THEN v ELSE entry.verdict)
           /\ WithVerdict(entry, v).submitted = entry.submitted
           /\ WithVerdict(entry, v).execution = entry.execution
           /\ WithVerdict(entry, v).state = entry.state
BY DEF WithVerdict, LedgerEntry

LEMMA TaskStaysInFrame ==
    ASSUME TypeOK, NEW b \in Builds, TaskAction(b)
    PROVE  TaskFrame(b)
<1> USE DEF TypeOK, TaskFrame, HasNoTask, At, Goto, EndTask, durable, tasks
<1>1. CASE Submission(b)
  BY <1>1 DEF Submission, StartScoped, Start, SubmitBlocked, Submit, SubmitAccepted,
              SubmitRejected, SubmitReplyLost, SubmitFails
<1>2. CASE RunUntilDone(b)
  BY <1>2 DEF RunUntilDone, StopSeen, Stopped, PauseSeen, Continue, DeadlineExceeded,
              GoesOn, PollUnchanged, PollEnded, NoProgress, Expired, PostFinalStatus,
              FinishScoped
<1>3. CASE Ending(b)
  BY <1>3 DEF Ending, Retry, RecordTerminal, TaskFails, TaskVanishes
<1>4. QED
  BY <1>1, <1>2, <1>3 DEF TaskAction

(***************************************************************************)
(* What BuildInv says of b after a step that left b alone.                 *)
(***************************************************************************)
LEMMA UntouchedKeepsInv ==
    ASSUME NEW c \in Builds, BuildInv(c), TypeOK,
           arrived' \in Nat, arrived' >= arrived,
           pc'[c] = pc[c], record'[c] = record[c], ledger'[c] = ledger[c]
    PROVE  BuildInv(c)'
BY SchedulerConstants DEF BuildInv, HasNoTask, Pending, TypeOK, Builds

(* A task that takes its build up, or submits it, keeps what BuildInv says. *)
LEMMA SubmissionKeepsInv ==
    ASSUME TypeOK, NEW b \in Builds, BuildInv(b), Submission(b)
    PROVE  BuildInv(b)'
<1> USE DEF TypeOK, BuildInv, HasNoTask, Pending, Following, At, Goto, durable, tasks
<1>1. CASE StartScoped(b)
  <2>1. /\ pc'[b] \in {"scoped", "deciding"}
        /\ pc'[b] = "deciding" => record'[b].state = "stopped"
        /\ ledger' = ledger /\ arrived' = arrived
        /\ pc[b] = "created" /\ b \in Scoped
    BY <1>1 DEF StartScoped, BuildRecord
  <2>2. QED
    BY <2>1 DEF Terminal
<1>2. CASE Start(b)
  <2>1. /\ record'[b].state = ledger[b].state
        /\ ledger' = ledger /\ arrived' = arrived
        /\ pc[b] = "created" /\ b \notin Scoped
    BY <1>2 DEF Start, Replayed
  <2>2. \/ pc'[b] = "submitting"
        \/ /\ ledger[b].execution # NoExecution
           /\ \/ pc'[b] = "looping"
              \/ pc'[b] = "deciding" /\ ledger[b].state \in Terminal
    <3>1. CASE ledger[b].execution = NoExecution
      BY <1>2, <3>1 DEF Start
    <3>2. CASE ledger[b].execution # NoExecution /\ ledger[b].state \in Terminal
      BY <1>2, <3>2 DEF Start
    <3>3. CASE ledger[b].execution # NoExecution /\ ledger[b].state \notin Terminal
      BY <1>2, <3>3 DEF Start
    <3>4. QED
      BY <3>1, <3>2, <3>3
  <2>3. QED
    BY <2>1, <2>2
<1>3. CASE SubmitBlocked(b)
  BY <1>3 DEF SubmitBlocked, Terminal, BuildRecord
<1>4. CASE Submit(b)
  <2>1. /\ ledger'[b].submitted
        /\ ledger'[b].verdict = ledger[b].verdict
    BY <1>4 DEF Submit, LedgerEntry
  <2>2. pc[b] = "submitting" /\ pc'[b] = "posting" /\ arrived' = arrived
    BY <1>4 DEF Submit
  <2>3. QED
    BY <2>1, <2>2
<1>5. CASE SubmitAccepted(b)
  BY <1>5 DEF SubmitAccepted
<1>6. CASE SubmitRejected(b)
  BY <1>6 DEF SubmitRejected, SubmitFails, NewRecord, Terminal
<1>7. CASE SubmitReplyLost(b)
  BY <1>7 DEF SubmitReplyLost, SubmitFails, NewRecord, Terminal
<1>8. QED
  BY <1>1, <1>2, <1>3, <1>4, <1>5, <1>6, <1>7 DEF Submission

(* So does a task in run_until_done or run_scoped. *)
LEMMA RunUntilDoneKeepsInv ==
    ASSUME TypeOK, NEW b \in Builds, BuildInv(b), RunUntilDone(b)
    PROVE  BuildInv(b)'
<1> USE DEF TypeOK, BuildInv, HasNoTask, Pending, Following, At, Goto, durable, tasks
<1>1. CASE StopSeen(b)
  BY <1>1 DEF StopSeen
<1>2. CASE Stopped(b)
  BY <1>2 DEF Stopped, Terminal
<1>3. CASE PauseSeen(b)
  BY <1>3 DEF PauseSeen
<1>4. CASE Continue(b)
  BY <1>4 DEF Continue, GoesOn
<1>5. CASE DeadlineExceeded(b)
  BY <1>5 DEF DeadlineExceeded, GoesOn
<1>6. CASE PollUnchanged(b)
  BY <1>6 DEF PollUnchanged
<1>7. CASE PollEnded(b)
  BY <1>7 DEF PollEnded, StateOf, Terminal
<1>8. CASE NoProgress(b)
  BY <1>8 DEF NoProgress
<1>9. CASE Expired(b)
  BY <1>9 DEF Expired, Terminal
<1>10. CASE PostFinalStatus(b)
  BY <1>10 DEF PostFinalStatus
<1>11. CASE FinishScoped(b)
  <2>1. /\ record'[b].state \in {"stopped", "complete", "blocked", "failed"}
        /\ ledger' = ledger /\ arrived' = arrived
        /\ pc[b] = "scoped" /\ pc'[b] = "deciding"
    BY <1>11 DEF FinishScoped, BuildRecord
  <2>2. QED
    BY <2>1 DEF Terminal
<1>12. QED
  BY <1>1, <1>2, <1>3, <1>4, <1>5, <1>6, <1>7, <1>8, <1>9, <1>10, <1>11
     DEF RunUntilDone

(* So does the end of a task, whichever way it ends. *)
LEMMA EndingKeepsInv ==
    ASSUME TypeOK, NEW b \in Builds, BuildInv(b), Ending(b)
    PROVE  BuildInv(b)'
<1> USE DEF TypeOK, BuildInv, HasNoTask, Pending, Following, At, Goto, durable, tasks
<1>1. CASE Retry(b)
  <2>0. pc[b] = "deciding" /\ b \notin Scoped
    BY <1>1 DEF Retry, RetryIsDue
  <2>1. /\ ledger'[b].execution = NoExecution
        /\ ledger'[b].verdict = ledger[b].verdict
        /\ ledger'[b].submitted = ledger[b].submitted
    BY <1>1 DEF Retry, LedgerEntry
  <2>2. pc'[b] = "submitting" /\ arrived' = arrived
    BY <1>1 DEF Retry
  <2>3. QED
    BY <2>0, <2>1, <2>2
<1>2. CASE RecordTerminal(b)
  BY <1>2, WithVerdictFields DEF RecordTerminal, EndTask
<1>3. CASE TaskFails(b)
  BY <1>3, WithVerdictFields DEF TaskFails, EndTask
<1>4. CASE TaskVanishes(b)
  BY <1>4 DEF TaskVanishes, EndTask
<1>5. QED
  BY <1>1, <1>2, <1>3, <1>4 DEF Ending

-------------------------------------------------------------------------------
(* Order *)

(* The sets the order is counted with are finite. *)
LEMMA BuildSets ==
    ASSUME TypeOK
    PROVE  /\ \A S \in SUBSET Builds : IsFiniteSet(S) /\ Cardinality(S) \in Nat
           /\ Pending \subseteq Builds
<1>1. IsFiniteSet(Builds)
  BY SchedulerConstants, FS_Interval DEF Builds
<1>2. ASSUME NEW S \in SUBSET Builds
      PROVE  IsFiniteSet(S) /\ Cardinality(S) \in Nat
  BY <1>1, FS_Subset, FS_CardinalityType
<1>3. Pending \subseteq Builds
  BY SchedulerConstants DEF Pending, Builds, TypeOK
<1>4. QED
  BY <1>2, <1>3

(***************************************************************************)
(* A step that creates no task and adds no pending build ahead of one      *)
(* keeps the order.                                                        *)
(***************************************************************************)
LEMMA OrderIsKept ==
    ASSUME TypeOK, TypeOK', TasksInOrder,
           ASSUME NEW c \in Builds, ~HasNoTask(c)'
           PROVE  ~HasNoTask(c) /\ PendingAhead(c)' \subseteq PendingAhead(c)
    PROVE  TasksInOrder'
<1> SUFFICES ASSUME NEW c \in Builds, ~HasNoTask(c)'
             PROVE  Cardinality(PendingAhead(c)') < MaxConcurrent
  BY DEF TasksInOrder
<1>1. /\ Cardinality(PendingAhead(c)) < MaxConcurrent
      /\ PendingAhead(c)' \in SUBSET PendingAhead(c)
  BY DEF TasksInOrder
<1>2. PendingAhead(c) \in SUBSET Builds
  BY BuildSets DEF PendingAhead
<1>3. IsFiniteSet(PendingAhead(c)) /\ Cardinality(PendingAhead(c)) \in Nat
  BY <1>2, BuildSets
<1>4. /\ IsFiniteSet(PendingAhead(c)')
      /\ Cardinality(PendingAhead(c)') <= Cardinality(PendingAhead(c))
  BY <1>1, <1>3, FS_Subset
<1>5. Cardinality(PendingAhead(c)') \in Nat
  BY <1>4, FS_CardinalityType
<1>6. QED
  BY <1>1, <1>3, <1>4, <1>5, SchedulerConstants

(* What is dismissed is pending no more; the rest is as pending as before. *)
LEMMA DismissedPending ==
    ASSUME TypeOK, NEW swept \in SUBSET ToDismiss,
           ledger' = Dismissed(swept), arrived' = arrived
    PROVE  Pending' = Pending \ swept
<1>1. ASSUME NEW b \in Builds
      PROVE  Dismissed(swept)[b].verdict = "none" <=>
                   ledger[b].verdict = "none" /\ b \notin swept
  <2>1. CASE b \in swept \cap UnreadablePending
    BY <2>1, WithVerdictFields DEF Dismissed, TypeOK
  <2>2. CASE b \in swept \cap StoppedInQueue
    BY <2>2, WithVerdictFields DEF Dismissed, TypeOK, UnreadablePending, StoppedInQueue
  <2>3. CASE b \notin swept
    BY <2>3 DEF Dismissed
  <2>4. QED
    BY <2>1, <2>2, <2>3 DEF ToDismiss
<1>2. 1 .. arrived \subseteq Builds
  BY SchedulerConstants DEF TypeOK, Builds
<1>3. QED
  BY <1>1, <1>2 DEF Pending

(* And of the rest of an entry nothing changes. *)
LEMMA DismissedFields ==
    ASSUME TypeOK, NEW swept, ledger' = Dismissed(swept), NEW b \in Builds
    PROVE  /\ ledger'[b].submitted = ledger[b].submitted
           /\ ledger'[b].execution = ledger[b].execution
           /\ ledger'[b].state = ledger[b].state
           /\ ledger[b].verdict # "none" => ledger'[b].verdict = ledger[b].verdict
           /\ b \notin Pending => ledger'[b] = ledger[b]
<1>1. CASE b \in swept \cap UnreadablePending
  BY <1>1, WithVerdictFields DEF Dismissed, TypeOK, UnreadablePending
<1>2. CASE b \in swept \cap StoppedInQueue
  BY <1>2, WithVerdictFields DEF Dismissed, TypeOK, UnreadablePending, StoppedInQueue
<1>3. CASE b \notin swept \cap UnreadablePending /\ b \notin swept \cap StoppedInQueue
  BY <1>3 DEF Dismissed
<1>4. QED
  BY <1>1, <1>2, <1>3

(***************************************************************************)
(* run_once keeps the order: whoever is ahead of a build it dispatches     *)
(* either waits ahead of it or has a task, and together they are fewer     *)
(* than MaxConcurrent.                                                     *)
(***************************************************************************)
LEMMA DispatchInOrder ==
    ASSUME TypeOK, RunOnce, NEW b \in Dispatched
    PROVE  Cardinality(PendingAhead(b)') < MaxConcurrent
<1> DEFINE Tasked == {c \in Builds : ~HasNoTask(c)}
           Earlier == {c \in Waiting : c < b}
<1>1. /\ Tasked \in SUBSET Builds
      /\ Earlier \in SUBSET Builds
  BY BuildSets DEF Waiting
<1>2. /\ IsFiniteSet(Tasked) /\ Cardinality(Tasked) \in Nat
      /\ IsFiniteSet(Earlier) /\ Cardinality(Earlier) \in Nat
  BY <1>1, BuildSets
<1>3. Cardinality(Earlier) < MaxConcurrent - Cardinality(Tasked)
  BY DEF Dispatched, FreeSlots
<1>4. /\ IsFiniteSet(Earlier \cup Tasked)
      /\ Cardinality(Earlier \cup Tasked)
            = Cardinality(Earlier) + Cardinality(Tasked) - Cardinality(Earlier \cap Tasked)
  BY <1>2, FS_Union
<1>5. Earlier \cap Tasked \in SUBSET Builds /\ Earlier \cup Tasked \in SUBSET Builds
  BY <1>1
<1>6. Cardinality(Earlier \cap Tasked) \in Nat /\ Cardinality(Earlier \cup Tasked) \in Nat
  BY <1>5, BuildSets
<1>7. PendingAhead(b)' \in SUBSET (Earlier \cup Tasked)
  <2>1. Pending' = Pending \ ToDismiss
    BY DismissedPending DEF RunOnce
  <2>2. QED
    BY <2>1, BuildSets DEF PendingAhead, Waiting
<1>8. /\ IsFiniteSet(PendingAhead(b)')
      /\ Cardinality(PendingAhead(b)') <= Cardinality(Earlier \cup Tasked)
  BY <1>4, <1>7, FS_Subset
<1>9. Cardinality(PendingAhead(b)') \in Nat
  BY <1>8, FS_CardinalityType
<1>10. QED
  BY <1>2, <1>3, <1>4, <1>6, <1>8, <1>9, SchedulerConstants

-------------------------------------------------------------------------------
(* The invariant is inductive *)

LEMMA QueueInvInit == Init => QueueInv
<1> SUFFICES ASSUME Init PROVE QueueInv
  OBVIOUS
<1>1. TypeOK
  BY SchedulerConstants, FreshRecordType
     DEF Init, TypeOK, LedgerEntry, NewEntry, BuildState, TaskPc, ExecutionStatus
<1>2. \A b \in Builds : BuildInv(b)
  BY DEF Init, BuildInv, NewEntry, HasNoTask, Following
<1>3. TasksInOrder
  BY DEF Init, TasksInOrder, HasNoTask
<1>4. QED
  BY <1>1, <1>2, <1>3, QueueInvByBuild

LEMMA TaskKeepsInv ==
    ASSUME QueueInv, NEW b \in Builds, TaskAction(b)
    PROVE  QueueInv'
<1>1. TypeOK /\ TasksInOrder /\ (\A c \in Builds : BuildInv(c))
  BY QueueInvByBuild
<1>2. TypeOK'
  BY SubmissionType, RunUntilDoneType, EndingType DEF QueueInv, TaskAction
<1>3. TaskFrame(b)
  BY <1>1, TaskStaysInFrame
<1>4. BuildInv(b)'
  BY <1>1, SubmissionKeepsInv, RunUntilDoneKeepsInv, EndingKeepsInv DEF TaskAction
<1>5. ASSUME NEW c \in Builds, c # b
      PROVE  BuildInv(c)'
  BY <1>1, <1>3, <1>5, UntouchedKeepsInv DEF TaskFrame, TypeOK
<1>6. TasksInOrder'
  <2>1. ledger[b].verdict = "none" /\ b <= arrived
    BY <1>1, <1>3 DEF TaskFrame, BuildInv, Pending
  <2>2. Pending' \subseteq Pending
    BY <1>3, <2>1, BuildSets, <1>1, SchedulerConstants DEF TaskFrame, Pending, Builds, TypeOK
  <2>3. ASSUME NEW c \in Builds, ~HasNoTask(c)'
        PROVE  ~HasNoTask(c) /\ PendingAhead(c)' \subseteq PendingAhead(c)
    BY <1>3, <2>2, <2>3 DEF TaskFrame, HasNoTask, PendingAhead
  <2>4. QED
    BY <1>1, <1>2, <2>3, OrderIsKept
<1>7. QED
  BY <1>2, <1>4, <1>5, <1>6, QueueInvByBuildNext

LEMMA EnvironmentKeepsInv ==
    ASSUME QueueInv, Environment
    PROVE  QueueInv'
<1>1. TypeOK /\ TasksInOrder /\ (\A c \in Builds : BuildInv(c))
  BY QueueInvByBuild
<1>2. TypeOK'
  BY <1>1, EnvironmentType
<1>3. CASE Enqueue
  <2>1. \A c \in Builds : BuildInv(c)'
    BY <1>1, <1>3, UntouchedKeepsInv, SchedulerConstants DEF Enqueue, TypeOK, tasks
  <2>2. ASSUME NEW c \in Builds, ~HasNoTask(c)'
        PROVE  ~HasNoTask(c) /\ PendingAhead(c)' \subseteq PendingAhead(c)
    <3>1. ~HasNoTask(c) /\ c <= arrived
      BY <1>1, <1>3, <2>2 DEF Enqueue, HasNoTask, BuildInv, Pending, tasks
    <3>2. QED
      BY <1>1, <1>3, <3>1 DEF Enqueue, PendingAhead, Pending, TypeOK, Builds
  <2>3. TasksInOrder'
    BY <1>1, <1>2, <2>2, OrderIsKept
  <2>4. QED
    BY <1>2, <2>1, <2>3, QueueInvByBuildNext
<1>4. ASSUME NEW b \in Builds, NEW signal \in {"running", "paused", "stopped"},
             Control(b, signal)
      PROVE  QueueInv'
  <2>1. \A c \in Builds :
           /\ ledger'[c].verdict = ledger[c].verdict
           /\ ledger'[c].submitted = ledger[c].submitted
           /\ ledger'[c].execution = ledger[c].execution
    BY <1>1, <1>4 DEF Control, TypeOK, LedgerEntry
  <2>2. pc' = pc /\ record' = record /\ arrived' = arrived
    BY <1>4 DEF Control, tasks
  <2>3. Pending' = Pending
    BY <1>1, <2>1, <2>2, SchedulerConstants DEF Pending, TypeOK, Builds
  <2>4. \A c \in Builds : BuildInv(c)'
    BY <1>1, <2>1, <2>2, <2>3 DEF BuildInv, HasNoTask
  <2>5. ASSUME NEW c \in Builds, ~HasNoTask(c)'
        PROVE  ~HasNoTask(c) /\ PendingAhead(c)' \subseteq PendingAhead(c)
    BY <2>2, <2>3, <2>5 DEF HasNoTask, PendingAhead
  <2>6. TasksInOrder'
    BY <1>1, <1>2, <2>5, OrderIsKept
  <2>7. QED
    BY <1>2, <2>4, <2>6, QueueInvByBuildNext
<1>5. CASE UNCHANGED <<durable, tasks>>
  <2>1. UNCHANGED <<arrived, ledger, pc, record>>
    BY <1>5 DEF durable, tasks
  <2>2. \A c \in Builds : BuildInv(c)'
    BY <1>1, <2>1 DEF BuildInv, HasNoTask, Pending
  <2>3. TasksInOrder'
    BY <1>1, <2>1 DEF TasksInOrder, HasNoTask, PendingAhead, Pending
  <2>4. QED
    BY <1>2, <2>2, <2>3, QueueInvByBuildNext
<1>6. QED
  BY <1>3, <1>4, <1>5
     DEF Environment, Accept, Conclude, LoseNode, CancelTakesEffect

(* Dismissing builds, and creating no task, keeps the invariant. *)
LEMMA DismissedKeepsInv ==
    ASSUME QueueInv, TypeOK', UNCHANGED <<arrived, record, pc>>,
           NEW swept \in SUBSET ToDismiss, ledger' = Dismissed(swept)
    PROVE  QueueInv'
<1>1. TypeOK /\ TasksInOrder /\ (\A c \in Builds : BuildInv(c))
  BY QueueInvByBuild
<1>2. Pending' = Pending \ swept
  BY <1>1, DismissedPending
<1>3. ASSUME NEW c \in Builds
      PROVE  BuildInv(c)'
  <2>1. /\ ledger'[c].submitted = ledger[c].submitted
        /\ ledger'[c].execution = ledger[c].execution
    BY <1>1, DismissedFields
  <2>2. c > arrived => ledger'[c].verdict = "none"
    BY <1>1, DismissedFields DEF Pending, BuildInv, TypeOK, Builds
  <2>3. ~HasNoTask(c) => c \in Pending' \ Unreadable
    BY <1>1, <1>2 DEF BuildInv, ToDismiss, UnreadablePending, StoppedInQueue
  <2>4. QED
    BY <1>1, <2>1, <2>2, <2>3 DEF BuildInv, HasNoTask
<1>4. ASSUME NEW c \in Builds, ~HasNoTask(c)'
      PROVE  ~HasNoTask(c) /\ PendingAhead(c)' \subseteq PendingAhead(c)
  BY <1>2, <1>4 DEF HasNoTask, PendingAhead
<1>5. TasksInOrder'
  BY <1>1, <1>4, OrderIsKept
<1>6. QED
  BY <1>3, <1>5, QueueInvByBuildNext

(* The worker loop, its reaping and dispatching, keeps the invariant. *)
LEMMA WorkerKeepsInv ==
    ASSUME QueueInv, Worker
    PROVE  QueueInv'
<1>1. TypeOK /\ TasksInOrder /\ (\A c \in Builds : BuildInv(c))
  BY QueueInvByBuild
<1>2. TypeOK'
  BY <1>1, WorkerType
<1>3. CASE RunOnce
  <2>1. UNCHANGED <<arrived, record>> /\ ledger' = Dismissed(ToDismiss)
    BY <1>3 DEF RunOnce
  <2>2. Pending' = Pending \ ToDismiss
    BY <1>1, <2>1, DismissedPending
  <2>3. ASSUME NEW c \in Builds
        PROVE  BuildInv(c)'
    <3>1. \/ c \in Dispatched /\ pc'[c] = "created"
          \/ c \notin Dispatched /\ pc'[c] = IF pc[c] = "done" THEN "none" ELSE pc[c]
      BY <1>3 DEF RunOnce
    <3>2. /\ c \in Dispatched => c \in Pending' \ Unreadable
          /\ c \in Pending' => c <= arrived
      BY <1>1, <2>2 DEF Dispatched, Waiting, ToDismiss, UnreadablePending, Pending, TypeOK
    <3>3. ~HasNoTask(c) => c \in Pending' \ Unreadable
      BY <1>1, <2>2 DEF BuildInv, ToDismiss, UnreadablePending, StoppedInQueue
    <3>4. /\ ledger'[c].submitted = ledger[c].submitted
          /\ ledger'[c].execution = ledger[c].execution
      BY <1>1, <2>1, DismissedFields
    <3>5. c > arrived => ledger'[c].verdict = "none"
      BY <1>1, <2>1, DismissedFields DEF Pending, BuildInv, TypeOK, Builds
    <3>6. BuildInv(c)
      BY <1>1
    <3>7. QED
      BY <2>1, <3>1, <3>2, <3>3, <3>4, <3>5, <3>6, <1>1
         DEF BuildInv, HasNoTask, Following, TypeOK, Builds
  <2>4. TasksInOrder'
    <3>1. ASSUME NEW c \in Builds, ~HasNoTask(c)', c \notin Dispatched
          PROVE  Cardinality(PendingAhead(c)') < MaxConcurrent
      <4>1. ~HasNoTask(c)
        BY <1>3, <3>1 DEF RunOnce, HasNoTask
      <4>2. PendingAhead(c) \in SUBSET Builds /\ PendingAhead(c)' \in SUBSET PendingAhead(c)
        BY <1>1, <2>2, BuildSets DEF PendingAhead
      <4>3. /\ IsFiniteSet(PendingAhead(c)) /\ Cardinality(PendingAhead(c)) \in Nat
            /\ Cardinality(PendingAhead(c)) < MaxConcurrent
        BY <1>1, <4>1, <4>2, BuildSets DEF TasksInOrder
      <4>4. /\ Cardinality(PendingAhead(c)') <= Cardinality(PendingAhead(c))
            /\ Cardinality(PendingAhead(c)') \in Nat
        BY <4>2, <4>3, FS_Subset, FS_CardinalityType
      <4>5. QED
        BY <4>3, <4>4, SchedulerConstants
    <3>2. QED
      BY <1>1, <1>3, <3>1, DispatchInOrder DEF TasksInOrder
  <2>5. QED
    BY <1>2, <2>3, <2>4, QueueInvByBuildNext
<1>4. CASE RunOnceRaises
  BY <1>2, <1>4, DismissedKeepsInv DEF RunOnceRaises, tasks
<1>5. CASE Health
  <2>1. UnreadablePending \in SUBSET ToDismiss
    BY DEF ToDismiss
  <2>2. QED
    BY <1>2, <1>5, <2>1, DismissedKeepsInv DEF Health, tasks
<1>6. CASE Crash
  <2>1. UNCHANGED <<arrived, ledger>> /\ pc' = [b \in Builds |-> "none"]
    BY <1>6 DEF Crash, durable
  <2>2. \A c \in Builds : BuildInv(c)'
    BY <1>1, <2>1 DEF BuildInv, HasNoTask, Following
  <2>3. TasksInOrder'
    BY <2>1 DEF TasksInOrder, HasNoTask
  <2>4. QED
    BY <1>2, <2>2, <2>3, QueueInvByBuildNext
<1>7. CASE Restart
  <2>1. UNCHANGED <<arrived, ledger, pc, record>>
    BY <1>7 DEF Restart, durable, tasks
  <2>2. \A c \in Builds : BuildInv(c)'
    BY <1>1, <2>1 DEF BuildInv, HasNoTask, Pending
  <2>3. TasksInOrder'
    BY <1>1, <2>1 DEF TasksInOrder, HasNoTask, PendingAhead, Pending
  <2>4. QED
    BY <1>2, <2>2, <2>3, QueueInvByBuildNext
<1>8. QED
  BY <1>3, <1>4, <1>5, <1>6, <1>7 DEF Worker

(***************************************************************************)
(* Every step keeps the invariant.                                         *)
(***************************************************************************)
LEMMA QueueInvStep ==
    ASSUME QueueInv, [Next]_vars
    PROVE  QueueInv'
<1>1. CASE Environment
  BY <1>1, EnvironmentKeepsInv
<1>2. CASE Worker
  BY <1>2, WorkerKeepsInv
<1>3. ASSUME NEW b \in Builds, Submission(b) \/ RunUntilDone(b) \/ Ending(b)
      PROVE  QueueInv'
  BY <1>3, TaskKeepsInv DEF TaskAction
<1>4. CASE UNCHANGED vars
  <2>1. UNCHANGED <<arrived, ledger, worker, pc, record, sent, execution, cancels,
                    crashes, faults, controls>>
    BY <1>4 DEF vars, durable, tasks, agentField, bounds
  <2>2. TypeOK /\ TasksInOrder /\ (\A c \in Builds : BuildInv(c))
    BY QueueInvByBuild
  <2>3. TypeOK'
    BY <2>1, <2>2 DEF TypeOK
  <2>4. \A c \in Builds : BuildInv(c)'
    BY <2>1, <2>2 DEF BuildInv, HasNoTask, Pending
  <2>5. TasksInOrder'
    BY <2>1, <2>2 DEF TasksInOrder, HasNoTask, PendingAhead, Pending
  <2>6. QED
    BY <2>3, <2>4, <2>5, QueueInvByBuildNext
<1>5. QED
  BY <1>1, <1>2, <1>3, <1>4 DEF Next

-------------------------------------------------------------------------------
(* Theorems *)

(***************************************************************************)
(* In every reachable state, whatever crashed, failed or was stopped: a    *)
(* build with a task is pending and has fewer than MaxConcurrent pending   *)
(* builds ahead of it, only what was submitted is followed, and a task     *)
(* that decides has a verdict to record (run_once and _run_request).       *)
(***************************************************************************)
THEOREM QueueInvariant == Spec => []QueueInv
<1>1. QueueInv /\ [Next]_vars => QueueInv'
  BY QueueInvStep
<1>2. QED
  BY QueueInvInit, <1>1, PTL DEF Spec

(* The variables keep their types: a part of the invariant above. *)
THEOREM TypeCorrect == Spec => []TypeOK
<1>1. QueueInv => TypeOK
  BY DEF QueueInv
<1>2. QED
  BY QueueInvariant, <1>1, PTL

(* To the ledger the worker loop does no more than dismissing builds. *)
LEMMA WorkerLedger ==
    ASSUME Worker
    PROVE  /\ arrived' = arrived
           /\ ledger' = ledger \/ \E swept \in SUBSET ToDismiss : ledger' = Dismissed(swept)
BY DEF Worker, RunOnce, RunOnceRaises, Health, Crash, Restart, durable, ToDismiss

(***************************************************************************)
(* A step leaves a build that has its verdict alone: a task belongs to a   *)
(* pending build, and only pending builds are dismissed.                   *)
(***************************************************************************)
LEMMA VerdictStep ==
    ASSUME QueueInv, [Next]_vars, NEW b \in Builds, ledger[b].verdict # "none"
    PROVE  /\ ledger'[b].verdict = ledger[b].verdict
           /\ ledger'[b].execution = ledger[b].execution
           /\ ledger'[b].state = ledger[b].state
<1>1. TypeOK /\ (\A c \in Builds : BuildInv(c))
  BY QueueInvByBuild
<1>2. CASE Environment
  <2>1. CASE ledger' = ledger
    BY <2>1
  <2>2. ASSUME NEW c \in Builds, NEW signal \in {"running", "paused", "stopped"},
               Control(c, signal)
        PROVE  /\ ledger'[b].verdict = ledger[b].verdict
               /\ ledger'[b].execution = ledger[b].execution
               /\ ledger'[b].state = ledger[b].state
    BY <1>1, <2>2 DEF Control, TypeOK, LedgerEntry
  <2>3. QED
    BY <1>2, <2>1, <2>2
       DEF Environment, Enqueue, Accept, Conclude, LoseNode, CancelTakesEffect, durable
<1>3. CASE Worker
  <2>1. ledger' = ledger \/ \E swept : ledger' = Dismissed(swept)
    BY <1>3, WorkerLedger
  <2>2. QED
    BY <1>1, <2>1, DismissedFields
<1>4. ASSUME NEW c \in Builds, TaskAction(c)
      PROVE  ledger'[b] = ledger[b]
  <2>1. TaskFrame(c)
    BY <1>1, <1>4, TaskStaysInFrame
  <2>2. b # c
    BY <1>1, <2>1 DEF TaskFrame, BuildInv, Pending
  <2>3. QED
    BY <2>1, <2>2 DEF TaskFrame
<1>5. CASE UNCHANGED vars
  BY <1>5 DEF vars, durable
<1>6. QED
  BY <1>2, <1>3, <1>4, <1>5 DEF Next, TaskAction

(***************************************************************************)
(* A verdict is the last word: no event after build_terminal changes what  *)
(* load_build rebuilds of the build (_record_terminal, pending_requests).  *)
(***************************************************************************)
THEOREM VerdictFinal == Spec => VerdictIsFinal
<1>1. QueueInv /\ [Next]_vars =>
        [\A b \in Builds : ledger[b].verdict # "none" =>
            /\ ledger'[b].verdict = ledger[b].verdict
            /\ ledger'[b].execution = ledger[b].execution
            /\ ledger'[b].state = ledger[b].state]_vars
  BY VerdictStep
<1>2. QED
  BY QueueInvariant, <1>1, PTL DEF Spec, VerdictIsFinal

-------------------------------------------------------------------------------
(* The scheduler implements the queue *)

(* The queue counts as the scheduler does. *)
LEMMA SameCardinality == \A S : Queue!Cardinality(S) = Cardinality(S)
BY DEF Queue!Cardinality, Cardinality

(***************************************************************************)
(* The phase of a build depends on three things only.                      *)
(***************************************************************************)
LEMMA PhaseStays ==
    ASSUME arrived' = arrived,
           \A b \in Builds : /\ ledger'[b].verdict = ledger[b].verdict
                             /\ ledger'[b].submitted = ledger[b].submitted
    PROVE  Phase' = Phase
BY DEF Phase

(* The unfinished builds of the queue are the pending builds of the ledger. *)
LEMMA PendingIsUnfinished ==
    ASSUME TypeOK, NEW b \in Builds
    PROVE  /\ Phase[b] \in {"waiting", "running"} <=> b \in Pending
           /\ Queue!Ahead(b) = PendingAhead(b)
<1>1. ASSUME NEW c \in Builds
      PROVE  Phase[c] \in {"waiting", "running"} <=> c \in Pending
  <2>1. ledger[c].verdict \in Terminal \cup {"none"} /\ arrived \in Nat /\ c \in Nat \ {0}
    BY SchedulerConstants DEF TypeOK, LedgerEntry, Builds
  <2>2. Phase[c] = IF c > arrived THEN "absent"
                   ELSE IF ledger[c].verdict # "none" THEN ledger[c].verdict
                   ELSE IF ledger[c].submitted THEN "running"
                   ELSE "waiting"
    BY DEF Phase
  <2>3. QED
    BY <2>1, <2>2 DEF Pending, Terminal
<1>2. Pending \subseteq Builds
  BY BuildSets
<1>3. QED
  BY <1>1, <1>2 DEF Queue!Ahead, Queue!Unfinished, PendingAhead, Builds

(* Builds that get their verdicts, and nothing else, are the queue's EndBuilds. *)
LEMMA VerdictsEndBuilds ==
    ASSUME TypeOK, arrived' = arrived, NEW ending \in SUBSET Pending,
           NEW verdict \in [ending -> Terminal],
           \A b \in ending :
              /\ ledger'[b].verdict = verdict[b]
              /\ verdict[b] = "complete" => ledger[b].submitted \/ b \in Scoped,
           \A b \in Builds \ ending :
              /\ ledger'[b].verdict = ledger[b].verdict
              /\ ledger'[b].submitted = ledger[b].submitted
    PROVE  Queue!QueueNext
<1>1. ending \in SUBSET (1 .. MaxBuilds) /\ ending \subseteq Builds
  BY BuildSets DEF Builds
<1>2. verdict \in [ending -> Queue!Verdicts]
  BY DEF Queue!Verdicts, Terminal
<1>3. ASSUME NEW b \in ending
      PROVE  /\ Phase[b] \in Queue!Unfinished
             /\ verdict[b] = "complete" => Phase[b] = "running" \/ b \in Scoped
             /\ Phase'[b] = verdict[b]
  <2>1. Phase[b] \in {"waiting", "running"}
    BY <1>1, PendingIsUnfinished
  <2>2. ~(b > arrived) /\ ledger[b].verdict = "none"
    BY SchedulerConstants DEF Pending, TypeOK
  <2>3. b \in Builds /\ verdict[b] # "none"
    BY <1>1 DEF Terminal
  <2>4. Phase[b] = IF ledger[b].submitted THEN "running" ELSE "waiting"
    BY <2>2, <2>3 DEF Phase
  <2>5. Phase'[b] = verdict[b]
    BY <2>2, <2>3 DEF Phase
  <2>6. QED
    BY <2>1, <2>4, <2>5 DEF Queue!Unfinished
<1>4. ASSUME NEW b \in Builds \ ending
      PROVE  Phase'[b] = Phase[b]
  BY <1>4 DEF Phase
<1>5. Phase' = [b \in 1 .. MaxBuilds |-> IF b \in ending THEN verdict[b] ELSE Phase[b]]
  BY <1>1, <1>3, <1>4 DEF Phase, Builds
<1>6. Queue!EndBuilds(ending)
  BY <1>2, <1>3, <1>5 DEF Queue!EndBuilds
<1>7. QED
  BY <1>1, <1>6 DEF Queue!QueueNext

(* The worker loop ends the builds it dismisses. *)
LEMMA WorkerImplements ==
    ASSUME QueueInv, Worker
    PROVE  Queue!QueueNext \/ Phase' = Phase
<1>1. TypeOK
  BY DEF QueueInv
<1>2. arrived' = arrived
  BY WorkerLedger
<1>3. CASE ledger' = ledger
  BY <1>2, <1>3, PhaseStays
<1>4. ASSUME NEW swept \in SUBSET ToDismiss, ledger' = Dismissed(swept)
      PROVE  Queue!QueueNext
  <2> DEFINE verdict == [b \in swept |-> IF b \in UnreadablePending THEN "failed"
                                         ELSE "stopped"]
  <2>1. swept \in SUBSET Pending /\ verdict \in [swept -> Terminal]
    BY DEF ToDismiss, UnreadablePending, StoppedInQueue, Terminal
  <2>2. ASSUME NEW b \in swept
        PROVE  ledger'[b].verdict = verdict[b] /\ verdict[b] # "complete"
    <3>1. b \in Builds /\ ledger[b] \in LedgerEntry /\ ledger[b].verdict = "none"
      BY <1>1, <2>1, BuildSets DEF TypeOK, Pending
    <3>2. ledger'[b] = WithVerdict(ledger[b], verdict[b])
      BY <1>4, <3>1, <2>2 DEF Dismissed, ToDismiss, UnreadablePending, StoppedInQueue
    <3>3. QED
      BY <3>1, <3>2, WithVerdictFields
  <2>3. ASSUME NEW b \in Builds \ swept
        PROVE  ledger'[b] = ledger[b]
    BY <1>4, <2>3 DEF Dismissed
  <2> HIDE DEF verdict
  <2>4. QED
    BY <1>1, <1>2, <2>1, <2>2, <2>3, VerdictsEndBuilds
<1>5. QED
  BY <1>3, <1>4, WorkerLedger

(* An arrival arrives; nothing else outside the scheduler moves the queue. *)
LEMMA EnvironmentImplements ==
    ASSUME QueueInv, Environment
    PROVE  Queue!QueueNext \/ Phase' = Phase
<1>1. TypeOK /\ (\A c \in Builds : BuildInv(c))
  BY QueueInvByBuild
<1>2. CASE Enqueue
  <2> DEFINE b == arrived + 1
  <2>1. b \in Builds /\ arrived' = b /\ ledger' = ledger /\ arrived \in Nat
    BY <1>1, <1>2, SchedulerConstants DEF Enqueue, TypeOK, Builds
  <2>2. Phase[b] = "absent" /\ Phase'[b] = "waiting"
    BY <1>1, <2>1 DEF Phase, BuildInv
  <2>3. \A c \in Builds : c # b => Phase'[c] = Phase[c]
    BY <2>1 DEF Phase, Builds
  <2>4. \A c \in Builds : c < b => Phase[c] # "absent"
    <3>1. ASSUME NEW c \in Builds, c < b
          PROVE  Phase[c] # "absent"
      BY <1>1, <2>1, <3>1 DEF Phase, Builds, TypeOK, LedgerEntry, Terminal
    <3>2. QED
      BY <3>1
  <2>5. Phase' = [Phase EXCEPT ![b] = "waiting"]
    BY <2>1, <2>2, <2>3 DEF Phase
  <2>6. Queue!Arrive(b)
    BY <2>2, <2>4, <2>5 DEF Queue!Arrive, Builds
  <2>7. QED
    BY <2>1, <2>6 DEF Queue!QueueNext, Builds
<1>3. ASSUME NEW c \in Builds, NEW signal \in {"running", "paused", "stopped"},
             Control(c, signal)
      PROVE  Phase' = Phase
  <2>1. \A b \in Builds : /\ ledger'[b].verdict = ledger[b].verdict
                          /\ ledger'[b].submitted = ledger[b].submitted
    BY <1>1, <1>3 DEF Control, TypeOK, LedgerEntry
  <2>2. QED
    BY <1>3, <2>1, PhaseStays DEF Control
<1>4. CASE UNCHANGED durable
  BY <1>4, PhaseStays DEF durable
<1>5. QED
  BY <1>2, <1>3, <1>4 DEF Environment, Accept, Conclude, LoseNode, CancelTakesEffect

(* A first submission starts its build; the others find it running. *)
LEMMA SubmissionImplements ==
    ASSUME QueueInv, NEW b \in Builds, Submission(b)
    PROVE  Queue!QueueNext \/ Phase' = Phase
<1>1. TypeOK /\ BuildInv(b) /\ TasksInOrder
  BY QueueInvByBuild
<1>2. CASE Submit(b)
  <2>1. /\ pc[b] = "submitting" /\ arrived' = arrived /\ b \notin Scoped
        /\ ledger' = [ledger EXCEPT ![b].submitted = TRUE]
    BY <1>1, <1>2 DEF Submit, At, BuildInv
  <2>2. /\ \A c \in Builds : ledger'[c].verdict = ledger[c].verdict
        /\ \A c \in Builds : c # b => ledger'[c].submitted = ledger[c].submitted
        /\ ledger'[b].submitted
    BY <1>1, <2>1 DEF TypeOK, LedgerEntry
  <2>3. /\ ledger[b].verdict = "none" /\ ~(b > arrived)
        /\ ledger[b].submitted \in BOOLEAN /\ ledger'[b].submitted = TRUE
    <3>1. b \in Pending
      BY <1>1, <2>1 DEF BuildInv, HasNoTask
    <3>2. ledger[b].verdict = "none" /\ ~(b > arrived)
      BY <1>1, <3>1, SchedulerConstants DEF Pending, TypeOK
    <3>3. ledger[b].submitted \in BOOLEAN /\ ledger'[b].submitted = TRUE
      BY <1>1, <2>1 DEF TypeOK, LedgerEntry
    <3>4. QED
      BY <3>2, <3>3
  <2>4. CASE ledger[b].submitted
    BY <2>1, <2>2, <2>3, <2>4, PhaseStays
  <2>5. CASE ~ledger[b].submitted
    <3>1. Phase[b] = "waiting" /\ Phase'[b] = "running"
      BY <2>1, <2>2, <2>3, <2>5 DEF Phase
    <3>2. \A c \in Builds : c # b => Phase'[c] = Phase[c]
      BY <2>1, <2>2 DEF Phase
    <3>3. Phase' = [Phase EXCEPT ![b] = "running"]
      <4>1. /\ Phase' = [c \in Builds |-> Phase'[c]]
            /\ Phase = [c \in Builds |-> Phase[c]]
        BY DEF Phase
      <4>2. QED
        BY <3>1, <3>2, <4>1
    <3>4. Queue!Cardinality(Queue!Ahead(b)) < MaxConcurrent
      BY <1>1, <2>1, PendingIsUnfinished, SameCardinality DEF TasksInOrder, HasNoTask
    <3>5. Queue!StartBuild(b)
      BY <2>1, <3>1, <3>3, <3>4 DEF Queue!StartBuild
    <3>6. QED
      BY <3>5 DEF Queue!QueueNext, Builds
  <2>6. QED
    BY <2>4, <2>5
<1>3. CASE SubmitAccepted(b)
  <2>1. \A c \in Builds : /\ ledger'[c].verdict = ledger[c].verdict
                          /\ ledger'[c].submitted = ledger[c].submitted
    BY <1>1, <1>3 DEF SubmitAccepted, TypeOK, LedgerEntry
  <2>2. QED
    BY <1>3, <2>1, PhaseStays DEF SubmitAccepted
<1>4. CASE UNCHANGED durable
  BY <1>4, PhaseStays DEF durable
<1>5. QED
  BY <1>2, <1>3, <1>4
     DEF Submission, StartScoped, Start, SubmitBlocked, SubmitRejected, SubmitReplyLost

(* Following an execution moves nothing in the queue. *)
LEMMA RunUntilDoneImplements ==
    ASSUME QueueInv, NEW b \in Builds, RunUntilDone(b)
    PROVE  Phase' = Phase
<1>1. TypeOK
  BY DEF QueueInv
<1>2. CASE UNCHANGED durable
  BY <1>2, PhaseStays DEF durable
<1>3. ASSUME NEW state, arrived' = arrived,
             ledger' = [ledger EXCEPT ![b].state = state]
      PROVE  Phase' = Phase
  <2>1. \A c \in Builds : /\ ledger'[c].verdict = ledger[c].verdict
                          /\ ledger'[c].submitted = ledger[c].submitted
    BY <1>1, <1>3 DEF TypeOK, LedgerEntry
  <2>2. QED
    BY <1>3, <2>1, PhaseStays
<1>4. CASE Stopped(b)
  BY <1>3, <1>4 DEF Stopped
<1>5. CASE PauseSeen(b)
  BY <1>3, <1>5 DEF PauseSeen
<1>6. CASE GoesOn(b)
  <2>1. PICK state : /\ arrived' = arrived
                     /\ ledger' = [ledger EXCEPT ![b].state = state]
    BY <1>6 DEF GoesOn
  <2>2. QED
    BY <1>3, <2>1
<1>7. CASE PostFinalStatus(b)
  BY <1>3, <1>7 DEF PostFinalStatus
<1>8. QED
  BY <1>2, <1>4, <1>5, <1>6, <1>7
     DEF RunUntilDone, StopSeen, Continue, DeadlineExceeded, PollUnchanged, PollEnded,
         NoProgress, Expired, FinishScoped

(* A task that ends its build ends it in the queue. *)
LEMMA EndingImplements ==
    ASSUME QueueInv, NEW b \in Builds, Ending(b)
    PROVE  Queue!QueueNext \/ Phase' = Phase
<1>1. TypeOK /\ BuildInv(b)
  BY QueueInvByBuild
<1>2. ASSUME NEW v \in Terminal, arrived' = arrived, ~HasNoTask(b),
             ledger' = [ledger EXCEPT ![b] = WithVerdict(ledger[b], v)],
             v = "complete" => ledger[b].submitted \/ b \in Scoped
      PROVE  Queue!QueueNext
  <2> DEFINE ending == {b}
             verdict == [c \in ending |-> v]
  <2>1. b \in Pending
    BY <1>1, <1>2 DEF BuildInv
  <2>2. ending \in SUBSET Pending /\ verdict \in [ending -> Terminal]
    BY <2>1
  <2>3. \A c \in ending :
           /\ ledger'[c].verdict = verdict[c]
           /\ verdict[c] = "complete" => ledger[c].submitted \/ c \in Scoped
    <3>1. ledger[b] \in LedgerEntry /\ ledger[b].verdict = "none"
      BY <1>1, <2>1 DEF TypeOK, Pending
    <3>2. ledger'[b].verdict = v
      BY <1>1, <1>2, <3>1, WithVerdictFields DEF TypeOK
    <3>3. QED
      BY <1>2, <3>2
  <2>4. \A c \in Builds \ ending :
           /\ ledger'[c].verdict = ledger[c].verdict
           /\ ledger'[c].submitted = ledger[c].submitted
    BY <1>1, <1>2 DEF TypeOK
  <2> HIDE DEF ending, verdict
  <2>5. QED
    BY <1>1, <1>2, <2>2, <2>3, <2>4, VerdictsEndBuilds
<1>3. CASE RecordTerminal(b)
  <2>1. /\ pc[b] = "deciding" /\ arrived' = arrived
        /\ ledger' = [ledger EXCEPT ![b] = WithVerdict(ledger[b], record[b].state)]
    BY <1>3 DEF RecordTerminal, At
  <2>2. /\ record[b].state \in Terminal
        /\ record[b].state = "complete" => ledger[b].submitted \/ b \in Scoped
    BY <1>1, <2>1 DEF BuildInv
  <2>3. QED
    BY <1>2, <2>1, <2>2 DEF HasNoTask
<1>4. CASE TaskFails(b)
  <2>1. /\ ~HasNoTask(b) /\ arrived' = arrived
        /\ ledger' = [ledger EXCEPT ![b] = WithVerdict(ledger[b], "failed")]
    BY <1>4 DEF TaskFails
  <2>2. QED
    BY <1>2, <2>1 DEF Terminal
<1>5. CASE Retry(b)
  <2>1. \A c \in Builds : /\ ledger'[c].verdict = ledger[c].verdict
                          /\ ledger'[c].submitted = ledger[c].submitted
    BY <1>1, <1>5 DEF Retry, TypeOK, LedgerEntry
  <2>2. QED
    BY <1>5, <2>1, PhaseStays DEF Retry
<1>6. CASE TaskVanishes(b)
  BY <1>6, PhaseStays DEF TaskVanishes, durable
<1>7. QED
  BY <1>3, <1>4, <1>5, <1>6 DEF Ending

(***************************************************************************)
(* The scheduler, with its tasks, its restarts and its retries, does what  *)
(* the queue promises: builds start in their order of arrival, within the  *)
(* limit, and end once (run_once, _run_request, load_build).               *)
(***************************************************************************)
THEOREM Refinement == Spec => ImplementsQueue
<1>1. Init => Queue!QueueInit
  BY SchedulerConstants DEF Init, Queue!QueueInit, Phase, Builds
<1>2. QueueInv /\ [Next]_vars => [Queue!QueueNext]_Phase
  <2> SUFFICES ASSUME QueueInv, [Next]_vars
               PROVE  Queue!QueueNext \/ Phase' = Phase
    OBVIOUS
  <2>1. CASE Environment
    BY <2>1, EnvironmentImplements
  <2>2. CASE Worker
    BY <2>2, WorkerImplements
  <2>3. ASSUME NEW b \in Builds, Submission(b) \/ RunUntilDone(b) \/ Ending(b)
        PROVE  Queue!QueueNext \/ Phase' = Phase
    BY <2>3, SubmissionImplements, RunUntilDoneImplements, EndingImplements
  <2>4. CASE UNCHANGED vars
    BY <2>4, PhaseStays DEF vars, durable
  <2>5. QED
    BY <2>1, <2>2, <2>3, <2>4 DEF Next
<1>3. QED
  BY <1>1, <1>2, QueueInvariant, PTL DEF Spec, ImplementsQueue, Queue!QueueSpec

-------------------------------------------------------------------------------
(* What the queue promises, carried over to the scheduler *)

Promised == INSTANCE BuildQueue_proofs WITH phase <- Phase

(* The queue that was refined is the one the limit was proved of. *)
LEMMA SameQueue ==
    /\ Queue!QueueInit <=> Promised!QueueInit
    /\ Queue!QueueNext <=> Promised!QueueNext
<1>1. Queue!QueueInit <=> Promised!QueueInit
  BY DEF Queue!QueueInit, Promised!QueueInit
<1>2. \A b : Queue!Arrive(b) <=> Promised!Arrive(b)
  BY DEF Queue!Arrive, Promised!Arrive
<1>3. \A b : Queue!StartBuild(b) <=> Promised!StartBuild(b)
  <2>1. \A S : Queue!Cardinality(S) = Promised!Cardinality(S)
    BY DEF Queue!Cardinality, Promised!Cardinality
  <2>2. \A b : Queue!Ahead(b) = Promised!Ahead(b)
    BY DEF Queue!Ahead, Promised!Ahead, Queue!Unfinished, Promised!Unfinished
  <2>3. QED
    BY <2>1, <2>2 DEF Queue!StartBuild, Promised!StartBuild
<1>4. \A ending : Queue!EndBuilds(ending) <=> Promised!EndBuilds(ending)
  BY DEF Queue!EndBuilds, Promised!EndBuilds, Queue!Unfinished, Promised!Unfinished,
         Queue!Verdicts, Promised!Verdicts
<1>5. QED
  BY <1>1, <1>2, <1>3, <1>4 DEF Queue!QueueNext, Promised!QueueNext

(***************************************************************************)
(* Every execution an unfinished build waits for belongs to a running      *)
(* build of the queue, and no build waits for two.                         *)
(***************************************************************************)
LEMMA RunningBoundsTracked ==
    ASSUME QueueInv, Promised!RunningWithinLimit
    PROVE  TrackedWithinLimit
<1> DEFINE owner == [e \in TrackedExecutions |->
                        CHOOSE b \in Pending : ledger[b].execution = e]
<1>1. TypeOK /\ (\A b \in Builds : BuildInv(b))
  BY QueueInvByBuild
<1>2. ASSUME NEW e \in TrackedExecutions
      PROVE  /\ owner[e] \in Promised!Running
             /\ ledger[owner[e]].execution = e
  <2>1. owner[e] \in Pending /\ ledger[owner[e]].execution = e
    BY DEF TrackedExecutions
  <2> DEFINE b == owner[e]
  <2> HIDE DEF owner
  <2>2. b \in Builds /\ e # NoExecution
    BY <1>1, <2>1, BuildSets, SchedulerConstants DEF TrackedExecutions
  <2>3. ledger[b].submitted
    BY <1>1, <2>1, <2>2 DEF BuildInv
  <2>4. ledger[b].verdict = "none" /\ ~(b > arrived)
    BY <1>1, <2>1, SchedulerConstants DEF Pending, TypeOK
  <2>5. Phase[b] = "running"
    BY <2>2, <2>3, <2>4 DEF Phase
  <2>6. QED
    BY <2>1, <2>2, <2>5 DEF Promised!Running, Builds
<1>3. owner \in Injection(TrackedExecutions, Promised!Running)
  BY <1>2 DEF Injection, IsInjective
<1>4. IsFiniteSet(Promised!Running) /\ Cardinality(Promised!Running) \in Nat
  <2>1. Promised!Running \in SUBSET Builds
    BY DEF Promised!Running, Builds
  <2>2. QED
    BY <1>1, <2>1, BuildSets
<1>5. /\ IsFiniteSet(TrackedExecutions)
      /\ Cardinality(TrackedExecutions) <= Cardinality(Promised!Running)
  BY <1>3, <1>4, FS_Injection
<1>6. Cardinality(Promised!Running) <= MaxConcurrent
  <2>1. \A S : Promised!Cardinality(S) = Cardinality(S)
    BY DEF Promised!Cardinality, Cardinality
  <2>2. QED
    BY <2>1 DEF Promised!RunningWithinLimit
<1>7. Cardinality(TrackedExecutions) \in Nat
  BY <1>5, FS_CardinalityType
<1>8. QED
  BY <1>4, <1>5, <1>6, <1>7, SchedulerConstants DEF TrackedWithinLimit

(***************************************************************************)
(* However many builds are queued and however often the scheduler dies:    *)
(* unfinished builds never wait for more executions than max_concurrent,   *)
(* for a restart takes up what was in flight before anything else          *)
(* (run_once, pending_requests).                                           *)
(***************************************************************************)
THEOREM TrackedLimit == Spec => []TrackedWithinLimit
<1>1. Promised!QueueConstants
  BY SchedulerConstants DEF Promised!QueueConstants, Builds
<1>2. Promised!QueueSpec => [](Promised!RunningInOrder /\ Promised!RunningWithinLimit)
  BY <1>1, Promised!QueueLimit
<1>3. ImplementsQueue => Promised!QueueSpec
  BY SameQueue, PTL DEF ImplementsQueue, Queue!QueueSpec, Promised!QueueSpec
<1>4. QueueInv /\ Promised!RunningWithinLimit => TrackedWithinLimit
  BY RunningBoundsTracked
<1>5. QED
  BY <1>2, <1>3, <1>4, QueueInvariant, Refinement, PTL
===============================================================================
