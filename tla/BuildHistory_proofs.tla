-------------------------- MODULE BuildHistory_proofs --------------------------
(***************************************************************************)
(* What the ledger and the tasks' memory say of AgentField is true: proofs *)
(* about BuildScheduler.tla on top of the invariant of the queue.          *)
(***************************************************************************)
EXTENDS BuildScheduler_proofs

-------------------------------------------------------------------------------
(* What any step does to AgentField and to the bounds *)

(***************************************************************************)
(* An execution only moves forward: once given to a build it stays that    *)
(* build's, and once it has ended it stays what it is.                     *)
(***************************************************************************)
MovesOn(e) ==
    /\ execution[e].status # "unused" =>
          /\ execution'[e].build = execution[e].build
          /\ execution'[e].status # "unused"
    /\ Live(e) => Live(e)' \/ execution'[e].status \in Ended
    /\ execution[e].status \in Ended => execution'[e].status = execution[e].status

(* Cancel requests are not taken back, nor do failures unhappen. *)
Onward ==
    /\ \A e \in Executions : MovesOn(e)
    /\ cancels \subseteq cancels'
    /\ crashes \in Nat /\ crashes' \in Nat /\ crashes <= crashes'
    /\ faults \in Nat /\ faults' \in Nat /\ faults <= faults'

(* Only Submit takes an execution that is not used yet into use. *)
GivesOut(b, e) ==
    /\ execution[e].status = "unused"
    /\ execution'[e] = [build |-> b, status |-> "requested"]
    /\ pc[b] = "submitting" /\ pc'[b] = "posting" /\ sent'[b] = e

LEMMA EnvironmentOnward ==
    ASSUME TypeOK, Environment
    PROVE  /\ Onward
           /\ \A e \in Executions : execution[e].status \in {"unused"} \cup Ended =>
                  execution'[e] = execution[e]
<1> USE DEF TypeOK, durable, tasks, agentField, bounds, Onward, MovesOn, Live, Ended
<1>1. CASE Enqueue
  BY <1>1, SchedulerConstants DEF Enqueue
<1>2. ASSUME NEW b \in Builds, NEW signal \in {"running", "paused", "stopped"},
             Control(b, signal)
      PROVE  UNCHANGED <<execution, cancels, crashes, faults>>
  BY <1>2 DEF Control
<1>3. ASSUME NEW e \in Executions, NEW new \in {"live"} \cup Ended,
             execution[e].status \in {"requested", "live"},
             execution[e].status = "live" => new \in Ended,
             execution' = [execution EXCEPT ![e].status = new]
      PROVE  \A x \in Executions :
                /\ MovesOn(x)
                /\ execution[x].status \in {"unused"} \cup Ended => execution'[x] = execution[x]
  BY <1>3
<1>4. ASSUME NEW e \in Executions, Accept(e)
      PROVE  /\ UNCHANGED <<cancels, crashes, faults>>
             /\ execution[e].status \in {"requested", "live"}
             /\ execution[e].status # "live"
             /\ execution' = [execution EXCEPT ![e].status = "live"]
  BY <1>4 DEF Accept
<1>5. ASSUME NEW e \in Executions, NEW outcome \in {"succeeded", "failed"},
             Conclude(e, outcome)
      PROVE  /\ UNCHANGED <<cancels, crashes, faults>>
             /\ execution[e].status \in {"requested", "live"}
             /\ execution' = [execution EXCEPT ![e].status = outcome]
  BY <1>5 DEF Conclude
<1>6. ASSUME NEW e \in Executions, LoseNode(e)
      PROVE  /\ UNCHANGED <<cancels, crashes>> /\ faults' = faults + 1
             /\ execution[e].status \in {"requested", "live"}
             /\ execution' = [execution EXCEPT ![e].status = "cancelled_by_control_plane"]
  BY <1>6 DEF LoseNode
<1>7. ASSUME NEW e \in Executions, CancelTakesEffect(e)
      PROVE  /\ UNCHANGED <<cancels, crashes, faults>>
             /\ execution[e].status \in {"requested", "live"}
             /\ execution' = [execution EXCEPT ![e].status = "cancelled"]
  BY <1>7 DEF CancelTakesEffect
<1>8. QED
  BY <1>1, <1>2, <1>3, <1>4, <1>5, <1>6, <1>7, SchedulerConstants DEF Environment

LEMMA WorkerOnward ==
    ASSUME TypeOK, Worker
    PROVE  Onward /\ execution' = execution
BY SchedulerConstants
   DEF Worker, RunOnce, RunOnceRaises, Health, Crash, Restart, TypeOK, durable, tasks,
       agentField, bounds, Onward, MovesOn, Live, Ended

LEMMA TaskOnward ==
    ASSUME TypeOK, NEW b \in Builds, TaskAction(b)
    PROVE  /\ Onward
           /\ \A e \in Executions :
                 \/ GivesOut(b, e)
                 \/ execution'[e] = execution[e]
                 \/ /\ execution[e].status = "requested" /\ execution'[e].status = "rejected"
                    /\ execution'[e].build = execution[e].build
<1> USE DEF TypeOK, durable, tasks, agentField, bounds, Onward, MovesOn, Live, Ended,
            At, Goto
<1>1. CASE Submit(b)
  <2>1. PICK e \in Executions :
           /\ execution[e].status = "unused"
           /\ execution' = [execution EXCEPT ![e] = [build |-> b, status |-> "requested"]]
           /\ sent' = [sent EXCEPT ![b] = e]
    BY <1>1 DEF Submit
  <2>2. GivesOut(b, e) /\ \A x \in Executions : x # e => execution'[x] = execution[x]
    BY <1>1, <2>1 DEF Submit, GivesOut
  <2>3. QED
    BY <1>1, <2>1, <2>2, SchedulerConstants DEF Submit
<1>2. CASE SubmitRejected(b)
  <2>1. /\ execution[sent[b]].status = "requested"
        /\ execution' = [execution EXCEPT ![sent[b]].status = "rejected"]
    BY <1>2 DEF SubmitRejected
  <2>2. \A x \in Executions :
           IF x = sent[b] THEN /\ execution[x].status = "requested"
                               /\ execution'[x].status = "rejected"
                               /\ execution'[x].build = execution[x].build
                          ELSE execution'[x] = execution[x]
    BY <2>1
  <2>3. QED
    BY <1>2, <2>2, SchedulerConstants DEF SubmitRejected
<1>3. CASE execution' = execution
  <2>1. \/ UNCHANGED <<cancels, crashes, faults>>
        \/ faults' = faults + 1 /\ UNCHANGED <<cancels, crashes>>
        \/ SendCancel(record[b].execution) /\ UNCHANGED <<crashes, faults>>
    BY <1>3 DEF TaskAction, Submission, RunUntilDone, Ending, StartScoped, Start, SubmitBlocked,
         Submit, SubmitAccepted, SubmitRejected, SubmitReplyLost, StopSeen, Stopped, PauseSeen,
         Continue, DeadlineExceeded, GoesOn, PollUnchanged, PollEnded, NoProgress, Expired,
         PostFinalStatus, FinishScoped, Retry, RecordTerminal, TaskFails, TaskVanishes
  <2>2. QED
    BY <1>3, <2>1, SchedulerConstants DEF SendCancel
<1>4. execution' = execution \/ Submit(b) \/ SubmitRejected(b)
  BY DEF TaskAction, Submission, RunUntilDone, Ending, StartScoped, Start, SubmitBlocked,
         SubmitAccepted, SubmitReplyLost, StopSeen, Stopped, PauseSeen,
         Continue, DeadlineExceeded, GoesOn, PollUnchanged, PollEnded, NoProgress, Expired,
         PostFinalStatus, FinishScoped, Retry, RecordTerminal, TaskFails, TaskVanishes
<1>5. QED
  BY <1>1, <1>2, <1>3, <1>4
-------------------------------------------------------------------------------
(* What stays true while AgentField moves on *)

(***************************************************************************)
(* A reason for a word and a cancel request that was sent are never lost   *)
(* while the ledger names the same execution.                              *)
(***************************************************************************)
LEMMA ReasonsLast ==
    ASSUME TypeOK, TypeOK', Onward, NEW b \in Builds, TrackingIsSound(b),
           ledger'[b].execution = ledger[b].execution,
           ledger[b].stopAsked => ledger'[b].stopAsked
    PROVE  /\ \A word : Justified(b, word) => Justified(b, word)'
           /\ NothingRuns(b) => NothingRuns(b)'
<1>1. ledger[b].execution \in Executions \cup {NoExecution}
  BY EntryType DEF TypeOK
<1>2. QED
  BY <1>1 DEF Justified, NothingRuns, TrackingIsSound, Onward, MovesOn, Live, Ended, Stops

(***************************************************************************)
(* What is known of a build stays true over a step of others: of another   *)
(* task, of AgentField, or of the owner, who can only ask for more stops.  *)
(***************************************************************************)
LEMMA OthersKeepHistory ==
    ASSUME TypeOK, TypeOK', Onward, NEW b \in Builds, BuildHistory(b),
           pc'[b] = pc[b], record'[b] = record[b], sent'[b] = sent[b],
           ledger'[b].execution = ledger[b].execution,
           ledger'[b].state = ledger[b].state,
           ledger'[b].verdict = ledger[b].verdict,
           ledger[b].stopAsked => ledger'[b].stopAsked,
           ledger'[b].control = "stopped" => ledger'[b].stopAsked
    PROVE  BuildHistory(b)'
<1>1. /\ ledger[b].execution \in Executions \cup {NoExecution}
      /\ sent[b] \in Executions \cup {NoExecution}
  BY EntryType DEF TypeOK
<1>2. /\ \A word : Justified(b, word) => Justified(b, word)'
      /\ NothingRuns(b) => NothingRuns(b)'
  BY ReasonsLast DEF BuildHistory
<1>3. TrackingIsSound(b)'
  BY <1>1 DEF BuildHistory, TrackingIsSound, Onward, MovesOn, Live, Ended
<1>4. SubmittingIsSound(b)'
  BY <1>1 DEF BuildHistory, SubmittingIsSound, Onward, MovesOn
<1>5. FollowingIsSound(b)'
  BY <1>1 DEF BuildHistory, FollowingIsSound, Onward, MovesOn, Ended
<1>6. OutcomeIsSound(b)'
  <2>1. OutcomeIsSound(b)
    BY DEF BuildHistory
  <2>2. /\ Justified(b, record[b].state) => Justified(b, record[b].state)'
        /\ Justified(b, ledger[b].state) => Justified(b, ledger[b].state)'
        /\ Justified(b, ledger[b].verdict) => Justified(b, ledger[b].verdict)'
    BY <1>2 DEF Justified
  <2>3. QED
    BY <1>2, <2>1, <2>2 DEF OutcomeIsSound, HasNoTask, Onward
<1>7. QED
  BY <1>3, <1>4, <1>5, <1>6 DEF BuildHistory
-------------------------------------------------------------------------------
(* What a task's own step leaves of what is known of its build *)

(***************************************************************************)
(* A step of the task of b that keeps the execution in the ledger and what *)
(* the owner asked for; whether the tracking stays sound is a matter of    *)
(* the state it writes only.                                               *)
(***************************************************************************)
LEMMA TrackingStays ==
    ASSUME TypeOK, Onward, NEW b \in Builds, TrackingIsSound(b),
           ledger'[b].execution = ledger[b].execution,
           ledger'[b].control = ledger[b].control,
           ledger'[b].stopAsked = ledger[b].stopAsked,
           ledger[b].execution = NoExecution => ledger'[b].state = "active"
    PROVE  TrackingIsSound(b)'
<1>1. ledger[b].execution \in Executions \cup {NoExecution}
  BY EntryType DEF TypeOK
<1>2. QED
  BY <1>1 DEF TrackingIsSound, Onward, MovesOn, Live, Ended

(* Taking a build up, and submitting it. *)
LEMMA SubmissionKeepsHistory ==
    ASSUME TypeOK, TypeOK', Onward, NEW b \in Builds, BuildInv(b), BuildHistory(b),
           Submission(b)
    PROVE  BuildHistory(b)'
<1> USE DEF BuildHistory, SubmittingIsSound, FollowingIsSound, OutcomeIsSound, Following,
            HasNoTask, At, Goto
<1>1. CASE StartScoped(b)
  <2>1. /\ ledger' = ledger
        /\ \/ pc'[b] = "scoped" /\ record'[b] = record[b]
           \/ /\ pc'[b] = "deciding" /\ ledger[b].control = "stopped"
              /\ record'[b] = [record[b] EXCEPT !.state = "stopped"]
        /\ pc[b] = "created" /\ b \in Scoped
    BY <1>1 DEF StartScoped, TypeOK, durable
  <2>2. /\ record'[b].nodeLost = record[b].nodeLost
        /\ pc'[b] = "deciding" => record'[b].state = "stopped"
    BY <2>1 DEF TypeOK, BuildRecord
  <2>3. TrackingIsSound(b)'
    BY <2>1, TrackingStays DEF TrackingIsSound
  <2>4. ledger[b].execution = NoExecution /\ (pc'[b] = "deciding" => ledger[b].stopAsked)
    BY <2>1 DEF TrackingIsSound
  <2>5. Justified(b, "stopped")' \/ pc'[b] # "deciding"
    BY <2>1, <2>4 DEF Justified
  <2>6. \A word : Justified(b, word) => Justified(b, word)'
    BY <2>1, ReasonsLast
  <2>7. QED
    BY <2>1, <2>2, <2>3, <2>4, <2>5, <2>6 DEF NothingRuns, Justified, Onward
<1>2. CASE Start(b)
  <2>1. /\ ledger' = ledger
        /\ record'[b] = Replayed(ledger[b])
        /\ pc[b] = "created" /\ pc'[b] = IF ledger[b].execution = NoExecution THEN "submitting"
               ELSE IF ledger[b].state \in Terminal THEN "deciding" ELSE "looping"
    BY <1>2 DEF Start, TypeOK, durable
  <2>2. TrackingIsSound(b)'
    BY <2>1, TrackingStays DEF TrackingIsSound
  <2>3. /\ \A word : Justified(b, word) => Justified(b, word)'
        /\ NothingRuns(b) => NothingRuns(b)'
    BY <2>1, ReasonsLast
  <2>4. QED
    BY <2>1, <2>2, <2>3 DEF Replayed, Justified, Onward
<1>3. CASE SubmitBlocked(b)
  <2>1. /\ ledger' = ledger /\ pc[b] = "submitting" /\ pc'[b] = "deciding"
        /\ record'[b].state = "blocked" /\ record'[b].nodeLost = record[b].nodeLost
        /\ record[b].nodeLost \in BOOLEAN
    BY <1>3 DEF SubmitBlocked, TypeOK, durable, BuildRecord
  <2>2. TrackingIsSound(b)'
    BY <2>1, TrackingStays DEF TrackingIsSound
  <2>3. /\ \A word : Justified(b, word) => Justified(b, word)'
        /\ NothingRuns(b) => NothingRuns(b)'
    BY <2>1, ReasonsLast
  <2>4. QED
    BY <2>1, <2>2, <2>3 DEF Justified, NothingRuns, Onward
<1>4. CASE Submit(b)
  <2>1. PICK e \in Executions :
           /\ execution' = [execution EXCEPT ![e] = [build |-> b, status |-> "requested"]]
           /\ sent' = [sent EXCEPT ![b] = e]
    BY <1>4 DEF Submit
  <2>2. /\ sent'[b] \in Executions /\ execution'[sent'[b]].build = b
        /\ execution'[sent'[b]].status = "requested" /\ sent'[b] # NoExecution
    BY <2>1, SchedulerConstants DEF TypeOK
  <2>3. /\ pc[b] = "submitting" /\ pc'[b] = "posting" /\ record' = record
        /\ ledger'[b] = [ledger[b] EXCEPT !.submitted = TRUE]
    BY <1>4 DEF Submit, TypeOK
  <2>4. /\ ledger'[b].execution = ledger[b].execution /\ ledger'[b].state = ledger[b].state
        /\ ledger'[b].control = ledger[b].control /\ ledger'[b].verdict = ledger[b].verdict
        /\ ledger'[b].stopAsked = ledger[b].stopAsked
    BY <2>3 DEF TypeOK, LedgerEntry
  <2>5. TrackingIsSound(b)'
    BY <2>4, TrackingStays DEF TrackingIsSound
  <2>6. /\ \A word : Justified(b, word) => Justified(b, word)'
        /\ NothingRuns(b) => NothingRuns(b)'
    BY <2>4, ReasonsLast
  <2>7. QED
    BY <2>2, <2>3, <2>4, <2>5, <2>6 DEF Justified, Onward
<1>5. CASE SubmitAccepted(b)
  <2>1. /\ pc[b] = "posting" /\ pc'[b] = "looping"
        /\ record'[b] = [NewRecord EXCEPT !.execution = sent[b]]
        /\ ledger'[b] = [ledger[b] EXCEPT !.execution = sent[b]]
        /\ execution' = execution
    BY <1>5 DEF SubmitAccepted, TypeOK, agentField
  <2>2. /\ ledger'[b].execution = sent[b] /\ ledger'[b].state = ledger[b].state
        /\ ledger'[b].control = ledger[b].control /\ ledger'[b].verdict = ledger[b].verdict
        /\ ledger'[b].stopAsked = ledger[b].stopAsked
        /\ record'[b].execution = sent[b] /\ ~record'[b].nodeLost
    BY <2>1 DEF TypeOK, LedgerEntry, NewRecord
  <2>3. /\ sent[b] \in Executions
        /\ execution[sent[b]].status \in {"live"} \cup Ended
        /\ execution[sent[b]].build = b
    BY <1>5, <2>1 DEF TypeOK, SubmitAccepted, ExecutionStatus, Ended
  <2>4. ledger[b].execution = NoExecution /\ ledger[b].state = "active"
          /\ ledger[b].verdict = "none" /\ b \notin Scoped \cup Unreadable
    BY <2>1 DEF TrackingIsSound, BuildInv, Pending
  <2>5. TrackingIsSound(b)'
    BY <2>1, <2>2, <2>3, <2>4 DEF TrackingIsSound, Live
  <2>6. QED
    BY <2>1, <2>2, <2>3, <2>4, <2>5, SchedulerConstants DEF Justified, Terminal, Onward
<1>6. CASE SubmitRejected(b) \/ SubmitReplyLost(b)
  <2>1. /\ pc[b] = "posting" /\ pc'[b] = "deciding" /\ ledger' = ledger
        /\ record'[b] = [NewRecord EXCEPT !.state = "failed"]
    BY <1>6 DEF SubmitRejected, SubmitReplyLost, SubmitFails, TypeOK, durable
  <2>2. record'[b].state = "failed" /\ ~record'[b].nodeLost
    BY <2>1 DEF NewRecord
  <2>3. TrackingIsSound(b)'
    BY <2>1, TrackingStays DEF TrackingIsSound
  <2>4. /\ \A word : Justified(b, word) => Justified(b, word)'
        /\ NothingRuns(b) => NothingRuns(b)'
    BY <2>1, ReasonsLast
  <2>5. QED
    BY <2>1, <2>2, <2>3, <2>4 DEF Justified, NothingRuns, Onward
<1>7. QED
  BY <1>1, <1>2, <1>3, <1>4, <1>5, <1>6 DEF Submission

(***************************************************************************)
(* What a step of run_until_done has to see to: it writes no more than a   *)
(* state into the ledger, and goes on following the same execution until   *)
(* it has an outcome.  The rest of what is known of the build stays.       *)
(***************************************************************************)
LEMMA FollowingKeepsHistory ==
    ASSUME TypeOK, TypeOK', Onward, NEW b \in Builds, BuildInv(b), BuildHistory(b),
           pc[b] \in Following, pc'[b] \in Following \cup {"deciding"},
           record'[b].execution = record[b].execution,
           NEW state \in BuildState, ledger' = [ledger EXCEPT ![b].state = state],
           state = ledger[b].state \/ Justified(b, state)',
           state \in Terminal \/ pc'[b] \in {"finishing", "deciding"} =>
               NothingRuns(b) \/ NothingRuns(b)',
           pc'[b] \in {"finishing", "deciding"} => Justified(b, record[b].state)',
           pc'[b] \in {"stopping", "expiring"} => record[b].execution \in cancels',
           pc'[b] = "stopping" => ledger[b].stopAsked,
           record'[b].nodeLost =>
               /\ pc'[b] \in {"finishing", "deciding"}
               /\ execution'[record[b].execution].status = "cancelled_by_control_plane"
    PROVE  BuildHistory(b)'
<1> USE DEF Following
<1>1. /\ ledger'[b].execution = ledger[b].execution
      /\ ledger'[b].control = ledger[b].control
      /\ ledger'[b].stopAsked = ledger[b].stopAsked
      /\ ledger'[b].state = state
      /\ ledger'[b].verdict = ledger[b].verdict
  BY DEF TypeOK, LedgerEntry
<1>2. ledger[b].execution # NoExecution /\ record[b].execution = ledger[b].execution
  BY DEF BuildHistory, FollowingIsSound
<1>3. ledger[b].verdict = "none"
  BY DEF BuildInv, HasNoTask, Pending
<1>4. /\ \A word : Justified(b, word) => Justified(b, word)'
      /\ NothingRuns(b) => NothingRuns(b)'
  BY <1>1, ReasonsLast DEF BuildHistory
<1>5. TrackingIsSound(b)'
  BY <1>1, <1>2, TrackingStays DEF BuildHistory
<1>6. SubmittingIsSound(b)'
  BY DEF SubmittingIsSound
<1>7. FollowingIsSound(b)'
  BY <1>1, <1>2 DEF FollowingIsSound
<1>8. OutcomeIsSound(b)'
  <2>1. Justified(b, ledger[b].state)'
    <3>1. CASE state = ledger[b].state
      BY <1>1, <1>4, <3>1 DEF Justified, BuildHistory, OutcomeIsSound
    <3>2. CASE Justified(b, state)'
      BY <1>1, <3>2 DEF Justified
    <3>3. QED
      BY <3>1, <3>2
  <2>2. Justified(b, ledger[b].verdict)'
    BY <1>1, <1>3 DEF Justified
  <2>3. ledger'[b].state \in Terminal \/ pc'[b] \in {"finishing", "deciding"} => NothingRuns(b)'
    BY <1>1, <1>4
  <2>4. QED
    BY <1>1, <1>3, <2>1, <2>2, <2>3 DEF OutcomeIsSound, HasNoTask
<1>9. QED
  BY <1>5, <1>6, <1>7, <1>8 DEF BuildHistory

(* Following an execution, and ending a scoped change. *)
LEMMA RunUntilDoneKeepsHistory ==
    ASSUME TypeOK, TypeOK', Onward, NEW b \in Builds, BuildInv(b), BuildHistory(b),
           RunUntilDone(b)
    PROVE  BuildHistory(b)'
<1> USE DEF Following, At, Goto
<1> DEFINE e == ledger[b].execution
<1>0. /\ record[b].nodeLost \in BOOLEAN /\ record[b] \in BuildRecord
      /\ ledger[b].state \in BuildState /\ ledger[b] \in LedgerEntry
      /\ record[b].state \in BuildState
      /\ ledger = [ledger EXCEPT ![b].state = ledger[b].state]
  BY DEF TypeOK, LedgerEntry, BuildRecord
<1>1. /\ pc[b] \in Following => e # NoExecution /\ record[b].execution = e
      /\ record[b].nodeLost => pc[b] \in {"finishing", "deciding"}
      /\ pc[b] \in {"stopping", "expiring"} => e \in cancels
      /\ pc[b] = "stopping" => ledger[b].stopAsked
      /\ ledger[b].control = "stopped" => ledger[b].stopAsked
      /\ ledger[b].state \in Terminal => NothingRuns(b)
      /\ pc[b] \in {"finishing", "deciding"} =>
            /\ Justified(b, record[b].state) /\ NothingRuns(b)
            /\ record[b].nodeLost => execution[e].status = "cancelled_by_control_plane"
  BY DEF BuildHistory, FollowingIsSound, TrackingIsSound, OutcomeIsSound
<1>2. CASE StopSeen(b) \/ NoProgress(b)
  <2>1. /\ ledger' = ledger /\ record' = record
        /\ cancels' = cancels \cup ({record[b].execution} \ {NoExecution})
        /\ \/ /\ pc[b] = "looping" /\ pc'[b] = "stopping"
              /\ ledger[b].control = "stopped"
           \/ pc[b] = "polling" /\ pc'[b] = "expiring"
    BY <1>2 DEF StopSeen, NoProgress, TypeOK, durable, SendCancel
  <2>2. QED
    BY <1>0, <1>1, <2>1, FollowingKeepsHistory
<1>3. CASE Stopped(b)
  <2>1. /\ ledger' = [ledger EXCEPT ![b].state = "stopped"]
        /\ record'[b].state = "stopped" /\ record'[b].nodeLost = record[b].nodeLost
        /\ record'[b].execution = record[b].execution
        /\ pc[b] = "stopping" /\ pc'[b] = "deciding" /\ UNCHANGED <<execution, cancels>>
    BY <1>0, <1>3 DEF Stopped, TypeOK, agentField, BuildRecord
  <2>2. /\ ledger'[b].execution = e /\ ledger'[b].stopAsked
        /\ "stopped" \in BuildState
    BY <1>0, <1>1, <2>1, StateNames DEF LedgerEntry, TypeOK
  <2>3. NothingRuns(b)' /\ Justified(b, "stopped")' /\ Justified(b, record[b].state)'
    BY <1>1, <2>1, <2>2 DEF NothingRuns, Justified
  <2>4. QED
    BY <1>0, <1>1, <2>1, <2>2, <2>3, FollowingKeepsHistory
<1>4. CASE PauseSeen(b)
  <2>1. /\ ledger' = [ledger EXCEPT ![b].state = "paused"]
        /\ record'[b].nodeLost = record[b].nodeLost
        /\ record'[b].execution = record[b].execution
        /\ pc[b] = "looping" /\ pc' = pc
    BY <1>0, <1>4 DEF PauseSeen, TypeOK, BuildRecord
  <2>2. "paused" \in BuildState /\ "paused" \notin Terminal /\ Justified(b, "paused")'
    BY StateNames DEF Terminal, Justified
  <2>3. QED
    BY <1>0, <1>1, <2>1, <2>2, FollowingKeepsHistory
<1>5. CASE Continue(b) \/ DeadlineExceeded(b)
  <2>1. PICK state \in {"active", ledger[b].state} :
          ledger' = [ledger EXCEPT ![b].state = state]
    BY <1>5 DEF Continue, DeadlineExceeded, GoesOn
  <2>2. /\ record'[b].nodeLost = record[b].nodeLost
        /\ record'[b].execution = record[b].execution
        /\ pc[b] = "looping"
        /\ \/ pc'[b] = "polling"
           \/ /\ pc'[b] = "expiring"
              /\ cancels' = cancels \cup ({record[b].execution} \ {NoExecution})
    BY <1>0, <1>5 DEF Continue, DeadlineExceeded, GoesOn, TypeOK, BuildRecord, SendCancel
  <2>3. "active" \in BuildState /\ "active" \notin Terminal /\ Justified(b, "active")'
    BY StateNames DEF Terminal, Justified
  <2>4. QED
    BY <1>0, <1>1, <2>1, <2>2, <2>3, FollowingKeepsHistory
<1>6. CASE PollUnchanged(b)
  <2>1. ledger' = ledger /\ record' = record /\ pc[b] = "polling" /\ pc'[b] = "looping"
    BY <1>6 DEF PollUnchanged, TypeOK, durable
  <2>2. QED
    BY <1>0, <1>1, <2>1, FollowingKeepsHistory
<1>7. CASE PollEnded(b)
  <2> DEFINE status == execution[record[b].execution].status
  <2>1. /\ ledger' = ledger
        /\ pc[b] = "polling" /\ pc'[b] = "finishing" /\ UNCHANGED <<execution, cancels>>
        /\ record'[b].state = StateOf(status) /\ record'[b].execution = record[b].execution
        /\ record'[b].nodeLost = (status = "cancelled_by_control_plane")
        /\ status \in Ended
    BY <1>0, <1>7 DEF PollEnded, TypeOK, durable, agentField, BuildRecord, Ended
  <2>2. NothingRuns(b)
    BY <1>1, <2>1 DEF NothingRuns, Live, Ended
  <2>3. /\ StateOf(status) = "complete" => status = "succeeded"
        /\ StateOf(status) = "stopped" => status \in Stops
    BY <2>1 DEF StateOf, Ended, Stops
  <2>4. Justified(b, record[b].state)'
    BY <1>1, <2>1, <2>3 DEF Justified
  <2>5. QED
    BY <1>0, <1>1, <2>1, <2>2, <2>4, FollowingKeepsHistory
<1>8. CASE Expired(b)
  <2>1. /\ ledger' = ledger
        /\ record'[b].state = "failed" /\ record'[b].execution = record[b].execution
        /\ record'[b].nodeLost = record[b].nodeLost
        /\ pc[b] = "expiring" /\ pc'[b] = "finishing"
    BY <1>0, <1>8 DEF Expired, TypeOK, durable, BuildRecord
  <2>2. NothingRuns(b) /\ Justified(b, record[b].state)'
    BY <1>1, <2>1 DEF NothingRuns, Justified
  <2>3. QED
    BY <1>0, <1>1, <2>1, <2>2, FollowingKeepsHistory
<1>9. CASE PostFinalStatus(b)
  <2>1. /\ ledger' = [ledger EXCEPT ![b].state = record[b].state]
        /\ record' = record /\ pc[b] = "finishing" /\ pc'[b] = "deciding"
        /\ UNCHANGED <<execution, cancels>>
    BY <1>9 DEF PostFinalStatus, agentField, TypeOK
  <2>2. ledger'[b].execution = e /\ ledger'[b].stopAsked = ledger[b].stopAsked
    BY <1>0, <2>1 DEF LedgerEntry, TypeOK
  <2>3. NothingRuns(b)' /\ Justified(b, record[b].state)'
    BY <1>1, <2>1, <2>2 DEF NothingRuns, Justified, Live
  <2>4. QED
    BY <1>0, <1>1, <2>1, <2>3, FollowingKeepsHistory DEF Justified
<1>10. CASE FinishScoped(b)
  <2>1. /\ ledger' = ledger /\ pc[b] = "scoped" /\ pc'[b] = "deciding" /\ b \in Scoped
        /\ record'[b].nodeLost = record[b].nodeLost
        /\ record'[b].state = "stopped" => ledger[b].control = "stopped"
    BY <1>0, <1>10 DEF FinishScoped, TypeOK, durable, BuildRecord, BuildInv
  <2>2. TrackingIsSound(b)'
    BY <2>1, TrackingStays DEF TrackingIsSound, BuildHistory
  <2>3. \A word : Justified(b, word) => Justified(b, word)'
    BY <2>1, ReasonsLast DEF BuildHistory
  <2>4. e = NoExecution
    BY <2>1 DEF BuildHistory, TrackingIsSound
  <2>5. Justified(b, record[b].state)' /\ NothingRuns(b)'
    BY <1>1, <2>1, <2>4 DEF Justified, NothingRuns
  <2>6. OutcomeIsSound(b)'
    BY <2>1, <2>3, <2>5 DEF BuildHistory, OutcomeIsSound, Justified, HasNoTask, Onward
  <2>7. QED
    BY <1>1, <2>1, <2>2, <2>4, <2>6
       DEF BuildHistory, SubmittingIsSound, FollowingIsSound
<1>11. QED
  BY <1>2, <1>3, <1>4, <1>5, <1>6, <1>7, <1>8, <1>9, <1>10 DEF RunUntilDone

(***************************************************************************)
(* The end of a task: what it decided is recorded, or its failure is; only *)
(* a retry leaves the execution of a build behind, and that one has ended. *)
(***************************************************************************)
LEMMA EndingKeepsHistory ==
    ASSUME TypeOK, TypeOK', Onward, NEW b \in Builds, BuildInv(b), BuildHistory(b),
           Ending(b)
    PROVE  BuildHistory(b)'
<1> USE DEF At, Goto
<1>1. CASE Retry(b)
  <2>1. /\ ledger'[b] = [ledger[b] EXCEPT !.execution = NoExecution, !.state = "active"]
        /\ record'[b] = NewRecord /\ pc'[b] = "submitting"
        /\ pc[b] = "deciding"
    BY <1>1 DEF Retry, TypeOK
  <2>2. /\ ledger'[b].execution = NoExecution /\ ledger'[b].state = "active"
        /\ ledger'[b].control = ledger[b].control
        /\ ledger'[b].stopAsked = ledger[b].stopAsked
        /\ ledger'[b].verdict = "none" /\ ~record'[b].nodeLost
    BY <2>1 DEF TypeOK, LedgerEntry, NewRecord, BuildInv, HasNoTask, Pending
  <2>3. TrackingIsSound(b)'
    BY <2>2 DEF BuildHistory, TrackingIsSound
  <2>4. QED
    BY <2>1, <2>2, <2>3 DEF BuildHistory, SubmittingIsSound, FollowingIsSound, OutcomeIsSound,
         Justified, HasNoTask, Following, Terminal
<1>2. CASE RecordTerminal(b) \/ TaskFails(b) \/ TaskVanishes(b)
  <2>1. /\ record'[b] = NewRecord /\ pc'[b] = "done" /\ ~HasNoTask(b)
        /\ UNCHANGED <<execution, cancels>>
        /\ \/ /\ ledger'[b] = WithVerdict(ledger[b], record[b].state)
              /\ pc[b] = "deciding"
           \/ ledger'[b] = WithVerdict(ledger[b], "failed") /\ faults' > 0
           \/ ledger' = ledger /\ faults' > 0
    BY <1>2, SchedulerConstants DEF RecordTerminal, TaskFails, TaskVanishes, EndTask, TypeOK,
         agentField, durable, HasNoTask
  <2>2. ledger[b].verdict = "none" /\ ~record'[b].nodeLost
    BY <2>1 DEF NewRecord, BuildInv, Pending
  <2>3. /\ ledger'[b].execution = ledger[b].execution
        /\ ledger'[b].control = ledger[b].control
        /\ ledger'[b].stopAsked = ledger[b].stopAsked
        /\ ledger'[b].state = ledger[b].state
        /\ \/ pc[b] = "deciding" /\ ledger'[b].verdict = record[b].state
           \/ ledger'[b].verdict \in {"none", "failed"} /\ faults' > 0
    BY <2>1, <2>2 DEF WithVerdict, TypeOK, LedgerEntry
  <2>4. TrackingIsSound(b)'
    BY <2>3, TrackingStays DEF BuildHistory, TrackingIsSound
  <2>5. /\ \A word : Justified(b, word) => Justified(b, word)'
        /\ NothingRuns(b) => NothingRuns(b)'
    BY <2>3, ReasonsLast DEF BuildHistory
  <2>6. OutcomeIsSound(b)'
    <3>1. Justified(b, ledger[b].state)'
      BY <2>3, <2>5 DEF BuildHistory, OutcomeIsSound, Justified
    <3>2. CASE pc[b] = "deciding" /\ ledger'[b].verdict = record[b].state
      <4>1. Justified(b, record[b].state) /\ NothingRuns(b) /\ record[b].state \in Terminal
        BY <3>2 DEF BuildHistory, OutcomeIsSound, BuildInv
      <4>2. Justified(b, ledger[b].verdict)' /\ NothingRuns(b)'
        BY <2>5, <3>2, <4>1 DEF Justified
      <4>3. QED
        BY <2>1, <3>1, <3>2, <4>1, <4>2 DEF OutcomeIsSound, Terminal
    <3>3. CASE ledger'[b].verdict \in {"none", "failed"} /\ faults' > 0
      <4>1. Justified(b, ledger[b].verdict)'
        BY <3>3 DEF Justified
      <4>2. QED
        BY <2>1, <2>3, <2>5, <3>1, <3>3, <4>1 DEF BuildHistory, OutcomeIsSound
    <3>4. QED
      BY <2>3, <3>2, <3>3
  <2>7. QED
    BY <2>1, <2>2, <2>4, <2>6 DEF BuildHistory, SubmittingIsSound, FollowingIsSound, Following
<1>3. QED
  BY <1>1, <1>2 DEF Ending

-------------------------------------------------------------------------------
(* Every build keeps its history *)

(* A step of b's task touches no other task's submission. *)
LEMMA TaskLeavesSent ==
    ASSUME TypeOK, NEW b \in Builds, TaskAction(b), NEW c \in Builds, c # b
    PROVE  sent'[c] = sent[c]
BY DEF TaskAction, Submission, RunUntilDone, Ending, StartScoped, Start, SubmitBlocked,
       Submit, SubmitAccepted, SubmitRejected, SubmitReplyLost, SubmitFails, StopSeen,
       Stopped, PauseSeen, Continue, DeadlineExceeded, GoesOn, PollUnchanged, PollEnded,
       NoProgress, Expired, PostFinalStatus, FinishScoped, Retry, RecordTerminal,
       TaskFails, TaskVanishes, EndTask, TypeOK, tasks

LEMMA TaskKeepsHistory ==
    ASSUME HistoryInv, TypeOK', NEW b \in Builds, TaskAction(b), NEW c \in Builds
    PROVE  BuildHistory(c)'
<1>1. TypeOK /\ BuildInv(b) /\ BuildHistory(b) /\ BuildHistory(c)
  BY QueueInvByBuild DEF HistoryInv
<1>2. Onward
  BY <1>1, TaskOnward
<1>3. CASE c = b
  BY <1>1, <1>2, <1>3, SubmissionKeepsHistory, RunUntilDoneKeepsHistory, EndingKeepsHistory
     DEF TaskAction
<1>4. CASE c # b
  <2>1. pc'[c] = pc[c] /\ record'[c] = record[c] /\ ledger'[c] = ledger[c] /\ sent'[c] = sent[c]
    BY <1>1, <1>4, TaskStaysInFrame, TaskLeavesSent DEF TaskFrame
  <2>2. ledger[c].control = "stopped" => ledger[c].stopAsked
    BY <1>1 DEF BuildHistory, TrackingIsSound
  <2>3. QED
    BY <1>1, <1>2, <2>1, <2>2, OthersKeepHistory
<1>5. QED
  BY <1>3, <1>4

LEMMA EnvironmentKeepsHistory ==
    ASSUME HistoryInv, TypeOK', Environment, NEW b \in Builds
    PROVE  BuildHistory(b)'
<1>1. TypeOK /\ BuildHistory(b) /\ (ledger[b].control = "stopped" => ledger[b].stopAsked)
  BY DEF HistoryInv, QueueInv, BuildHistory, TrackingIsSound
<1>2. Onward
  BY <1>1, EnvironmentOnward
<1>3. UNCHANGED <<pc, record, sent>>
  BY DEF Environment, Enqueue, Control, Accept, Conclude, LoseNode, CancelTakesEffect, tasks
<1>4. CASE ledger' = ledger
  BY <1>1, <1>2, <1>3, <1>4, OthersKeepHistory
<1>5. ASSUME NEW c \in Builds, NEW signal \in {"running", "paused", "stopped"},
             Control(c, signal)
      PROVE  BuildHistory(b)'
  <2>1. /\ ledger'[b].execution = ledger[b].execution
        /\ ledger'[b].state = ledger[b].state
        /\ ledger'[b].verdict = ledger[b].verdict
        /\ ledger[b].stopAsked => ledger'[b].stopAsked
        /\ ledger'[b].control = "stopped" => ledger'[b].stopAsked
    BY <1>1, <1>5 DEF Control, TypeOK, LedgerEntry
  <2>2. QED
    BY <1>1, <1>2, <1>3, <2>1, OthersKeepHistory
<1>6. QED
  BY <1>4, <1>5 DEF Environment, Enqueue, Accept, Conclude, LoseNode, CancelTakesEffect, durable

(***************************************************************************)
(* The builds the worker loop ends itself have no task, and none of them   *)
(* has an execution unless something failed before (run_once,              *)
(* pending_requests).                                                      *)
(***************************************************************************)
LEMMA DismissedIsSound ==
    ASSUME HistoryInv, NEW b \in ToDismiss
    PROVE  /\ b \in Builds /\ HasNoTask(b) /\ ledger[b].verdict = "none"
           /\ b \in Unreadable \/ (crashes = 0 /\ faults = 0) =>
                 ledger[b].execution = NoExecution
           /\ b \notin Unreadable => ledger[b].stopAsked
<1>1. b \in Builds /\ b \in Pending /\ ledger[b].verdict = "none"
  BY BuildSets DEF ToDismiss, UnreadablePending, StoppedInQueue, HistoryInv, QueueInv, Pending
<1>2. BuildInv(b) /\ BuildHistory(b)
  BY <1>1, QueueInvByBuild DEF HistoryInv
<1>3. HasNoTask(b)
  BY <1>2 DEF BuildInv, ToDismiss, UnreadablePending, StoppedInQueue
<1>4. QED
  BY <1>1, <1>2, <1>3 DEF BuildHistory, TrackingIsSound, OutcomeIsSound, ToDismiss,
     UnreadablePending, StoppedInQueue

(* Dismissing builds, reaping and dispatching keep every build's history. *)
LEMMA DismissedKeepsHistory ==
    ASSUME HistoryInv, TypeOK', NEW swept \in SUBSET ToDismiss, ledger' = Dismissed(swept),
           UNCHANGED <<record, sent, execution, cancels, crashes, faults>>, NEW b \in Builds,
           HasNoTask(b) => pc'[b] \in {"none", "done", "created"},
           ~HasNoTask(b) => pc'[b] = pc[b]
    PROVE  BuildHistory(b)'
<1> DEFINE v == IF b \in Unreadable THEN "failed" ELSE "stopped"
<1>1. TypeOK /\ BuildHistory(b) /\ ledger[b] \in LedgerEntry
  BY DEF HistoryInv, QueueInv, TypeOK
<1>2. ledger'[b] = IF b \in swept THEN WithVerdict(ledger[b], v) ELSE ledger[b]
  BY DEF Dismissed, ToDismiss, UnreadablePending, StoppedInQueue
<1>3. /\ ledger'[b].execution = ledger[b].execution
      /\ ledger'[b].state = ledger[b].state
      /\ ledger'[b].control = ledger[b].control
      /\ ledger'[b].stopAsked = ledger[b].stopAsked
  BY <1>1, <1>2 DEF WithVerdict, LedgerEntry
<1>4. Onward
  BY <1>1, SchedulerConstants DEF Onward, MovesOn, TypeOK, Live, Ended
<1>5. TrackingIsSound(b)'
  BY <1>1, <1>3, <1>4, TrackingStays DEF BuildHistory, TrackingIsSound
<1>6. /\ \A word : Justified(b, word)' <=> Justified(b, word)
      /\ NothingRuns(b)' <=> NothingRuns(b)
  BY <1>3 DEF Justified, NothingRuns, Live
<1>7. SubmittingIsSound(b)' /\ FollowingIsSound(b)'
  BY <1>1, <1>3 DEF BuildHistory, SubmittingIsSound, FollowingIsSound, HasNoTask, Following
<1>8. OutcomeIsSound(b)'
  <2>1. OutcomeIsSound(b)
    BY <1>1 DEF BuildHistory
  <2>2. /\ Justified(b, ledger[b].state)' <=> Justified(b, ledger[b].state)
        /\ Justified(b, record[b].state)' <=> Justified(b, record[b].state)
    BY <1>3 DEF Justified
  <2>3. CASE b \in swept
    <3>1. /\ HasNoTask(b) /\ ledger[b].verdict = "none"
          /\ b \in Unreadable \/ (crashes = 0 /\ faults = 0) =>
                ledger[b].execution = NoExecution
          /\ b \notin Unreadable => ledger[b].stopAsked
      BY <2>3, DismissedIsSound
    <3>2. ledger'[b].verdict = v
      BY <1>1, <1>2, <2>3, <3>1, WithVerdictFields
    <3>3. Justified(b, ledger[b].verdict)'
      BY <1>3, <3>1, <3>2 DEF Justified
    <3>4. \/ NothingRuns(b)'
          \/ ledger'[b].verdict = "stopped" /\ ~(crashes = 0 /\ faults = 0)
      BY <1>3, <3>1, <3>2 DEF NothingRuns
    <3>5. crashes \in Nat /\ faults \in Nat /\ crashes' = crashes /\ faults' = faults
      BY <1>1, SchedulerConstants DEF TypeOK
    <3>6. QED
      BY <1>3, <1>6, <2>1, <2>2, <3>1, <3>2, <3>3, <3>4, <3>5 DEF OutcomeIsSound, HasNoTask
  <2>4. CASE b \notin swept
    <3>1. ledger'[b] = ledger[b]
      BY <1>2, <2>4
    <3>2. Justified(b, ledger[b].verdict)' <=> Justified(b, ledger[b].verdict)
      BY <3>1 DEF Justified
    <3>3. QED
      BY <1>6, <2>1, <2>2, <3>1, <3>2 DEF OutcomeIsSound, HasNoTask
  <2>5. QED
    BY <2>3, <2>4
<1>9. QED
  BY <1>5, <1>7, <1>8 DEF BuildHistory

LEMMA WorkerKeepsHistory ==
    ASSUME HistoryInv, TypeOK', Worker, NEW b \in Builds
    PROVE  BuildHistory(b)'
<1>1. TypeOK /\ BuildHistory(b)
  BY DEF HistoryInv, QueueInv
<1>2. Onward
  BY <1>1, WorkerOnward
<1>3. CASE RunOnce
  <2>1. /\ HasNoTask(b) => pc'[b] \in {"none", "done", "created"}
        /\ ~HasNoTask(b) => pc'[b] = pc[b]
    BY <1>3 DEF RunOnce, HasNoTask, Dispatched, Waiting
  <2>2. QED
    BY <1>3, <2>1, DismissedKeepsHistory DEF RunOnce, agentField, bounds
<1>4. CASE RunOnceRaises \/ Health
  <2>1. PICK swept \in SUBSET ToDismiss : ledger' = Dismissed(swept)
    BY <1>4 DEF RunOnceRaises, Health, ToDismiss
  <2>2. QED
    BY <1>4, <2>1, DismissedKeepsHistory
       DEF RunOnceRaises, Health, tasks, agentField, bounds, HasNoTask
<1>5. CASE Crash
  <2>1. /\ ledger' = ledger /\ UNCHANGED <<execution, cancels, faults>>
        /\ pc'[b] = "none" /\ ~record'[b].nodeLost /\ crashes' > 0 /\ crashes' # 0
    BY <1>1, <1>5, SchedulerConstants DEF Crash, durable, agentField, NewRecord, TypeOK
  <2>2. TrackingIsSound(b)'
    BY <1>1, <1>2, <2>1, TrackingStays DEF BuildHistory, TrackingIsSound
  <2>3. SubmittingIsSound(b)' /\ FollowingIsSound(b)'
    BY <2>1 DEF SubmittingIsSound, FollowingIsSound, Following
  <2>4. OutcomeIsSound(b)'
    BY <1>1, <2>1 DEF BuildHistory, OutcomeIsSound, Justified, NothingRuns, Live
  <2>5. QED
    BY <2>2, <2>3, <2>4 DEF BuildHistory
<1>6. CASE Restart
  <2>1. ledger[b].control = "stopped" => ledger[b].stopAsked
    BY <1>1 DEF BuildHistory, TrackingIsSound
  <2>2. QED
    BY <1>1, <1>2, <1>6, <2>1, OthersKeepHistory DEF Restart, durable, tasks
<1>7. QED
  BY <1>3, <1>4, <1>5, <1>6 DEF Worker

-------------------------------------------------------------------------------
(* What AgentField was given is not forgotten *)

(***************************************************************************)
(* An execution that no step took into use, and that is not forgotten      *)
(* while nothing fails, stays sound.                                       *)
(***************************************************************************)
LEMMA GivenStays ==
    ASSUME Onward, NEW e \in Executions, GivenIsSound(e),
           execution[e].status = "unused" => execution'[e].status = "unused",
           execution'[e].status \in {"requested", "live"} =>
               execution[e].status \in {"requested", "live"},
           ASSUME crashes' = 0, faults' = 0, NotForgotten(e),
                  execution[e].build \in Builds,
                  execution'[e].build = execution[e].build,
                  execution[e].status \in {"requested", "live"},
                  execution'[e].status \in {"requested", "live"}
           PROVE  NotForgotten(e)'
    PROVE  GivenIsSound(e)'
<1> SUFFICES ASSUME execution'[e].status # "unused"
             PROVE  GivenIsSound(e)'
  BY DEF GivenIsSound
<1>1. execution[e].status # "unused" /\ execution'[e].build = execution[e].build
  BY DEF Onward, MovesOn
<1>2. execution[e].build \in Builds
  BY <1>1 DEF GivenIsSound
<1>3. crashes' = 0 /\ faults' = 0 => crashes = 0 /\ faults = 0
  BY DEF Onward
<1>4. QED
  BY <1>1, <1>2, <1>3 DEF GivenIsSound

(* The outside never makes the scheduler forget. *)
LEMMA EnvironmentKeepsGiven ==
    ASSUME HistoryInv, TypeOK', Environment, NEW e \in Executions
    PROVE  GivenIsSound(e)'
<1>1. TypeOK /\ GivenIsSound(e)
  BY DEF HistoryInv, QueueInv
<1>2. /\ Onward
      /\ execution[e].status \in {"unused"} \cup Ended => execution'[e] = execution[e]
  BY <1>1, EnvironmentOnward
<1>3. /\ UNCHANGED <<pc, sent>> /\ arrived <= arrived'
      /\ \A b \in Builds : /\ ledger'[b].execution = ledger[b].execution
                           /\ ledger'[b].verdict = ledger[b].verdict
  <2>1. ASSUME NEW c \in Builds, NEW signal \in {"running", "paused", "stopped"},
               Control(c, signal)
        PROVE  \A b \in Builds : /\ ledger'[b].execution = ledger[b].execution
                                 /\ ledger'[b].verdict = ledger[b].verdict
    BY <1>1, <2>1 DEF Control, TypeOK, LedgerEntry
  <2>2. ledger' = ledger \/ \E c \in Builds, signal \in {"running", "paused", "stopped"} :
                                Control(c, signal)
    BY DEF Environment, Enqueue, Accept, Conclude, LoseNode, CancelTakesEffect, durable
  <2>3. UNCHANGED <<pc, sent>> /\ (arrived' = arrived \/ arrived' = arrived + 1)
    BY DEF Environment, Enqueue, Control, Accept, Conclude, LoseNode, CancelTakesEffect,
       tasks, durable
  <2>4. QED
    BY <1>1, <2>1, <2>2, <2>3 DEF TypeOK
<1>4. execution'[e].status \in {"requested", "live"} =>
        execution[e].status \in {"requested", "live"}
  BY <1>1, <1>2 DEF TypeOK, ExecutionStatus, Environment, Enqueue, Control, Accept,
     Conclude, LoseNode, CancelTakesEffect, agentField, Ended
<1>5. ASSUME NotForgotten(e), execution[e].build \in Builds,
             execution'[e].build = execution[e].build
      PROVE  NotForgotten(e)'
  BY <1>1, <1>2, <1>3, <1>5 DEF NotForgotten, Pending, Onward, MovesOn, TypeOK, Builds
<1>6. QED
  BY <1>1, <1>2, <1>4, <1>5, GivenStays

(* The worker loop dismisses no build that has an execution, unless a      *)
(* failure came before.                                                    *)
LEMMA WorkerKeepsGiven ==
    ASSUME HistoryInv, TypeOK', Worker, NEW e \in Executions
    PROVE  GivenIsSound(e)'
<1> DEFINE b == execution[e].build
<1>1. TypeOK /\ GivenIsSound(e) /\ QueueInv
  BY DEF HistoryInv, QueueInv
<1>2. Onward /\ execution' = execution
  BY <1>1, WorkerOnward
<1>3. ASSUME crashes' = 0, faults' = 0, NotForgotten(e), b \in Builds
      PROVE  NotForgotten(e)'
  <2>1. crashes = 0 /\ faults = 0
    BY <1>2, <1>3 DEF Onward
  <2>2. ~Crash
    BY <1>1, <1>3, SchedulerConstants DEF Crash, TypeOK
  <2>3. sent' = sent /\ arrived' = arrived /\ (~HasNoTask(b) => pc'[b] = pc[b])
    BY <1>3, <2>2 DEF Worker, RunOnce, RunOnceRaises, Health, Restart, tasks, durable,
       HasNoTask, Dispatched, Waiting
  <2>4. CASE e \in cancels
    BY <1>2, <2>4 DEF Onward, NotForgotten
  <2>5. CASE pc[b] = "posting" /\ sent[b] = e
    BY <1>2, <2>3, <2>5 DEF NotForgotten, HasNoTask
  <2>6. CASE b \in Pending /\ ledger[b].execution = e
    <3>1. e # NoExecution
      BY SchedulerConstants
    <3>2. b \notin ToDismiss
      BY <2>1, <2>6, <3>1, DismissedIsSound
    <3>3. ledger'[b] = ledger[b]
      <4>1. ledger' = ledger \/ \E swept \in SUBSET ToDismiss : ledger' = Dismissed(swept)
        BY WorkerLedger
      <4>2. QED
        BY <1>3, <3>2, <4>1 DEF Dismissed, ToDismiss
    <3>4. QED
      BY <1>2, <2>3, <2>6, <3>3 DEF NotForgotten, Pending
  <2>7. QED
    BY <1>3, <2>4, <2>5, <2>6 DEF NotForgotten
<1>4. QED
  BY <1>1, <1>2, <1>3, GivenStays

(***************************************************************************)
(* A task that lets go of an execution has seen it end, or has asked       *)
(* AgentField to cancel it; only a failure makes it leave a live one.      *)
(***************************************************************************)
LEMMA TaskForgetsNothing ==
    ASSUME HistoryInv, TypeOK', NEW b \in Builds, TaskAction(b), NEW e \in Executions,
           execution[e].build = b, execution'[e].build = b, faults' = 0,
           execution[e].status \in {"requested", "live"},
           execution'[e].status \in {"requested", "live"},
           NotForgotten(e)
    PROVE  NotForgotten(e)'
<1>1. TypeOK /\ BuildInv(b) /\ BuildHistory(b)
  BY QueueInvByBuild DEF HistoryInv
<1>2. Onward /\ arrived' = arrived /\ faults = 0 /\ ~HasNoTask(b) /\ b \in Pending
  BY <1>1, TaskOnward, TaskStaysInFrame DEF Onward, TaskFrame, BuildInv
<1>3. e # NoExecution
  BY SchedulerConstants
<1>4. CASE e \in cancels
  BY <1>2, <1>4 DEF Onward, NotForgotten
<1>5. ~SubmitReplyLost(b) /\ ~TaskFails(b) /\ ~TaskVanishes(b)
  BY <1>2 DEF SubmitReplyLost, TaskFails, TaskVanishes
<1>6. CASE pc[b] = "posting" /\ sent[b] = e
  <2>1. SubmitAccepted(b) \/ SubmitRejected(b)
    BY <1>5, <1>6 DEF TaskAction, Submission, RunUntilDone, Ending, StartScoped, Start,
         SubmitBlocked, Submit, StopSeen, Stopped, PauseSeen, Continue, DeadlineExceeded,
         GoesOn, PollUnchanged, PollEnded, NoProgress, Expired, PostFinalStatus,
         FinishScoped, Retry, RecordTerminal, At
  <2>2. ~SubmitRejected(b)
    BY <1>1, <1>6 DEF SubmitRejected, TypeOK
  <2>3. ledger'[b] = [ledger[b] EXCEPT !.execution = e]
    BY <1>1, <1>6, <2>1, <2>2 DEF SubmitAccepted, TypeOK
  <2>4. ledger'[b].execution = e /\ ledger'[b].verdict = ledger[b].verdict
    BY <1>1, <2>3 DEF TypeOK, LedgerEntry
  <2>5. QED
    BY <1>2, <2>4 DEF NotForgotten, Pending
<1>7. CASE ledger[b].execution = e /\ e \notin cancels
  <2>1. Live(e) /\ execution[e].status # "cancelled_by_control_plane"
    BY <1>1, <1>3, <1>7 DEF BuildHistory, TrackingIsSound, Live, Ended
  <2>2. pc[b] # "deciding"
      \/ ~NothingRuns(b)
    BY <1>3, <1>7, <2>1 DEF NothingRuns
  <2>3. pc[b] # "deciding" /\ pc[b] # "posting"
    BY <1>1, <1>3, <1>7, <2>2 DEF BuildHistory, OutcomeIsSound, SubmittingIsSound
  <2>4. ~SubmitAccepted(b) /\ ~Retry(b) /\ ~RecordTerminal(b)
    BY <2>3 DEF SubmitAccepted, Retry, RecordTerminal, At
  <2>5. ledger'[b].execution = ledger[b].execution /\ ledger'[b].verdict = ledger[b].verdict
    BY <1>1, <1>5, <2>4
       DEF TaskAction, Submission, RunUntilDone, Ending, StartScoped, Start,
         SubmitBlocked, Submit, SubmitRejected, StopSeen, Stopped, PauseSeen, Continue,
         DeadlineExceeded, GoesOn, PollUnchanged, PollEnded, NoProgress, Expired,
         PostFinalStatus, FinishScoped, TypeOK, LedgerEntry, durable
  <2>6. QED
    BY <1>2, <1>7, <2>5 DEF NotForgotten, Pending
<1>8. QED
  BY <1>4, <1>6, <1>7 DEF NotForgotten

LEMMA TaskKeepsGiven ==
    ASSUME HistoryInv, TypeOK', NEW b \in Builds, TaskAction(b), NEW e \in Executions
    PROVE  GivenIsSound(e)'
<1>1. TypeOK /\ GivenIsSound(e)
  BY DEF HistoryInv, QueueInv
<1>2. /\ Onward
      /\ \/ GivesOut(b, e)
         \/ execution'[e] = execution[e]
         \/ /\ execution[e].status = "requested" /\ execution'[e].status = "rejected"
            /\ execution'[e].build = execution[e].build
  BY <1>1, TaskOnward
<1>3. CASE GivesOut(b, e)
  BY <1>3 DEF GivesOut, GivenIsSound, NotForgotten
<1>4. CASE ~GivesOut(b, e)
  <2> DEFINE c == execution[e].build
  <2>1. ASSUME crashes' = 0, faults' = 0, NotForgotten(e), c \in Builds,
               execution[e].status \in {"requested", "live"},
               execution'[e].status \in {"requested", "live"}
        PROVE  NotForgotten(e)'
    <3>1. execution'[e].build = c
      BY <1>2, <1>4
    <3>2. CASE c = b
      BY <2>1, <3>1, <3>2, TaskForgetsNothing
    <3>3. CASE c # b
      <4>1. /\ pc'[c] = pc[c] /\ ledger'[c] = ledger[c] /\ sent'[c] = sent[c]
            /\ arrived' = arrived
        BY <1>1, <2>1, <3>3, TaskStaysInFrame, TaskLeavesSent DEF TaskFrame
      <4>2. QED
        BY <1>2, <2>1, <3>1, <4>1 DEF NotForgotten, Pending, Onward
    <3>4. QED
      BY <3>2, <3>3
  <2>2. QED
    BY <1>1, <1>2, <1>4, <2>1, GivenStays
<1>5. QED
  BY <1>3, <1>4

-------------------------------------------------------------------------------
(* The invariant is inductive *)

LEMMA HistoryInvInit == Init => HistoryInv
<1> SUFFICES ASSUME Init PROVE HistoryInv
  OBVIOUS
<1>1. QueueInv
  BY QueueInvInit
<1>2. ASSUME NEW b \in Builds
      PROVE  BuildHistory(b)
  BY DEF Init, BuildHistory, TrackingIsSound, SubmittingIsSound, FollowingIsSound,
     OutcomeIsSound, Justified, NothingRuns, NewEntry, NewRecord, Following, Terminal
<1>3. ASSUME NEW e \in Executions
      PROVE  GivenIsSound(e)
  BY DEF Init, GivenIsSound
<1>4. QED
  BY <1>1, <1>2, <1>3 DEF HistoryInv

LEMMA HistoryInvStep ==
    ASSUME HistoryInv, [Next]_vars
    PROVE  HistoryInv'
<1>1. QueueInv' /\ TypeOK'
  BY QueueInvStep DEF HistoryInv, QueueInv
<1>2. CASE Environment
  BY <1>1, <1>2, EnvironmentKeepsHistory, EnvironmentKeepsGiven DEF HistoryInv
<1>3. CASE Worker
  BY <1>1, <1>3, WorkerKeepsHistory, WorkerKeepsGiven DEF HistoryInv
<1>4. ASSUME NEW b \in Builds, TaskAction(b)
      PROVE  HistoryInv'
  BY <1>1, <1>4, TaskKeepsHistory, TaskKeepsGiven DEF HistoryInv
<1>5. CASE UNCHANGED vars
  <2>1. UNCHANGED <<arrived, ledger, pc, record, sent, execution, cancels, crashes, faults>>
    BY <1>5 DEF vars, durable, tasks, agentField, bounds
  <2>2. \A b \in Builds : BuildHistory(b)'
    BY <2>1 DEF HistoryInv, BuildHistory, TrackingIsSound, SubmittingIsSound,
       FollowingIsSound, OutcomeIsSound, Justified, NothingRuns, Live, HasNoTask
  <2>3. \A e \in Executions : GivenIsSound(e)'
    BY <2>1 DEF HistoryInv, GivenIsSound, NotForgotten, Pending
  <2>4. QED
    BY <1>1, <2>2, <2>3 DEF HistoryInv
<1>6. QED
  BY <1>2, <1>3, <1>4, <1>5 DEF Next, TaskAction

-------------------------------------------------------------------------------
(* Theorems *)

(***************************************************************************)
(* Whatever crashes, fails, is stopped or is retried: what the ledger and  *)
(* the tasks hold of an execution is true of AgentField, and an outcome is *)
(* justified before it is written (_run_request, run_until_done).          *)
(***************************************************************************)
THEOREM HistoryInvariant == Spec => []HistoryInv
<1>1. HistoryInv /\ [Next]_vars => HistoryInv'
  BY HistoryInvStep
<1>2. QED
  BY HistoryInvInit, <1>1, PTL DEF Spec

(***************************************************************************)
(* A followed execution is the one the ledger names, and this build's own: *)
(* what a restart would rebuild (_run_request against load_build).         *)
(***************************************************************************)
THEOREM MemoryIsLedger == Spec => []MemoryMatchesLedger
<1>1. HistoryInv => MemoryMatchesLedger
  BY DEF HistoryInv, BuildHistory, FollowingIsSound, TrackingIsSound, MemoryMatchesLedger
<1>2. QED
  BY HistoryInvariant, <1>1, PTL

(***************************************************************************)
(* A build with a verdict has no execution that runs on untold, but for a  *)
(* failed task, and a stop that met the build in the queue after a crash   *)
(* (_record_terminal, run_once).                                           *)
(***************************************************************************)
THEOREM NothingLeftRunning == Spec => []VerdictLeavesNothingRunning
<1>1. HistoryInv => VerdictLeavesNothingRunning
  BY DEF HistoryInv, BuildHistory, OutcomeIsSound, NothingRuns, VerdictLeavesNothingRunning
<1>2. QED
  BY HistoryInvariant, <1>1, PTL

(***************************************************************************)
(* Without crashes and faults AgentField works on nothing the scheduler    *)
(* has forgotten (submit, run_until_done, run_once).                       *)
(***************************************************************************)
THEOREM NoStray == Spec => []NoStrayWithoutFailure
<1>1. HistoryInv => NoStrayWithoutFailure
  BY DEF HistoryInv, GivenIsSound, NotForgotten, Live, NoStrayWithoutFailure
<1>2. QED
  BY HistoryInvariant, <1>1, PTL

(***************************************************************************)
(* A complete build has an execution of its own that succeeded, however    *)
(* often it was resubmitted (update_record_from_execution, load_build).    *)
(***************************************************************************)
THEOREM CompleteEarned == Spec => []CompleteIsEarned
<1>1. HistoryInv => CompleteIsEarned
  <2> SUFFICES ASSUME HistoryInv, NEW b \in Builds \ Scoped, ledger[b].verdict = "complete"
               PROVE  /\ ledger[b].execution # NoExecution
                      /\ execution[ledger[b].execution]
                            = [build |-> b, status |-> "succeeded"]
    BY DEF CompleteIsEarned
  <2> DEFINE e == ledger[b].execution
  <2>1. TypeOK /\ BuildHistory(b)
    BY DEF HistoryInv, QueueInv
  <2>2. e # NoExecution /\ execution[e].status = "succeeded" /\ execution[e].build = b
    BY <2>1 DEF BuildHistory, OutcomeIsSound, Justified, TrackingIsSound
  <2>3. e \in Executions
    BY <2>1, <2>2, EntryType DEF TypeOK
  <2>4. execution[e] \in [build : 0 .. MaxBuilds, status : ExecutionStatus]
    BY <2>1, <2>3 DEF TypeOK
  <2>5. QED
    BY <2>2, <2>4
<1>2. QED
  BY HistoryInvariant, <1>1, PTL

(***************************************************************************)
(* A stopped build was stopped by its owner, or its execution was          *)
(* cancelled (request_stop, update_record_from_execution).                 *)
(***************************************************************************)
THEOREM StoppedCaused == Spec => []StoppedHasACause
<1>1. HistoryInv => StoppedHasACause
  BY DEF HistoryInv, BuildHistory, OutcomeIsSound, Justified, Stops, StoppedHasACause
<1>2. QED
  BY HistoryInvariant, <1>1, PTL

(* No step but Submit takes an execution into use. *)
LEMMA UnusedStep ==
    ASSUME HistoryInv, [Next]_vars, NEW e \in Executions,
           execution[e].status = "unused", execution'[e].status # "unused"
    PROVE  \E b \in Builds : TaskAction(b) /\ GivesOut(b, e)
<1>1. TypeOK
  BY DEF HistoryInv, QueueInv
<1>2. ~Environment
  BY <1>1, EnvironmentOnward
<1>3. ~Worker
  BY <1>1, WorkerOnward
<1>4. ~UNCHANGED vars
  BY DEF vars, agentField
<1>5. PICK b \in Builds : TaskAction(b)
  BY <1>2, <1>3, <1>4 DEF Next, TaskAction
<1>6. QED
  BY <1>1, <1>5, TaskOnward

(***************************************************************************)
(* A submission leaves only for a pending build whose ledger names no      *)
(* execution: a restart adopts what it finds (load_build, submit).         *)
(***************************************************************************)
THEOREM SubmitsUntracked == Spec => SubmitsOnlyUntracked
<1>1. ASSUME HistoryInv, [Next]_vars, NEW e \in Executions,
             execution[e].status = "unused", execution'[e].status # "unused"
      PROVE  /\ ledger[execution'[e].build].verdict = "none"
             /\ ledger[execution'[e].build].execution = NoExecution
  <2>1. PICK b \in Builds : GivesOut(b, e)
    BY <1>1, UnusedStep
  <2>2. BuildInv(b) /\ BuildHistory(b)
    BY <1>1, QueueInvByBuild DEF HistoryInv
  <2>3. QED
    BY <2>1, <2>2 DEF GivesOut, BuildInv, HasNoTask, Pending, BuildHistory,
       SubmittingIsSound
<1>2. HistoryInv /\ [Next]_vars =>
        [\A e \in Executions :
            execution[e].status = "unused" /\ execution'[e].status # "unused" =>
                LET b == execution'[e].build
                IN  /\ ledger[b].verdict = "none"
                    /\ ledger[b].execution = NoExecution]_vars
  BY <1>1
<1>3. QED
  BY HistoryInvariant, <1>2, PTL DEF Spec, SubmitsOnlyUntracked

(* What a step can do to the execution the ledger names. *)
LEMMA TrackedStep ==
    ASSUME HistoryInv, [Next]_vars, NEW b \in Builds,
           ledger[b].execution # NoExecution, ledger'[b].execution # ledger[b].execution
    PROVE  Retry(b)
<1>1. TypeOK /\ (\A c \in Builds : BuildHistory(c))
  BY DEF HistoryInv, QueueInv
<1>2. ~Environment
  <2>1. ASSUME NEW c \in Builds, NEW signal \in {"running", "paused", "stopped"},
               Control(c, signal)
        PROVE  FALSE
    BY <1>1, <2>1 DEF Control, TypeOK, LedgerEntry
  <2>2. QED
    BY <2>1 DEF Environment, Enqueue, Accept, Conclude, LoseNode, CancelTakesEffect, durable
<1>3. ~Worker
  BY <1>1, WorkerLedger, DismissedFields
<1>4. ledger' # ledger /\ ~UNCHANGED vars
  BY DEF vars, durable
<1>5. PICK c \in Builds : TaskAction(c)
  BY <1>2, <1>3, <1>4 DEF Next, TaskAction
<1>6. c = b
  BY <1>1, <1>5, TaskStaysInFrame DEF TaskFrame
<1>7. ~SubmitAccepted(b)
  BY <1>1 DEF SubmitAccepted, At, BuildHistory, SubmittingIsSound
<1>8. CASE Submission(b)
  BY <1>1, <1>4, <1>7, <1>8 DEF Submission, StartScoped, Start, SubmitBlocked, Submit,
     SubmitRejected, SubmitReplyLost, durable, TypeOK, LedgerEntry
<1>9. CASE RunUntilDone(b)
  BY <1>1, <1>4, <1>9 DEF RunUntilDone, StopSeen, Stopped, PauseSeen, Continue,
     DeadlineExceeded, GoesOn, PollUnchanged, PollEnded, NoProgress, Expired,
     PostFinalStatus, FinishScoped, durable, TypeOK, LedgerEntry
<1>10. CASE RecordTerminal(b) \/ TaskFails(b) \/ TaskVanishes(b)
  BY <1>1, <1>4, <1>10, WithVerdictFields DEF RecordTerminal, TaskFails, TaskVanishes,
     durable, TypeOK
<1>11. QED
  BY <1>5, <1>6, <1>8, <1>9, <1>10 DEF TaskAction, Ending

(***************************************************************************)
(* The ledger lets go of an execution only to retry after a lost node, and *)
(* not when the owner wants a stop (_retryable_infrastructure_stop).       *)
(***************************************************************************)
THEOREM GivesUpLost == Spec => GivesUpOnlyLostNodes
<1>1. ASSUME HistoryInv, [Next]_vars, NEW b \in Builds,
             ledger[b].execution # NoExecution, ledger'[b].execution # ledger[b].execution
      PROVE  /\ execution[ledger[b].execution].status = "cancelled_by_control_plane"
             /\ ledger'[b].execution = NoExecution
             /\ ledger[b].control # "stopped"
  <2>1. Retry(b)
    BY <1>1, TrackedStep
  <2>2. TypeOK /\ BuildHistory(b)
    BY <1>1 DEF HistoryInv, QueueInv
  <2>3. ledger'[b].execution = NoExecution
    BY <2>1, <2>2 DEF Retry, TypeOK, LedgerEntry
  <2>4. QED
    BY <2>1, <2>2, <2>3 DEF Retry, RetryIsDue, BuildHistory, FollowingIsSound
<1>2. HistoryInv /\ [Next]_vars =>
        [\A b \in Builds :
            ledger[b].execution # NoExecution
                /\ ledger'[b].execution # ledger[b].execution =>
                /\ execution[ledger[b].execution].status = "cancelled_by_control_plane"
                /\ ledger'[b].execution = NoExecution
                /\ ledger[b].control # "stopped"]_vars
  BY <1>1
<1>3. QED
  BY HistoryInvariant, <1>2, PTL DEF Spec, GivesUpOnlyLostNodes
===============================================================================
