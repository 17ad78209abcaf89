--------------------------- MODULE Scoped_proofs ---------------------------
(***************************************************************************)
(* Proofs about scoped builds, for any number of them, of repairs, crashes *)
(* and interventions, any budgets and any window.  FactoryInv is carried   *)
(* with three facts it does not say: a run that is over has an outcome (or *)
(* its build is stopped), a run that publishes has pushed and has no pull  *)
(* request yet, and no refusal is newer than the report of it.             *)
(*                                                                         *)
(* What calls cost is carried on top of that, and needs two more things:   *)
(* what the recursive WindowUsage adds up to, and open calls counted as    *)
(* the tokens of a finite set, one of which every call uses up.            *)
(***************************************************************************)
EXTENDS Scoped, WellFoundedInduction, FiniteSetTheorems, TLAPS

USE CapacityAssumption, ScopedAssumption

(* What the invariant says of one build. *)
Sound(b) ==
    /\ pc[b] \in {"reviewing", "delivering"} =>
            work[b].tested = work[b].tree /\ work[b].suite # "failed"
    /\ pc[b] = "delivering" => work[b].approved = work[b].head
    /\ remote[b].pushed =>
            /\ remote[b].approved = remote[b].head
            /\ remote[b].suite = "passed"
            /\ remote[b].tested = remote[b].head \/ remote[b].tree # remote[b].head
    /\ pc[b] = "ended" <=> state[b] # "queued"
    /\ pc[b] \in {"waiting", "ended"} => work[b] = NoWork
    /\ remote[b].pr => remote[b].pushed /\ remote[b].head # 0
    /\ remote[b].merged => remote[b].pr
    /\ work[b].past /\ pc[b] # "publishing" => remote[b].merged
    /\ pc[b] = "finishing" => b \in stopped \/ work[b].outcome \in {"complete", "blocked", "failed"}
    /\ pc[b] = "publishing" => remote[b].pushed /\ ~remote[b].pr
    /\ pc[b] = "testing" => work[b].repairs <= MaxRepairs
    /\ pc[b] = "repairing" => work[b].repairs < MaxRepairs

Reported == \A h \in Harness : refused[h] <= limited[h] /\ limited[h] <= clock

IInv == TypeOK /\ (\A b \in Build : Sound(b)) /\ Reported


(* A step of one build leaves the others as they are. *)
Apart(b) ==
    /\ \A c \in Build \ {b} : /\ pc'[c] = pc[c] /\ work'[c] = work[c]
                              /\ remote'[c] = remote[c] /\ state'[c] = state[c]
    /\ stopped' = stopped

LEMMA Others ==
  ASSUME NEW b \in Build, \A c \in Build : Sound(c), Apart(b), Sound(b)'
  PROVE  \A c \in Build : Sound(c)'
  <1>1. ASSUME NEW c \in Build \ {b} PROVE Sound(c)'
    <2>1. Sound(c)
      OBVIOUS
    <2> QED BY <2>1 DEF Apart, Sound
  <1> QED BY <1>1

(* Calls touch the accounts and nothing else that is shared. *)
LEMMA Calls ==
  ASSUME TypeOK, Reported, NEW h \in Harness, NEW answer \in Answer, Invoke(h, answer)
  PROVE  /\ TypeOKCapacity' /\ refused' \in [Harness -> Nat] /\ events' \in Nat
         /\ Reported'
         /\ UNCHANGED <<clock, cleared, events, stopped, state, remote>>
  <1>1. spent' \in [Harness -> [1..MaxClock -> Nat]]
    <2> DEFINE cost == IF answer = "ok" THEN Cost[h] ELSE 0
    <2>1. cost \in Nat
      OBVIOUS
    <2>2. spent' = [spent EXCEPT ![h][clock] = @ + cost]
      BY DEF Invoke, RecordUsage
    <2> HIDE DEF cost
    <2>3. spent[h] \in [1..MaxClock -> Nat] /\ clock \in 1..MaxClock
      BY DEF TypeOK, TypeOKCapacity
    <2>4. spent[h][clock] + cost \in Nat
      BY <2>1, <2>3
    <2>5. [spent[h] EXCEPT ![clock] = @ + cost] \in [1..MaxClock -> Nat]
      BY <2>3, <2>4
    <2>6. spent' = [spent EXCEPT ![h] = [spent[h] EXCEPT ![clock] = @ + cost]]
      BY <2>2
    <2> QED BY <2>5, <2>6 DEF TypeOK, TypeOKCapacity
  <1>2. UNCHANGED <<clock, cleared, events, stopped, state, remote>>
    BY DEF Invoke
  <1>3. CASE answer = "rate_limited"
    <2>1. limited' = [limited EXCEPT ![h] = clock] /\ refused' = [refused EXCEPT ![h] = clock]
      BY <1>3 DEF Invoke, NoteLimited
    <2>2. clock \in Nat /\ refused \in [Harness -> Nat] /\ limited \in [Harness -> Nat]
      BY DEF TypeOK, TypeOKCapacity
    <2>3. Reported'
      BY <1>2, <2>1, <2>2 DEF Reported
    <2> QED BY <1>1, <1>2, <2>1, <2>2, <2>3 DEF TypeOK, TypeOKCapacity
  <1>4. CASE answer # "rate_limited"
    <2>1. UNCHANGED <<limited, refused>>
      BY <1>4 DEF Invoke
    <2> QED BY <1>1, <1>2, <2>1 DEF TypeOK, TypeOKCapacity, Reported
  <1> QED BY <1>3, <1>4

LEMMA OverRecord ==
  ASSUME NEW t \in {"complete", "blocked", "failed"}
  PROVE  /\ [NoWork EXCEPT !.outcome = t] \in WorkRecord
         /\ [NoWork EXCEPT !.outcome = t].outcome = t
         /\ ~[NoWork EXCEPT !.outcome = t].past
  <1>1. NoWork \in WorkRecord /\ ~NoWork.past
    BY DEF NoWork, WorkRecord, Harness, Status
  <1> HIDE DEF NoWork
  <1> QED BY <1>1 DEF WorkRecord

LEMMA ResultOf ==
  ASSUME NEW b \in Build, NEW outcome, TypeOK, Result(b, outcome)
  PROVE  /\ pc' = [pc EXCEPT ![b] = "finishing"]
         /\ \A c \in Build \ {b} : work'[c] = work[c]
         /\ work' \in [Build -> WorkRecord]
         /\ work'[b].outcome \in {"complete", "blocked", "failed"} /\ ~work'[b].past
  <1> DEFINE w == [NoWork EXCEPT !.outcome = Terminal(outcome)]
  <1>1. Terminal(outcome) \in {"complete", "blocked", "failed"}
    BY DEF Terminal
  <1>2. w \in WorkRecord /\ w.outcome = Terminal(outcome) /\ ~w.past
    BY <1>1, OverRecord
  <1>3. pc' = [pc EXCEPT ![b] = "finishing"] /\ work' = [work EXCEPT ![b] = w]
    BY DEF Result, Goto
  <1> HIDE DEF w
  <1> QED BY <1>1, <1>2, <1>3 DEF TypeOK

LEMMA InitIInv == Init => IInv
  <1> SUFFICES ASSUME Init PROVE IInv
    OBVIOUS
  <1> USE DEF Init, InitCapacity
  <1>1. TypeOK
    <2>1. NoWork \in WorkRecord /\ Absent \in Branch
      BY DEF WorkRecord, NoWork, Branch, Absent, Harness, Status
    <2>2. TypeOKCapacity
      BY DEF TypeOKCapacity
    <2> QED BY <2>1, <2>2 DEF TypeOK
  <1>2. \A b \in Build : Sound(b)
    BY DEF Sound, Absent, NoWork
  <1>3. Reported
    BY DEF Reported
  <1> QED BY <1>1, <1>2, <1>3 DEF IInv

(* What a step of one build has to show. *)
Keeps(b) == TypeOK' /\ Sound(b)' /\ Apart(b) /\ Reported'

LEMMA QuietKeeps ==
  ASSUME IInv, Quiet
  PROVE  /\ TypeOKCapacity' /\ refused' \in [Harness -> Nat] /\ events' \in Nat
         /\ Reported'
         /\ state' = state /\ stopped' = stopped
  BY DEF IInv, Quiet, TypeOK, TypeOKCapacity, Reported, capacityVars

(* A run that is over leaves what it had to the last step. *)
LEMMA ResultKeeps ==
  ASSUME IInv, NEW b \in Build, NEW outcome, Result(b, outcome),
         pc[b] # "ended", TypeOKCapacity', refused' \in [Harness -> Nat], events' \in Nat,
         Reported', state' = state, stopped' = stopped,
         remote' \in [Build -> Branch],
         \A c \in Build \ {b} : remote'[c] = remote[c],
         remote'[b].pushed = remote[b].pushed,
         remote'[b] = [remote[b] EXCEPT !.pr = remote'[b].pr],
         remote'[b].pr => remote[b].pushed /\ remote[b].head # 0,
         remote[b].merged => remote'[b].pr
  PROVE  Keeps(b)
  <1>0. TypeOK /\ Sound(b)
    BY DEF IInv
  <1>1. /\ pc' = [pc EXCEPT ![b] = "finishing"]
        /\ \A c \in Build \ {b} : work'[c] = work[c]
        /\ work' \in [Build -> WorkRecord]
        /\ work'[b].outcome \in {"complete", "blocked", "failed"} /\ ~work'[b].past
    BY <1>0, ResultOf
  <1>2. /\ remote'[b].approved = remote[b].approved /\ remote'[b].head = remote[b].head
        /\ remote'[b].suite = remote[b].suite /\ remote'[b].tested = remote[b].tested
        /\ remote'[b].tree = remote[b].tree /\ remote'[b].merged = remote[b].merged
    BY <1>0 DEF TypeOK, Branch
  <1>3. TypeOK'
    BY <1>0, <1>1 DEF TypeOK, Running
  <1>4. Apart(b)
    BY <1>0, <1>1 DEF TypeOK, Apart
  <1>5. Sound(b)'
    BY <1>0, <1>1, <1>2 DEF TypeOK, Sound
  <1> QED BY <1>3, <1>4, <1>5 DEF Keeps

LEMMA BeginStep ==
  ASSUME IInv, NEW b \in Build, NEW cloned \in BOOLEAN, Begin(b, cloned)
  PROVE  Keeps(b)
  <1> DEFINE free == {h \in Harness : Available(h, Only)}
  <1>0. TypeOK /\ Sound(b)
    BY DEF IInv
  <1>1. /\ Quiet /\ remote' = remote /\ pc[b] = "waiting"
        /\ IF b \in stopped THEN Goto(b, "finishing") /\ UNCHANGED work
           ELSE IF free = {} THEN Result(b, "blocked")
           ELSE IF ~cloned THEN Result(b, "workspace_failed")
           ELSE /\ Goto(b, "implementing")
                /\ work' = [work EXCEPT
                     ![b].implementer = First(free),
                     ![b].reviewer = IF free = Harness THEN "codex" ELSE First(free),
                     ![b].past = remote[b].merged]
    BY DEF Begin
  <1> HIDE DEF free
  <1>2. First(free) \in Harness
    BY DEF First, Harness
  <1>3. /\ TypeOKCapacity' /\ refused' \in [Harness -> Nat] /\ events' \in Nat /\ Reported'
        /\ state' = state /\ stopped' = stopped
    BY <1>1, QuietKeeps
  <1>4. CASE b \in stopped
    <2>1. pc' = [pc EXCEPT ![b] = "finishing"] /\ work' = work
      BY <1>1, <1>4 DEF Goto
    <2> QED BY <1>0, <1>1, <1>3, <1>4, <2>1 DEF Keeps, TypeOK, Sound, Apart, Running
  <1>5. ASSUME NEW outcome, Result(b, outcome) PROVE Keeps(b)
    <2>1. /\ remote[b] = [remote[b] EXCEPT !.pr = remote[b].pr]
          /\ remote[b].pr => remote[b].pushed /\ remote[b].head # 0
          /\ remote[b].merged => remote[b].pr
      BY <1>0 DEF TypeOK, Branch, Sound
    <2> QED BY <1>0, <1>1, <1>3, <1>5, <2>1, ResultKeeps DEF TypeOK
  <1>6. CASE /\ b \notin stopped
             /\ Goto(b, "implementing")
             /\ work' = [work EXCEPT
                  ![b].implementer = First(free),
                  ![b].reviewer = IF free = Harness THEN "codex" ELSE First(free),
                  ![b].past = remote[b].merged]
    <2> DEFINE w == [work[b] EXCEPT !.implementer = First(free),
                                    !.reviewer = IF free = Harness THEN "codex" ELSE First(free),
                                    !.past = remote[b].merged]
    <2>1. w \in WorkRecord /\ w.past = remote[b].merged
      <3>1. work[b] \in WorkRecord
        BY <1>0 DEF TypeOK
      <3>2. (IF free = Harness THEN "codex" ELSE First(free)) \in Harness
        BY <1>2 DEF Harness
      <3>3. remote[b].merged \in BOOLEAN
        BY <1>0 DEF TypeOK, Branch
      <3> QED BY <1>2, <3>1, <3>2, <3>3 DEF WorkRecord
    <2>2. work' = [work EXCEPT ![b] = w]
      BY <1>6
    <2> HIDE DEF w
    <2>3. pc' = [pc EXCEPT ![b] = "implementing"]
      BY <1>6 DEF Goto
    <2> QED BY <1>0, <1>1, <1>3, <2>1, <2>2, <2>3 DEF Keeps, TypeOK, Sound, Apart, Running
  <1> QED BY <1>1, <1>4, <1>5, <1>6

(* The steps that call a harness: what is left to show is about b alone. *)
LEMMA CallKeeps ==
  ASSUME IInv, NEW b \in Build, NEW h \in Harness, NEW answer \in Answer, Invoke(h, answer),
         pc[b] \in {"implementing", "repairing", "reviewing"},
         \/ \E outcome : Result(b, outcome)
         \/ \E where \in Running, w \in WorkRecord :
               /\ pc' = [pc EXCEPT ![b] = where]
               /\ work' = [work EXCEPT ![b] = w] /\ w.past = work[b].past
               /\ \/ where = "testing" /\ w.repairs <= MaxRepairs
                  \/ /\ where = "delivering" /\ pc[b] = "reviewing"
                     /\ w.approved = work[b].head /\ w.head = work[b].head
                     /\ w.tested = work[b].tested /\ w.tree = work[b].tree
                     /\ w.suite = work[b].suite
  PROVE  Keeps(b)
  <1>0. TypeOK /\ Sound(b) /\ Reported
    BY DEF IInv
  <1>1. /\ TypeOKCapacity' /\ refused' \in [Harness -> Nat] /\ events' \in Nat /\ Reported'
        /\ state' = state /\ stopped' = stopped /\ remote' = remote
    BY <1>0, Calls
  <1>2. ASSUME NEW outcome, Result(b, outcome) PROVE Keeps(b)
    <2>1. /\ remote[b] = [remote[b] EXCEPT !.pr = remote[b].pr]
          /\ remote[b].pr => remote[b].pushed /\ remote[b].head # 0
          /\ remote[b].merged => remote[b].pr
      BY <1>0 DEF TypeOK, Branch, Sound
    <2> QED BY <1>0, <1>1, <1>2, <2>1, ResultKeeps DEF TypeOK
  <1>3. ASSUME NEW where \in Running, NEW w \in WorkRecord,
               pc' = [pc EXCEPT ![b] = where], work' = [work EXCEPT ![b] = w],
               w.past = work[b].past,
               \/ where = "testing" /\ w.repairs <= MaxRepairs
               \/ /\ where = "delivering" /\ pc[b] = "reviewing"
                  /\ w.approved = work[b].head /\ w.head = work[b].head
                  /\ w.tested = work[b].tested /\ w.tree = work[b].tree
                  /\ w.suite = work[b].suite
        PROVE  Keeps(b)
    <2>1. pc'[b] = where /\ work'[b] = w
      BY <1>0, <1>3 DEF TypeOK
    <2>2. TypeOK'
      BY <1>0, <1>1, <1>3 DEF TypeOK
    <2>3. Apart(b)
      BY <1>0, <1>1, <1>3 DEF TypeOK, Apart
    <2>4. Sound(b)'
      BY <1>0, <1>1, <1>3, <2>1 DEF Sound
    <2> QED BY <1>1, <2>2, <2>3, <2>4 DEF Keeps
  <1> QED BY <1>2, <1>3

(* A new version of the files is another record. *)
LEMMA WriteOf ==
  ASSUME TypeOK, NEW b \in Build, NEW committed \in BOOLEAN, NEW n \in Nat,
         Write(b, committed, n)
  PROVE  \E w \in WorkRecord :
            /\ work' = [work EXCEPT ![b] = w] /\ w.repairs = n
            /\ w.implementer = work[b].implementer /\ w.reviewer = work[b].reviewer
            /\ w.past = work[b].past
  <1> DEFINE v == 1 + IF work[b].tree > remote[b].tree THEN work[b].tree ELSE remote[b].tree
             h == IF committed THEN v ELSE work[b].head
             w == [work[b] EXCEPT !.tree = v, !.repairs = n, !.head = h]
  <1>1. work[b] \in WorkRecord /\ remote[b] \in Branch
    BY DEF TypeOK
  <1>2. v \in Nat
    <2>1. work[b].tree \in Nat /\ remote[b].tree \in Nat
      BY <1>1 DEF WorkRecord, Branch
    <2> QED BY <2>1
  <1>3. work' = [work EXCEPT ![b] = w]
    BY DEF Write
  <1> HIDE DEF v
  <1>4. h \in Nat
    BY <1>1, <1>2 DEF WorkRecord
  <1> HIDE DEF h
  <1>5. /\ w \in WorkRecord /\ w.repairs = n
        /\ w.implementer = work[b].implementer /\ w.reviewer = work[b].reviewer
        /\ w.past = work[b].past
    BY <1>1, <1>2, <1>4 DEF WorkRecord
  <1> QED BY <1>3, <1>5

LEMMA RepairedOf ==
  ASSUME TypeOK, NEW b \in Build, NEW changed \in BOOLEAN, NEW committed \in BOOLEAN,
         IF changed THEN Write(b, committed, work[b].repairs + 1)
         ELSE work' = [work EXCEPT ![b].repairs = work[b].repairs + 1]
  PROVE  \E w \in WorkRecord :
            /\ work' = [work EXCEPT ![b] = w] /\ w.repairs = work[b].repairs + 1
            /\ w.implementer = work[b].implementer /\ w.reviewer = work[b].reviewer
            /\ w.past = work[b].past
  <1> DEFINE k == work[b].repairs + 1
             w == [work[b] EXCEPT !.repairs = k]
  <1>1. work[b] \in WorkRecord /\ work[b].repairs \in Nat /\ k \in Nat
    <2>1. work[b] \in WorkRecord
      BY DEF TypeOK
    <2>2. work[b].repairs \in Nat
      BY <2>1 DEF WorkRecord
    <2> QED BY <2>1, <2>2
  <1>2. CASE changed
    BY <1>1, <1>2, WriteOf
  <1>3. CASE ~changed
    <2>1. work' = [work EXCEPT ![b] = w]
      BY <1>3
    <2> HIDE DEF k
    <2>2. /\ w \in WorkRecord /\ w.repairs = k
          /\ w.implementer = work[b].implementer /\ w.reviewer = work[b].reviewer
          /\ w.past = work[b].past
      BY <1>1 DEF WorkRecord
    <2> QED BY <2>1, <2>2 DEF k
  <1> QED BY <1>2, <1>3

LEMMA ImplementStep ==
  ASSUME IInv, NEW b \in Build, NEW answer \in Answer, NEW changed \in BOOLEAN,
         NEW committed \in BOOLEAN, Implement(b, answer, changed, committed)
  PROVE  Keeps(b)
  <1>1. TypeOK /\ work[b].implementer \in Harness
    BY DEF IInv, TypeOK, WorkRecord
  <1>2. pc[b] = "implementing" /\ Invoke(work[b].implementer, answer)
    BY DEF Implement
  <1>3. CASE Write(b, committed, 0) /\ Goto(b, "testing")
    <2>1. PICK w \in WorkRecord :
             work' = [work EXCEPT ![b] = w] /\ w.repairs = 0 /\ w.past = work[b].past
      BY <1>1, <1>3, WriteOf
    <2>3. w.repairs <= MaxRepairs
      BY <2>1
    <2>2. pc' = [pc EXCEPT ![b] = "testing"] /\ "testing" \in Running
      BY <1>3 DEF Goto, Running
    <2> QED BY <1>1, <1>2, <2>1, <2>2, <2>3, CallKeeps
  <1>4. CASE \E outcome : Result(b, outcome)
    BY <1>1, <1>2, <1>4, CallKeeps
  <1> QED BY <1>3, <1>4 DEF Implement

LEMMA RepairStep ==
  ASSUME IInv, NEW b \in Build, NEW answer \in Answer, NEW changed \in BOOLEAN,
         NEW committed \in BOOLEAN, Repair(b, answer, changed, committed)
  PROVE  Keeps(b)
  <1>1. TypeOK /\ work[b] \in WorkRecord /\ work[b].implementer \in Harness /\ work[b].repairs \in Nat
    BY DEF IInv, TypeOK, WorkRecord
  <1>2. pc[b] = "repairing" /\ Invoke(work[b].implementer, answer)
    BY DEF Repair
  <1>3. CASE Result(b, "tests_failed")
    BY <1>1, <1>2, <1>3, CallKeeps
  <1>4. CASE /\ Goto(b, "testing")
             /\ IF changed THEN Write(b, committed, work[b].repairs + 1)
                ELSE work' = [work EXCEPT ![b].repairs = work[b].repairs + 1]
    <2>1. PICK w \in WorkRecord : /\ work' = [work EXCEPT ![b] = w]
                                  /\ w.repairs = work[b].repairs + 1 /\ w.past = work[b].past
      BY <1>1, <1>4, RepairedOf
    <2>2. w.repairs <= MaxRepairs
      BY <1>1, <1>2, <2>1 DEF IInv, Sound
    <2>3. pc' = [pc EXCEPT ![b] = "testing"] /\ "testing" \in Running
      BY <1>4 DEF Goto, Running
    <2> QED BY <1>1, <1>2, <2>1, <2>2, <2>3, CallKeeps
  <1> QED BY <1>3, <1>4 DEF Repair

LEMMA ReviewStep ==
  ASSUME IInv, NEW b \in Build, NEW answer \in Answer, NEW verdict, Review(b, answer, verdict)
  PROVE  Keeps(b)
  <1>1. work[b] \in WorkRecord /\ work[b].reviewer \in Harness
    BY DEF IInv, TypeOK, WorkRecord
  <1>2. pc[b] = "reviewing" /\ Invoke(work[b].reviewer, answer)
    BY DEF Review
  <1>3. CASE Goto(b, "delivering") /\ work' = [work EXCEPT ![b].approved = work[b].head]
    <2> DEFINE w == [work[b] EXCEPT !.approved = work[b].head]
    <2>1. /\ w \in WorkRecord /\ w.approved = work[b].head /\ w.head = work[b].head
          /\ w.tested = work[b].tested /\ w.tree = work[b].tree /\ w.suite = work[b].suite
          /\ w.past = work[b].past
      BY <1>1 DEF WorkRecord
    <2>2. work' = [work EXCEPT ![b] = w]
      BY <1>3
    <2> HIDE DEF w
    <2>3. pc' = [pc EXCEPT ![b] = "delivering"] /\ "delivering" \in Running
      BY <1>3 DEF Goto, Running
    <2> QED BY <1>1, <1>2, <2>1, <2>2, <2>3, CallKeeps
  <1>4. CASE \E outcome : Result(b, outcome)
    BY <1>1, <1>2, <1>4, CallKeeps
  <1> QED BY <1>3, <1>4 DEF Review

LEMMA TestStep ==
  ASSUME IInv, NEW b \in Build, NEW status \in Status, Test(b, status)
  PROVE  Keeps(b)
  <1>0. TypeOK /\ Sound(b) /\ pc[b] = "testing" /\ Quiet /\ remote' = remote
    BY DEF IInv, Test
  <1>1. /\ TypeOKCapacity' /\ refused' \in [Harness -> Nat] /\ events' \in Nat /\ Reported'
        /\ state' = state /\ stopped' = stopped
    BY <1>0, QuietKeeps
  <1>2. CASE Result(b, "tests_failed")
    <2>1. /\ remote[b] = [remote[b] EXCEPT !.pr = remote[b].pr]
          /\ remote[b].pr => remote[b].pushed /\ remote[b].head # 0
          /\ remote[b].merged => remote[b].pr
      BY <1>0 DEF TypeOK, Branch, Sound
    <2> QED BY <1>0, <1>1, <1>2, <2>1, ResultKeeps DEF TypeOK
  <1>3. CASE /\ ~(status = "failed" /\ work[b].repairs >= MaxRepairs)
             /\ Goto(b, IF status = "failed" THEN "repairing" ELSE "reviewing")
             /\ work' = [work EXCEPT ![b].tested = work[b].tree, ![b].suite = status]
    <2> DEFINE w == [work[b] EXCEPT !.tested = work[b].tree, !.suite = status]
               where == IF status = "failed" THEN "repairing" ELSE "reviewing"
    <2>1. work[b] \in WorkRecord
      BY <1>0 DEF TypeOK
    <2>2. /\ w \in WorkRecord /\ w.tested = w.tree /\ w.suite = status
          /\ w.repairs = work[b].repairs /\ w.past = work[b].past
      BY <2>1 DEF WorkRecord
    <2>3. work' = [work EXCEPT ![b] = w] /\ pc' = [pc EXCEPT ![b] = where]
      BY <1>3 DEF Goto
    <2>4. /\ where \in {"repairing", "reviewing"} /\ (where = "reviewing" => status # "failed")
          /\ where = "repairing" => ~(work[b].repairs >= MaxRepairs)
      BY <1>3
    <2>8. work[b].repairs \in Nat
      BY <2>1 DEF WorkRecord
    <2> HIDE DEF w, where
    <2>5. pc'[b] = where /\ work'[b] = w
      BY <1>0, <2>3 DEF TypeOK
    <2>6. TypeOK' /\ Apart(b)
      BY <1>0, <1>1, <2>2, <2>3, <2>4 DEF TypeOK, Apart, Running
    <2>7. Sound(b)'
      BY <1>0, <1>1, <2>2, <2>4, <2>5, <2>8 DEF Sound
    <2> QED BY <1>1, <2>6, <2>7 DEF Keeps
  <1> QED BY <1>2, <1>3 DEF Test

LEMMA DeliverStep ==
  ASSUME IInv, NEW b \in Build, NEW finding \in Status, NEW reached \in BOOLEAN,
         Deliver(b, finding, reached)
  PROVE  Keeps(b)
  <1>0. TypeOK /\ Sound(b) /\ pc[b] = "delivering" /\ Quiet
    BY DEF IInv, Deliver
  <1>1. /\ TypeOKCapacity' /\ refused' \in [Harness -> Nat] /\ events' \in Nat /\ Reported'
        /\ state' = state /\ stopped' = stopped
    BY <1>0, QuietKeeps
  <1>2. ASSUME NEW outcome, UNCHANGED remote, Result(b, outcome) PROVE Keeps(b)
    <2>1. /\ remote[b] = [remote[b] EXCEPT !.pr = remote[b].pr]
          /\ remote[b].pr => remote[b].pushed /\ remote[b].head # 0
          /\ remote[b].merged => remote[b].pr
      BY <1>0 DEF TypeOK, Branch, Sound
    <2> QED BY <1>0, <1>1, <1>2, <2>1, ResultKeeps DEF TypeOK
  <1>3. CASE /\ Summarize({work[b].suite} \cup {finding})
             /\ remote' = [remote EXCEPT ![b] = Pushed(b)]
             /\ Goto(b, "publishing") /\ UNCHANGED work
    <2>1. work[b] \in WorkRecord /\ work[b].suite = "passed"
      BY <1>0, <1>3 DEF TypeOK, Summarize
    <2>2. /\ Pushed(b) \in Branch /\ Pushed(b).approved = Pushed(b).head
          /\ Pushed(b).suite = "passed" /\ Pushed(b).tested = Pushed(b).tree
          /\ Pushed(b).pushed /\ ~Pushed(b).pr /\ ~Pushed(b).merged
      BY <1>0, <2>1 DEF Pushed, Branch, WorkRecord, Sound
    <2>3. pc' = [pc EXCEPT ![b] = "publishing"]
      BY <1>3 DEF Goto
    <2>4. TypeOK' /\ Apart(b)
      BY <1>0, <1>1, <1>3, <2>2, <2>3 DEF TypeOK, Apart, Running
    <2>5. pc'[b] = "publishing" /\ remote'[b] = Pushed(b)
      BY <1>0, <1>3, <2>3 DEF TypeOK
    <2>6. Sound(b)'
      BY <1>0, <1>1, <1>3, <2>2, <2>5 DEF Sound
    <2> QED BY <1>1, <2>4, <2>6 DEF Keeps
  <1> QED BY <1>2, <1>3 DEF Deliver

LEMMA PublishStep ==
  ASSUME IInv, NEW b \in Build, NEW created \in BOOLEAN, Publish(b, created)
  PROVE  Keeps(b)
  <1>0. TypeOK /\ Sound(b) /\ pc[b] = "publishing" /\ Quiet
    BY DEF IInv, Publish
  <1>1. /\ TypeOKCapacity' /\ refused' \in [Harness -> Nat] /\ events' \in Nat /\ Reported'
        /\ state' = state /\ stopped' = stopped
    BY <1>0, QuietKeeps
  <1> DEFINE shown == created /\ remote[b].head # 0
             r == [remote[b] EXCEPT !.pr = shown]
  <1>2. Result(b, "complete") /\ remote' = [remote EXCEPT ![b].pr = shown]
    BY DEF Publish
  <1>3. remote[b] \in Branch /\ remote[b].pushed
    BY <1>0 DEF TypeOK, Sound
  <1>7. shown \in BOOLEAN /\ (shown => remote[b].head # 0) /\ ~remote[b].merged
    BY <1>0 DEF Sound
  <1> HIDE DEF shown
  <1>4. /\ r \in Branch /\ r.pushed = remote[b].pushed /\ r = [remote[b] EXCEPT !.pr = r.pr]
        /\ r.pr = shown
    BY <1>3, <1>7 DEF Branch
  <1>5. remote' = [remote EXCEPT ![b] = r]
    BY <1>2
  <1> HIDE DEF r
  <1>6. remote' \in [Build -> Branch] /\ remote'[b] = r /\ \A c \in Build \ {b} : remote'[c] = remote[c]
    BY <1>0, <1>4, <1>5 DEF TypeOK
  <1> QED BY <1>0, <1>1, <1>2, <1>3, <1>4, <1>6, <1>7, ResultKeeps

LEMMA FinishStep ==
  ASSUME IInv, NEW b \in Build, Finish(b)
  PROVE  Keeps(b)
  <1>0. TypeOK /\ Sound(b) /\ Reported
    BY DEF IInv
  <1>1. /\ pc[b] = "finishing" /\ pc' = [pc EXCEPT ![b] = "ended"]
        /\ work' = [work EXCEPT ![b] = NoWork]
        /\ state' = [state EXCEPT ![b] = IF b \in stopped THEN "stopped" ELSE work[b].outcome]
        /\ UNCHANGED <<clock, limited, cleared, spent, remote, stopped, refused, events>>
    BY DEF Finish, Goto, capacityVars
  <1>2. (IF b \in stopped THEN "stopped" ELSE work[b].outcome)
            \in {"complete", "blocked", "failed", "stopped"}
    BY <1>0, <1>1 DEF Sound
  <1>3. NoWork \in WorkRecord /\ ~NoWork.past
    BY DEF NoWork, WorkRecord, Harness, Status
  <1>4. TypeOK' /\ Apart(b) /\ Reported'
    BY <1>0, <1>1, <1>2, <1>3 DEF TypeOK, TypeOKCapacity, Apart, Running, Reported
  <1>5. pc'[b] = "ended" /\ work'[b] = NoWork /\ state'[b] # "queued"
    BY <1>0, <1>1, <1>2 DEF TypeOK
  <1>6. Sound(b)'
    BY <1>0, <1>1, <1>3, <1>5 DEF Sound
  <1> QED BY <1>4, <1>6 DEF Keeps

LEMMA StepKeeps ==
  ASSUME IInv, NEW b \in Build, Step(b)
  PROVE  IInv'
  <1>1. Keeps(b)
    BY BeginStep, PublishStep, ImplementStep, RepairStep, TestStep, ReviewStep, DeliverStep,
       FinishStep DEF Step
  <1> QED BY <1>1, Others DEF IInv, Keeps

(* Time, interventions and crashes. *)
LEMMA OutsideKeeps ==
  ASSUME IInv,
         \/ Time
         \/ \E h \in Harness, verdict \in Verdict : Advise(h, verdict)
         \/ \E b \in Build : Stop(b) \/ Merge(b)
         \/ Crash
         \/ UNCHANGED vars
  PROVE  IInv'
  <1>0. TypeOK /\ Reported /\ \A b \in Build : Sound(b)
    BY DEF IInv
  <1>1. CASE Time
    <2>1. TypeOK' /\ Reported'
      BY <1>0, <1>1 DEF Time, Tick, TypeOK, TypeOKCapacity, Reported, buildVars
    <2>2. \A b \in Build : Sound(b)'
      BY <1>0, <1>1 DEF Time, Sound, buildVars
    <2> QED BY <2>1, <2>2 DEF IInv
  <1>2. ASSUME NEW h \in Harness, NEW verdict \in Verdict, Advise(h, verdict) PROVE IInv'
    <2>1. /\ UNCHANGED <<clock, spent, pc, work, remote, state, stopped, refused>>
          /\ events' = events + 1
          /\ limited' = limited \/ limited' = [limited EXCEPT ![h] = clock]
          /\ cleared' = cleared \/ cleared' = [cleared EXCEPT ![h] = clock]
      BY <1>2 DEF Advise, Event, Report, NoteLimited, ClearLimited, buildVars
    <2>2. /\ clock \in Nat /\ refused \in [Harness -> Nat]
          /\ limited \in [Harness -> Nat] /\ cleared \in [Harness -> Nat]
      BY <1>0 DEF TypeOK, TypeOKCapacity
    <2>3. limited' \in [Harness -> Nat] /\ cleared' \in [Harness -> Nat]
      BY <2>1, <2>2
    <2>6. TypeOK'
      <3>1. UNCHANGED <<clock, spent, pc, work, remote, state, stopped, refused>> /\ events' = events + 1
        BY <2>1
      <3>2. TypeOKCapacity'
        BY <1>0, <2>3, <3>1 DEF TypeOK, TypeOKCapacity
      <3> QED BY <1>0, <3>1, <3>2 DEF TypeOK
    <2>4. Reported'
      <3>1. ASSUME NEW k \in Harness PROVE refused'[k] <= limited'[k] /\ limited'[k] <= clock'
        <4>1. refused[k] <= limited[k] /\ limited[k] <= clock
          BY <1>0 DEF Reported
        <4>2. limited'[k] = limited[k] \/ limited'[k] = clock
          BY <2>1, <2>2
        <4>3. limited[k] \in Nat /\ refused[k] \in Nat /\ clock \in Nat
          BY <2>2
        <4> QED BY <2>1, <4>1, <4>2, <4>3
      <3> QED BY <3>1 DEF Reported
    <2>5. \A b \in Build : Sound(b)'
      BY <1>0, <2>1 DEF Sound
    <2> QED BY <2>4, <2>5, <2>6 DEF IInv
  <1>3. ASSUME NEW b \in Build, Stop(b) PROVE IInv'
    <2>1. /\ UNCHANGED <<clock, limited, cleared, spent, pc, work, remote, state, refused>>
          /\ events' = events + 1 /\ stopped' = stopped \cup {b}
      BY <1>3 DEF Stop, Event, buildVars, capacityVars
    <2>2. TypeOK'
      BY <1>0, <2>1 DEF TypeOK, TypeOKCapacity
    <2>4. Reported'
      BY <1>0, <2>1 DEF Reported
    <2>3. \A c \in Build : Sound(c)'
      BY <1>0, <2>1 DEF Sound
    <2> QED BY <2>2, <2>3, <2>4 DEF IInv
  <1>6. ASSUME NEW b \in Build, Merge(b) PROVE IInv'
    <2> DEFINE r == [remote[b] EXCEPT !.merged = TRUE]
    <2>1. /\ UNCHANGED <<clock, limited, cleared, spent, pc, work, state, stopped, refused, events>>
          /\ remote[b].pr /\ remote' = [remote EXCEPT ![b] = r]
      BY <1>6 DEF Merge, capacityVars
    <2>2. /\ r \in Branch /\ r.merged /\ r.pr = remote[b].pr /\ r.pushed = remote[b].pushed
          /\ r.head = remote[b].head /\ r.tree = remote[b].tree /\ r.tested = remote[b].tested
          /\ r.suite = remote[b].suite /\ r.approved = remote[b].approved
      BY <1>0 DEF TypeOK, Branch
    <2> HIDE DEF r
    <2>3. TypeOK' /\ Reported'
      BY <1>0, <2>1, <2>2 DEF TypeOK, TypeOKCapacity, Reported
    <2>4. ASSUME NEW c \in Build PROVE Sound(c)'
      <3>1. CASE c = b
        <4>1. remote'[b] = r /\ Sound(b)
          BY <1>0, <2>1 DEF TypeOK
        <4>2. pc' = pc /\ work' = work /\ state' = state /\ stopped' = stopped /\ remote[b].pr
          BY <2>1
        <4>3. Sound(b)'
          BY <2>2, <4>1, <4>2 DEF Sound
        <4> QED BY <3>1, <4>3
      <3>2. CASE c # b
        <4>1. remote'[c] = remote[c] /\ Sound(c)
          BY <1>0, <2>1, <3>2 DEF TypeOK
        <4> QED BY <2>1, <4>1 DEF Sound
      <3> QED BY <3>1, <3>2
    <2> QED BY <2>3, <2>4 DEF IInv
  <1>4. CASE Crash
    <2>1. /\ UNCHANGED <<clock, limited, cleared, spent, remote, state, stopped, refused>>
          /\ events' = events + 1
          /\ pc' = [b \in Build |-> IF pc[b] \in Running THEN "waiting" ELSE pc[b]]
          /\ work' = [b \in Build |-> NoWork]
      BY <1>4 DEF Crash, Event, capacityVars
    <2>2. NoWork \in WorkRecord /\ ~NoWork.past
      BY DEF NoWork, WorkRecord, Harness, Status
    <2>5. work' \in [Build -> WorkRecord] /\ pc' \in [Build -> Running \cup {"waiting", "ended"}]
      BY <1>0, <2>1, <2>2 DEF TypeOK
    <2>6. TypeOK'
      BY <1>0, <2>1, <2>5 DEF TypeOK, TypeOKCapacity
    <2>7. Reported'
      BY <1>0, <2>1 DEF Reported
    <2>4. ASSUME NEW b \in Build PROVE Sound(b)'
      <3>1. /\ pc'[b] \in {"waiting", "ended"} /\ work'[b] = NoWork
            /\ pc'[b] = "ended" <=> pc[b] = "ended"
        BY <1>0, <2>1 DEF TypeOK, Running
      <3> QED BY <1>0, <2>1, <2>2, <3>1 DEF Sound
    <2> QED BY <2>4, <2>6, <2>7 DEF IInv
  <1>5. CASE UNCHANGED vars
    <2>1. TypeOK' /\ Reported'
      BY <1>0, <1>5 DEF TypeOK, TypeOKCapacity, Reported, vars, buildVars, capacityVars
    <2>2. \A b \in Build : Sound(b)'
      BY <1>0, <1>5 DEF Sound, vars, buildVars
    <2> QED BY <2>1, <2>2 DEF IInv
  <1> QED BY <1>1, <1>2, <1>3, <1>4, <1>5, <1>6

LEMMA Inductive == Spec => []IInv
  <1>1. IInv /\ [Next]_vars => IInv'
    BY StepKeeps, OutsideKeeps DEF Next
  <1> QED BY InitIInv, <1>1, PTL DEF Spec

-----------------------------------------------------------------------------
(* What a window adds up to.  The function behind WindowUsage is recursive, so *)
(* what it computes is shown by the least tick at which it would not hold.     *)

(* Every set of naturals that is not empty has a least member. *)
LEMMA Least ==
  ASSUME NEW T \in SUBSET Nat, T # {}
  PROVE  \E n \in T : \A k \in T : n <= k
  <1> DEFINE R == OpToRel(<, Nat)
  <1>1. IsWellFoundedOn(R, Nat)
    BY NatLessThanWellFounded
  <1>2. \A i, j \in Nat : i < j => <<i, j>> \in R
    BY DEF OpToRel
  <1> HIDE DEF R
  <1>3. PICK n \in T : \A k \in T : <<k, n>> \notin R
    BY <1>1, WFMin
  <1>4. \A k \in T : k \in Nat /\ n \in Nat /\ ~(k < n)
    BY <1>2, <1>3
  <1>5. \A i, j \in Nat : ~(i < j) => j <= i
    OBVIOUS
  <1> QED BY <1>4, <1>5

(* What the tick t counts in the window of the clock c. *)
Counts(s, c, t) == IF t + Window >= c THEN s[t] ELSE 0

(* g adds up the ticks of the row s that the window of c reaches, to n. *)
Adds(g, s, c, n) ==
    /\ g \in [0..n -> Nat]
    /\ g[0] = 0
    /\ \A t \in 1..n : g[t] = g[t - 1] + Counts(s, c, t)

Row == [1..MaxClock -> Nat]

LEMMA CountsType ==
  ASSUME NEW s \in Row, NEW c \in Nat, NEW t \in 1..MaxClock
  PROVE  Counts(s, c, t) \in Nat
  BY DEF Counts, Row

LEMMA SumExists ==
  ASSUME NEW s \in Row, NEW c \in Nat
  PROVE  \A n \in 0..MaxClock : \E g : Adds(g, s, c, n)
  <1> DEFINE T == {n \in 0..MaxClock : ~ \E g : Adds(g, s, c, n)}
  <1> SUFFICES ASSUME T # {} PROVE FALSE
    OBVIOUS
  <1>1. T \in SUBSET Nat
    OBVIOUS
  <1>2. PICK n \in T : \A k \in T : n <= k
    BY <1>1, Least
  <1>3. CASE n = 0
    <2> DEFINE g == [t \in 0..0 |-> 0]
    <2>1. Adds(g, s, c, 0)
      BY DEF Adds
    <2> QED BY <1>2, <1>3, <2>1
  <1>4. CASE n # 0
    <2>1. n \in Nat \ {0} /\ n \in 1..MaxClock /\ n - 1 \in 0..MaxClock /\ ~(n <= n - 1)
      BY <1>2, <1>4
    <2>2. PICK g : Adds(g, s, c, n - 1)
      BY <1>2, <2>1
    <2>3. g \in [0..(n - 1) -> Nat] /\ g[n - 1] \in Nat
      BY <2>1, <2>2 DEF Adds
    <2> DEFINE m == g[n - 1] + Counts(s, c, n)
               f == [t \in 0..n |-> IF t = n THEN m ELSE g[t]]
    <2>4. m \in Nat
      <3>1. Counts(s, c, n) \in Nat
        BY <2>1, CountsType
      <3> QED BY <2>3, <3>1
    <2>5. f[n] = m /\ \A t \in 0..(n - 1) : f[t] = g[t]
      BY <2>1
    <2>6. f \in [0..n -> Nat]
      BY <2>1, <2>3, <2>4
    <2> HIDE DEF f
    <2>7. ASSUME NEW t \in 1..n PROVE f[t] = f[t - 1] + Counts(s, c, t)
      <3>1. CASE t = n
        BY <2>1, <2>5, <3>1
      <3>2. CASE t # n
        <4>1. t \in 1..(n - 1) /\ t - 1 \in 0..(n - 1) /\ t \in 0..(n - 1)
          BY <2>1, <3>2
        <4>2. g[t] = g[t - 1] + Counts(s, c, t)
          BY <2>2, <4>1 DEF Adds
        <4> QED BY <2>5, <4>1, <4>2
      <3> QED BY <3>1, <3>2
    <2>8. f[0] = 0
      BY <2>1, <2>2, <2>5 DEF Adds
    <2>9. Adds(f, s, c, n)
      BY <2>6, <2>7, <2>8 DEF Adds
    <2> QED BY <1>2, <2>9
  <1> QED BY <1>3, <1>4

(* WindowUsage as a function of the row and of the time. *)
Usage(s, c) ==
    LET Up[t \in 0..MaxClock] ==
            IF t = 0 THEN 0
            ELSE Up[t - 1] + (IF t + Window >= c THEN s[t] ELSE 0)
    IN Up[MaxClock]

LEMMA UsageAdds ==
  ASSUME NEW s \in Row, NEW c \in Nat
  PROVE  \E g : Adds(g, s, c, MaxClock) /\ Usage(s, c) = g[MaxClock]
  <1> DEFINE E(f) == [t \in 0..MaxClock |->
                        IF t = 0 THEN 0
                        ELSE f[t - 1] + (IF t + Window >= c THEN s[t] ELSE 0)]
             Up == CHOOSE f : f = E(f)
  <1>1. PICK g : Adds(g, s, c, MaxClock)
    BY SumExists
  <1>2. g = E(g)
    <2>1. \A t \in 0..MaxClock : g[t] = E(g)[t]
      BY <1>1 DEF Adds, Counts
    <2>2. g = [t \in 0..MaxClock |-> g[t]]
      BY <1>1 DEF Adds
    <2> QED BY <2>1, <2>2
  <1>3. Up = E(Up)
    BY <1>2
  <1>4. Usage(s, c) = Up[MaxClock]
    BY DEF Usage
  <1> HIDE DEF Up
  <1>5. \A t \in 0..MaxClock : Up[t] = g[t]
    <2> DEFINE T == {t \in 0..MaxClock : Up[t] # g[t]}
    <2> SUFFICES ASSUME T # {} PROVE FALSE
      OBVIOUS
    <2>1. T \in SUBSET Nat
      OBVIOUS
    <2>2. PICK t \in T : \A k \in T : t <= k
      BY <2>1, Least
    <2>3. CASE t = 0
      <3>1. Up[0] = 0
        BY <1>3
      <3> QED BY <1>1, <2>2, <2>3, <3>1 DEF Adds
    <2>4. CASE t # 0
      <3>1. t \in 1..MaxClock /\ t - 1 \in 0..MaxClock /\ ~(t <= t - 1)
        BY <2>2, <2>4
      <3>2. Up[t - 1] = g[t - 1]
        BY <2>2, <3>1
      <3>3. Up[t] = Up[t - 1] + Counts(s, c, t)
        BY <1>3, <3>1 DEF Counts
      <3> QED BY <1>1, <2>2, <3>1, <3>2, <3>3 DEF Adds
    <2> QED BY <2>3, <2>4
  <1> QED BY <1>1, <1>4, <1>5

LEMMA NothingAddsUp ==
  ASSUME NEW s \in Row, NEW c \in Nat, \A t \in 1..MaxClock : Counts(s, c, t) = 0
  PROVE  Usage(s, c) = 0
  <1>1. PICK g : Adds(g, s, c, MaxClock) /\ Usage(s, c) = g[MaxClock]
    BY UsageAdds
  <1> DEFINE T == {t \in 0..MaxClock : g[t] # 0}
  <1>2. T = {}
    <2> SUFFICES ASSUME T # {} PROVE FALSE
      OBVIOUS
    <2>1. T \in SUBSET Nat
      OBVIOUS
    <2>2. PICK t \in T : \A k \in T : t <= k
      BY <2>1, Least
    <2>3. t # 0
      BY <1>1, <2>2 DEF Adds
    <2>4. t \in 1..MaxClock /\ t - 1 \in 0..MaxClock /\ ~(t <= t - 1)
      BY <2>2, <2>3
    <2>5. g[t - 1] = 0
      BY <2>2, <2>4
    <2>6. g[t] = g[t - 1] + Counts(s, c, t)
      BY <1>1, <2>4 DEF Adds
    <2> QED BY <2>2, <2>4, <2>5, <2>6
  <1> QED BY <1>1, <1>2

(* Two rows at two times: what one counts more than the other bounds what it   *)
(* adds up to.                                                                 *)
LEMMA UsageGrows ==
  ASSUME NEW s \in Row, NEW c \in Nat, NEW u \in Row, NEW d \in Nat,
         NEW k \in 1..MaxClock, NEW e \in Nat,
         \A t \in 1..MaxClock : Counts(u, d, t) <= Counts(s, c, t) + (IF t = k THEN e ELSE 0)
  PROVE  /\ Usage(s, c) \in Nat /\ Usage(u, d) \in Nat
         /\ Usage(u, d) <= Usage(s, c) + e
  <1>1. PICK g : Adds(g, s, c, MaxClock) /\ Usage(s, c) = g[MaxClock]
    BY UsageAdds
  <1>2. PICK f : Adds(f, u, d, MaxClock) /\ Usage(u, d) = f[MaxClock]
    BY UsageAdds
  <1> DEFINE T == {t \in 0..MaxClock : ~(f[t] <= g[t] + (IF t >= k THEN e ELSE 0))}
  <1>3. T = {}
    <2> SUFFICES ASSUME T # {} PROVE FALSE
      OBVIOUS
    <2>1. T \in SUBSET Nat
      OBVIOUS
    <2>2. PICK t \in T : \A j \in T : t <= j
      BY <2>1, Least
    <2>3. CASE t = 0
      BY <1>1, <1>2, <2>2, <2>3 DEF Adds
    <2>4. CASE t # 0
      <3>1. t \in 1..MaxClock /\ t - 1 \in 0..MaxClock /\ ~(t <= t - 1)
        BY <2>2, <2>4
      <3>2. f[t - 1] <= g[t - 1] + (IF t - 1 >= k THEN e ELSE 0)
        BY <2>2, <3>1
      <3>3. f[t] = f[t - 1] + Counts(u, d, t) /\ g[t] = g[t - 1] + Counts(s, c, t)
        BY <1>1, <1>2, <3>1 DEF Adds
      <3>4. f[t - 1] \in Nat /\ g[t - 1] \in Nat
        BY <1>1, <1>2, <3>1 DEF Adds
      <3>5. Counts(u, d, t) \in Nat /\ Counts(s, c, t) \in Nat
        BY <3>1, CountsType
      <3>6. Counts(u, d, t) <= Counts(s, c, t) + (IF t = k THEN e ELSE 0)
        BY <3>1
      <3>7. f[t] <= g[t] + (IF t >= k THEN e ELSE 0)
        BY <3>1, <3>2, <3>3, <3>4, <3>5, <3>6
      <3> QED BY <2>2, <3>7
    <2> QED BY <2>3, <2>4
  <1>4. MaxClock \in 0..MaxClock /\ MaxClock >= k
    OBVIOUS
  <1>5. f[MaxClock] \in Nat /\ g[MaxClock] \in Nat
    BY <1>1, <1>2, <1>4 DEF Adds
  <1>6. f[MaxClock] <= g[MaxClock] + e
    BY <1>3, <1>4
  <1> QED BY <1>1, <1>2, <1>5, <1>6

LEMMA WindowIsUsage ==
  ASSUME NEW h
  PROVE  WindowUsage(h) = Usage(spent[h], clock) /\ WindowUsage(h)' = Usage(spent'[h], clock')
  BY DEF WindowUsage, Usage

(* One more call, and one more tick. *)
LEMMA CallCharges ==
  ASSUME TypeOKCapacity, NEW k \in Harness, NEW cost \in Nat, clock' = clock,
         RecordUsage(k, cost)
  PROVE  \A h \in Harness :
            /\ WindowUsage(h) \in Nat /\ WindowUsage(h)' \in Nat
            /\ WindowUsage(h)' <= WindowUsage(h) + (IF h = k THEN cost ELSE 0)
  <1> TAKE h \in Harness
  <1> DEFINE e == IF h = k THEN cost ELSE 0
             u == [spent[k] EXCEPT ![clock] = @ + cost]
  <1>1. clock \in 1..MaxClock /\ clock \in Nat /\ spent[h] \in Row /\ spent[k] \in Row
    BY DEF TypeOKCapacity, Row
  <1>2. spent' = [spent EXCEPT ![k] = u]
    BY DEF RecordUsage
  <1>3. u \in Row /\ u[clock] = spent[k][clock] + cost
        /\ \A t \in 1..MaxClock : t # clock => u[t] = spent[k][t]
    <2>1. spent[k] \in [1..MaxClock -> Nat]
      BY <1>1 DEF Row
    <2>3. spent[k][clock] \in Nat
      BY <1>1, <2>1
    <2>4. spent[k][clock] + cost \in Nat
      BY <2>3
    <2>2. u = [spent[k] EXCEPT ![clock] = spent[k][clock] + cost]
      OBVIOUS
    <2> HIDE DEF u
    <2> QED BY <1>1, <2>1, <2>2, <2>4 DEF Row
  <1> HIDE DEF u
  <1>4. spent'[h] = IF h = k THEN u ELSE spent[h]
    BY <1>2 DEF TypeOKCapacity
  <1>5. spent'[h] \in Row
    BY <1>1, <1>3, <1>4
  <1>6. ASSUME NEW t \in 1..MaxClock
        PROVE  Counts(spent'[h], clock, t) <= Counts(spent[h], clock, t) + (IF t = clock THEN e ELSE 0)
    <2>1. spent[h][t] \in Nat /\ spent'[h][t] \in Nat
      BY <1>1, <1>5 DEF Row
    <2>2. spent'[h][t] <= spent[h][t] + (IF t = clock THEN e ELSE 0)
      BY <1>1, <1>3, <1>4, <2>1
    <2> QED BY <1>1, <2>1, <2>2 DEF Counts
  <1>7. e \in Nat
    OBVIOUS
  <1> HIDE DEF e
  <1>8. /\ Usage(spent[h], clock) \in Nat /\ Usage(spent'[h], clock) \in Nat
        /\ Usage(spent'[h], clock) <= Usage(spent[h], clock) + e
    BY <1>1, <1>5, <1>6, <1>7, UsageGrows
  <1> QED BY <1>8, WindowIsUsage DEF e

LEMMA TickCharges ==
  ASSUME TypeOKCapacity, Tick
  PROVE  \A h \in Harness :
            /\ WindowUsage(h) \in Nat /\ WindowUsage(h)' \in Nat
            /\ WindowUsage(h)' <= WindowUsage(h)
  <1> TAKE h \in Harness
  <1>1. /\ clock \in 1..MaxClock /\ clock \in Nat /\ spent[h] \in Row
        /\ clock' = clock + 1 /\ clock' \in Nat /\ spent' = spent
    BY DEF TypeOKCapacity, Row, Tick
  <1>2. ASSUME NEW t \in 1..MaxClock
        PROVE  Counts(spent[h], clock', t) <= Counts(spent[h], clock, t) + (IF t = clock THEN 0 ELSE 0)
    <2>1. spent[h][t] \in Nat
      BY <1>1 DEF Row
    <2> QED BY <1>1, <2>1 DEF Counts
  <1>3. /\ Usage(spent[h], clock) \in Nat /\ Usage(spent[h], clock') \in Nat
        /\ Usage(spent[h], clock') <= Usage(spent[h], clock) + 0
    BY <1>1, <1>2, UsageGrows
  <1> QED BY <1>1, <1>3, WindowIsUsage

LEMMA UsageType ==
  ASSUME TypeOKCapacity
  PROVE  \A h \in Harness : WindowUsage(h) \in Nat
  <1> TAKE h \in Harness
  <1>1. clock \in 1..MaxClock /\ clock \in Nat /\ spent[h] \in Row
    BY DEF TypeOKCapacity, Row
  <1>2. \A t \in 1..MaxClock : Counts(spent[h], clock, t) <= Counts(spent[h], clock, t) + (IF t = clock THEN 0 ELSE 0)
    BY <1>1, CountsType
  <1>3. Usage(spent[h], clock) \in Nat
    BY <1>1, <1>2, UsageGrows
  <1> QED BY <1>3, WindowIsUsage

LEMMA NoCharge ==
  ASSUME TypeOKCapacity, UNCHANGED <<clock, spent>>
  PROVE  \A h \in Harness : WindowUsage(h) \in Nat /\ WindowUsage(h)' = WindowUsage(h)
  BY UsageType, WindowIsUsage

-----------------------------------------------------------------------------
(* Open calls are counted one by one. *)
Slots == Build \X (1..(2 + MaxRepairs))
Tokens(r) == {x \in Slots : x[2] <= r[x[1]]}

LEMMA SlotsCount ==
  /\ IsFiniteSet(Slots) /\ Cardinality(Build) \in Nat
  /\ Cardinality(Slots) = Cardinality(Build) * (2 + MaxRepairs)
  <1>1. /\ IsFiniteSet(1..(2 + MaxRepairs))
        /\ Cardinality(1..(2 + MaxRepairs)) = 2 + MaxRepairs
    <2>1. 1 \in Int /\ 2 + MaxRepairs \in Int /\ ~(1 > 2 + MaxRepairs)
      OBVIOUS
    <2> QED BY <2>1, FS_Interval
  <1>2. IsFiniteSet(Build) /\ Cardinality(Build) \in Nat
    BY FS_CardinalityType
  <1> QED BY <1>1, <1>2, FS_Product DEF Slots

LEMMA TokensBound ==
  ASSUME NEW r
  PROVE  /\ IsFiniteSet(Tokens(r)) /\ Cardinality(Tokens(r)) \in Nat
         /\ Cardinality(Tokens(r)) <= Cardinality(Build) * (2 + MaxRepairs)
  <1>1. Tokens(r) \in SUBSET Slots
    BY DEF Tokens
  <1> QED BY <1>1, SlotsCount, FS_Subset, FS_CardinalityType

LEMMA TokensShrink ==
  ASSUME NEW r \in [Build -> Nat], NEW q \in [Build -> Nat], \A b \in Build : q[b] <= r[b]
  PROVE  Cardinality(Tokens(q)) <= Cardinality(Tokens(r))
  <1>1. Tokens(q) \in SUBSET Tokens(r)
    BY DEF Tokens, Slots
  <1> QED BY <1>1, TokensBound, FS_Subset

LEMMA TokenSpent ==
  ASSUME NEW r \in [Build -> 0..(2 + MaxRepairs)], NEW q \in [Build -> Nat], NEW c \in Build,
         q[c] < r[c], \A b \in Build : q[b] <= r[b]
  PROVE  Cardinality(Tokens(q)) + 1 <= Cardinality(Tokens(r))
  <1> DEFINE x == <<c, r[c]>>
  <1>1. x \in Tokens(r)
    BY DEF Tokens, Slots
  <1>2. Tokens(q) \in SUBSET (Tokens(r) \ {x})
    BY DEF Tokens, Slots
  <1>3. /\ IsFiniteSet(Tokens(r) \ {x})
        /\ Cardinality(Tokens(r) \ {x}) = Cardinality(Tokens(r)) - 1
    BY <1>1, TokensBound, FS_RemoveElement
  <1>4. Cardinality(Tokens(q)) <= Cardinality(Tokens(r) \ {x})
    BY <1>2, <1>3, FS_Subset
  <1>5. Cardinality(Tokens(q)) \in Nat /\ Cardinality(Tokens(r)) \in Nat
    BY TokensBound
  <1> QED BY <1>3, <1>4, <1>5

(* What is charged for more calls is more. *)
LEMMA Products ==
  ASSUME NEW c \in Nat, NEW i \in Nat, NEW j \in Nat
  PROVE  /\ c * i \in Nat
         /\ i <= j => c * i <= c * j
         /\ i + 1 <= j => c * i + c <= c * j
  <1>1. ASSUME NEW m \in Nat, NEW n \in Nat, m <= n PROVE c * m <= c * n
    <2>1. n - m \in Nat /\ c * (n - m) \in Nat /\ c * n = c * m + c * (n - m)
      BY <1>1
    <2> QED BY <2>1
  <1>2. c * (i + 1) = c * i + c
    OBVIOUS
  <1> QED BY <1>1, <1>2

-----------------------------------------------------------------------------
(* What a step of one build does to the calls that are open. *)

LEMMA CallsLeftType ==
  ASSUME IInv
  PROVE  \A b \in Build, h \in Harness : CallsLeft(b, h) \in 0..(2 + MaxRepairs)
  <1> TAKE b \in Build, h \in Harness
  <1>1. work[b].repairs \in Nat /\ Sound(b)
    BY DEF IInv, TypeOK, WorkRecord
  <1> QED BY <1>1 DEF CallsLeft, Sound

LEMMA CallsLeftTypeNext ==
  ASSUME IInv'
  PROVE  \A b \in Build, h \in Harness : CallsLeft(b, h)' \in 0..(2 + MaxRepairs)
  <1> TAKE b \in Build, h \in Harness
  <1>1. work'[b].repairs \in Nat /\ Sound(b)'
    BY DEF IInv, TypeOK, WorkRecord
  <1> QED BY <1>1 DEF CallsLeft, Sound

Left(h) == [b \in Build |-> CallsLeft(b, h)]

LEMMA OpenAreTokens ==
  ASSUME NEW h
  PROVE  OpenCalls(h) = Tokens(Left(h)) /\ OpenCalls(h)' = Tokens(Left(h)')
  BY DEF OpenCalls, Tokens, Slots, Left

(* A step pays for itself when it makes no call and opens none with a harness  *)
(* that is over its budget, or makes one call that was open.                  *)
NoCall(b) ==
    /\ UNCHANGED <<clock, spent>>
    /\ \A h \in Harness : CallsLeft(b, h)' <= CallsLeft(b, h) \/ Available(h, Only)

OneCall(b) ==
    \E k \in Harness, cost \in Nat :
        /\ cost <= Cost[k] /\ clock' = clock /\ RecordUsage(k, cost)
        /\ \A h \in Harness : CallsLeft(b, h)' <= CallsLeft(b, h)
        /\ CallsLeft(b, k)' < CallsLeft(b, k)

LEMMA Ends ==
  ASSUME NEW b \in Build, pc'[b] \in {"waiting", "delivering", "publishing", "finishing", "ended"}
  PROVE  \A h : CallsLeft(b, h)' = 0
  BY DEF CallsLeft

LEMMA CallPays ==
  ASSUME IInv, NEW b \in Build, NEW k \in Harness, NEW answer \in Answer, Invoke(k, answer),
         k \in {work[b].implementer, work[b].reviewer},
         pc[b] \in {"implementing", "repairing", "reviewing"},
         \/ pc'[b] \in {"finishing", "delivering"}
         \/ /\ pc'[b] = "testing"
            /\ work'[b].implementer = work[b].implementer /\ work'[b].reviewer = work[b].reviewer
            /\ \/ pc[b] = "implementing" /\ work'[b].repairs = 0
               \/ pc[b] = "repairing" /\ work'[b].repairs = work[b].repairs + 1
  PROVE  OneCall(b)
  <1>1. work[b].repairs \in Nat /\ Sound(b)
    BY DEF IInv, TypeOK, WorkRecord
  <1>2. CallsLeft(b, k) > 0 /\ \A h \in Harness : CallsLeft(b, h) \in Nat
    BY <1>1, CallsLeftType DEF CallsLeft, Sound
  <1>3. CASE pc'[b] \in {"finishing", "delivering"}
    <2>1. \A h \in Harness : CallsLeft(b, h)' = 0
      BY <1>3, Ends
    <2>2. /\ \A h \in Harness : CallsLeft(b, h)' <= CallsLeft(b, h)
          /\ CallsLeft(b, k)' < CallsLeft(b, k)
      BY <1>2, <2>1
    <2> DEFINE cost == IF answer = "ok" THEN Cost[k] ELSE 0
    <2>3. cost \in Nat /\ cost <= Cost[k] /\ clock' = clock /\ RecordUsage(k, cost)
      BY DEF Invoke
    <2> QED BY <2>2, <2>3 DEF OneCall
  <1>4. CASE /\ pc'[b] = "testing"
             /\ work'[b].implementer = work[b].implementer /\ work'[b].reviewer = work[b].reviewer
             /\ \/ pc[b] = "implementing" /\ work'[b].repairs = 0
                \/ pc[b] = "repairing" /\ work'[b].repairs = work[b].repairs + 1
    <2>1. \A h \in Harness : h \in {work[b].implementer, work[b].reviewer} =>
              CallsLeft(b, h)' + 1 = CallsLeft(b, h)
      BY <1>1, <1>4 DEF CallsLeft, Sound
    <2>2. \A h \in Harness : h \notin {work[b].implementer, work[b].reviewer} =>
              CallsLeft(b, h)' = 0
      BY <1>4 DEF CallsLeft
    <2>3. /\ \A h \in Harness : CallsLeft(b, h)' <= CallsLeft(b, h)
          /\ CallsLeft(b, k)' < CallsLeft(b, k)
      <3>1. \A h \in Harness : CallsLeft(b, h)' \in Int
        BY <1>1, <1>4 DEF CallsLeft
      <3> QED BY <1>2, <2>1, <2>2, <3>1
    <2> DEFINE cost == IF answer = "ok" THEN Cost[k] ELSE 0
    <2>4. cost \in Nat /\ cost <= Cost[k] /\ clock' = clock /\ RecordUsage(k, cost)
      BY DEF Invoke
    <2> QED BY <2>3, <2>4 DEF OneCall
  <1> QED BY <1>3, <1>4

LEMMA StepPays ==
  ASSUME IInv, NEW b \in Build, Step(b)
  PROVE  NoCall(b) \/ OneCall(b)
  <1>0. /\ TypeOK /\ Sound(b) /\ pc[b] \in Running \cup {"waiting", "ended"}
        /\ work[b] \in WorkRecord /\ work[b].implementer \in Harness
        /\ work[b].reviewer \in Harness /\ work[b].repairs \in Nat
    BY DEF IInv, TypeOK, WorkRecord
  <1>1. \A h \in Harness : CallsLeft(b, h) \in Nat
    BY CallsLeftType
  <1>2. ASSUME Quiet, pc'[b] \in {"waiting", "delivering", "publishing", "finishing", "ended"}
        PROVE  NoCall(b)
    <2>1. \A h \in Harness : CallsLeft(b, h)' = 0
      BY <1>2, Ends
    <2> QED BY <1>1, <1>2, <2>1 DEF NoCall, Quiet, capacityVars
  <1>3. \A outcome : Result(b, outcome) => pc'[b] = "finishing"
    BY <1>0 DEF Result, Goto, TypeOK
  <1>4. ASSUME NEW cloned \in BOOLEAN, Begin(b, cloned) PROVE NoCall(b)
    <2> DEFINE free == {h \in Harness : Available(h, Only)}
    <2>1. CASE pc'[b] = "finishing"
      BY <1>2, <1>4, <2>1 DEF Begin
    <2>2. CASE /\ free # {}
               /\ work' = [work EXCEPT ![b].implementer = First(free),
                     ![b].reviewer = IF free = Harness THEN "codex" ELSE First(free),
                     ![b].past = remote[b].merged]
      <3>1. free \in SUBSET Harness
        OBVIOUS
      <3>2. ASSUME NEW h \in Harness, h \notin free PROVE CallsLeft(b, h)' = 0
        <4> HIDE DEF free
        <4> DEFINE g == IF free = Harness THEN "codex" ELSE First(free)
                   w == [work[b] EXCEPT !.implementer = First(free), !.reviewer = g,
                                        !.past = remote[b].merged]
        <4>1. work'[b] = w
          BY <1>0, <2>2 DEF TypeOK
        <4>2. w.implementer = First(free) /\ w.reviewer = g
          BY <1>0 DEF WorkRecord
        <4>3. First(free) \in free /\ g \in free
          BY <2>2, <3>1 DEF First, Harness
        <4> HIDE DEF g, w
        <4>4. h \notin {work'[b].implementer, work'[b].reviewer}
          BY <3>2, <4>1, <4>2, <4>3
        <4> QED BY <4>4 DEF CallsLeft
      <3>3. \A h \in Harness : CallsLeft(b, h)' <= CallsLeft(b, h) \/ Available(h, Only)
        BY <1>1, <3>2
      <3>4. UNCHANGED <<clock, spent>>
        BY <1>4 DEF Begin, Quiet, capacityVars
      <3> QED BY <3>3, <3>4 DEF NoCall
    <2> QED BY <1>0, <1>3, <1>4, <2>1, <2>2 DEF Begin, Goto, TypeOK
  <1>5. ASSUME NEW created \in BOOLEAN, Publish(b, created) PROVE NoCall(b)
    BY <1>2, <1>3, <1>5 DEF Publish
  <1>6. ASSUME NEW answer \in Answer, NEW changed \in BOOLEAN, NEW committed \in BOOLEAN,
               Implement(b, answer, changed, committed)
        PROVE  OneCall(b)
    <2>1. pc[b] = "implementing" /\ Invoke(work[b].implementer, answer)
      BY <1>6 DEF Implement
    <2>2. CASE Write(b, committed, 0) /\ Goto(b, "testing")
      <3>1. PICK w \in WorkRecord :
              /\ work' = [work EXCEPT ![b] = w] /\ w.repairs = 0
              /\ w.implementer = work[b].implementer /\ w.reviewer = work[b].reviewer
        BY <1>0, <2>2, WriteOf
      <3>2. pc'[b] = "testing" /\ work'[b] = w
        BY <1>0, <2>2, <3>1 DEF Goto, TypeOK
      <3> QED BY <1>0, <2>1, <3>1, <3>2, CallPays
    <2>3. CASE \E outcome : Result(b, outcome)
      BY <1>0, <1>3, <2>1, <2>3, CallPays
    <2> QED BY <1>6, <2>2, <2>3 DEF Implement
  <1>7. ASSUME NEW answer \in Answer, NEW changed \in BOOLEAN, NEW committed \in BOOLEAN,
               Repair(b, answer, changed, committed)
        PROVE  OneCall(b)
    <2>1. pc[b] = "repairing" /\ Invoke(work[b].implementer, answer)
      BY <1>7 DEF Repair
    <2>2. CASE Result(b, "tests_failed")
      BY <1>0, <1>3, <2>1, <2>2, CallPays
    <2>3. CASE /\ Goto(b, "testing")
               /\ IF changed THEN Write(b, committed, work[b].repairs + 1)
                  ELSE work' = [work EXCEPT ![b].repairs = work[b].repairs + 1]
      <3>1. PICK w \in WorkRecord :
              /\ work' = [work EXCEPT ![b] = w] /\ w.repairs = work[b].repairs + 1
              /\ w.implementer = work[b].implementer /\ w.reviewer = work[b].reviewer
        BY <1>0, <2>3, RepairedOf
      <3>2. pc'[b] = "testing" /\ work'[b] = w
        BY <1>0, <2>3, <3>1 DEF Goto, TypeOK
      <3> QED BY <1>0, <2>1, <3>1, <3>2, CallPays
    <2> QED BY <1>7, <2>2, <2>3 DEF Repair
  <1>8. ASSUME NEW status \in Status, Test(b, status) PROVE NoCall(b)
    <2>1. Quiet /\ pc[b] = "testing"
      BY <1>8 DEF Test
    <2>2. CASE Result(b, "tests_failed")
      BY <1>2, <1>3, <2>1, <2>2
    <2>3. CASE /\ Goto(b, IF status = "failed" THEN "repairing" ELSE "reviewing")
               /\ work' = [work EXCEPT ![b].tested = work[b].tree, ![b].suite = status]
      <3> DEFINE w == [work[b] EXCEPT !.tested = work[b].tree, !.suite = status]
      <3>1. work'[b] = w /\ pc'[b] \in {"repairing", "reviewing"}
        BY <1>0, <2>3 DEF Goto, TypeOK
      <3>2. /\ w.implementer = work[b].implementer /\ w.reviewer = work[b].reviewer
            /\ w.repairs = work[b].repairs
        BY <1>0 DEF WorkRecord
      <3> HIDE DEF w
      <3>3. work[b].repairs <= MaxRepairs
        BY <1>0, <2>1 DEF Sound
      <3>4. \A h \in Harness : CallsLeft(b, h)' <= CallsLeft(b, h)
        BY <1>0, <2>1, <3>1, <3>2, <3>3 DEF CallsLeft
      <3> QED BY <2>1, <3>4 DEF NoCall, Quiet, capacityVars
    <2> QED BY <1>8, <2>2, <2>3 DEF Test
  <1>9. ASSUME NEW answer \in Answer, NEW verdict, Review(b, answer, verdict) PROVE OneCall(b)
    <2>1. pc[b] = "reviewing" /\ Invoke(work[b].reviewer, answer)
      BY <1>9 DEF Review
    <2>2. pc'[b] \in {"finishing", "delivering"}
      BY <1>0, <1>3, <1>9 DEF Review, Goto, TypeOK
    <2> QED BY <1>0, <2>1, <2>2, CallPays
  <1>10. ASSUME NEW finding, NEW reached, Deliver(b, finding, reached) PROVE NoCall(b)
    <2>1. pc'[b] \in {"finishing", "publishing"} /\ Quiet
      BY <1>0, <1>3, <1>10 DEF Deliver, Goto, TypeOK
    <2> QED BY <1>2, <2>1
  <1>11. ASSUME Finish(b) PROVE NoCall(b)
    <2>1. pc'[b] = "ended" /\ UNCHANGED <<clock, spent>>
      BY <1>0, <1>11 DEF Finish, Goto, TypeOK, capacityVars
    <2>2. \A h \in Harness : CallsLeft(b, h)' = 0
      BY <2>1, Ends
    <2> QED BY <1>1, <2>1, <2>2 DEF NoCall
  <1> QED BY <1>4, <1>5, <1>6, <1>7, <1>8, <1>9, <1>10, <1>11 DEF Step

-----------------------------------------------------------------------------
(* CallsAreCovered, harness by harness. *)
Bound(h) == 4 * Budget[h] + 5 * Cardinality(Build) * (2 + MaxRepairs) * Cost[h]
Covered(h) == Budget[h] > 0 => 5 * (WindowUsage(h) + Cost[h] * Cardinality(OpenCalls(h))) < Bound(h)

LEMMA CoverKept ==
  ASSUME NEW h \in Harness, Covered(h), WindowUsage(h) \in Nat, WindowUsage(h)' \in Nat,
         \/ /\ WindowUsage(h)' <= WindowUsage(h)
            /\ Cardinality(OpenCalls(h)') <= Cardinality(OpenCalls(h))
         \/ /\ WindowUsage(h)' <= WindowUsage(h) + Cost[h]
            /\ Cardinality(OpenCalls(h)') + 1 <= Cardinality(OpenCalls(h))
         \/ WindowUsage(h)' = WindowUsage(h) /\ Available(h, Only)
  PROVE  Covered(h)'
  <1> DEFINE u == WindowUsage(h)
             v == WindowUsage(h)'
             i == Cardinality(OpenCalls(h))
             j == Cardinality(OpenCalls(h)')
             c == Cost[h]
             n == Cardinality(Build) * (2 + MaxRepairs)
             B == Budget[h]
  <1>1. i \in Nat /\ j \in Nat /\ j <= n
    BY OpenAreTokens, TokensBound
  <1>2. n \in Nat /\ c \in Nat /\ B \in Nat /\ u \in Nat /\ v \in Nat
    <2>1. Cardinality(Build) \in Nat
      BY SlotsCount
    <2> QED BY <2>1
  <1>3. Bound(h) = 4 * B + 5 * (c * n)
    <2>1. Cardinality(Build) \in Nat /\ 2 + MaxRepairs \in Nat /\ Cost[h] \in Nat
      BY SlotsCount
    <2>2. \A x, y, z \in Nat : 5 * x * y * z = 5 * (z * (x * y))
      OBVIOUS
    <2> QED BY <2>1, <2>2 DEF Bound
  <1>4. Bound(h)' = Bound(h)
    BY DEF Bound
  <1>5. Covered(h) <=> (B > 0 => 5 * (u + c * i) < Bound(h))
    BY DEF Covered
  <1>6. Covered(h)' <=> (B > 0 => 5 * (v + c * j) < Bound(h))
    BY <1>4 DEF Covered
  <1>7. \/ v <= u /\ j <= i
        \/ v <= u + c /\ j + 1 <= i
        \/ v = u /\ (B > 0 => 5 * u < 4 * B)
    BY DEF Available, WithinBudget
  <1> HIDE DEF u, v, i, j, c, n, B
  <1>8. /\ c * i \in Nat /\ c * j \in Nat /\ c * n \in Nat
        /\ c * j <= c * n
        /\ j <= i => c * j <= c * i
        /\ j + 1 <= i => c * j + c <= c * i
    BY <1>1, <1>2, Products
  <1> QED BY <1>2, <1>3, <1>5, <1>6, <1>7, <1>8

CallsInv == IInv /\ \A h \in Harness : Covered(h)

LEMMA InitCalls == Init => CallsInv
  <1> SUFFICES ASSUME Init PROVE CallsInv
    OBVIOUS
  <1>1. IInv
    BY InitIInv
  <1>2. ASSUME NEW h \in Harness PROVE Covered(h)
    <2>1. OpenCalls(h) = {}
      BY DEF Init, OpenCalls, CallsLeft
    <2>2. WindowUsage(h) = 0
      <3>1. spent[h] \in Row /\ clock \in Nat /\ \A t \in 1..MaxClock : spent[h][t] = 0
        BY DEF Init, InitCapacity, Row
      <3>2. \A t \in 1..MaxClock : Counts(spent[h], clock, t) = 0
        BY <3>1 DEF Counts
      <3> QED BY <3>1, <3>2, NothingAddsUp, WindowIsUsage
    <2>3. Cardinality(OpenCalls(h)) = 0
      BY <2>1, FS_EmptySet
    <2>4. Cost[h] \in Nat /\ Budget[h] \in Nat /\ Cardinality(Build) \in Nat
      BY SlotsCount
    <2>5. Cost[h] * (Cardinality(Build) * (2 + MaxRepairs)) \in Nat
      BY <2>4
    <2>6. 5 * Cardinality(Build) * (2 + MaxRepairs) * Cost[h] \in Nat
      BY <2>4
    <2> QED BY <2>2, <2>3, <2>4, <2>6 DEF Covered, Bound
  <1> QED BY <1>1, <1>2 DEF CallsInv

LEMMA StepCovers ==
  ASSUME CallsInv, NEW b \in Build, Step(b)
  PROVE  CallsInv'
  <1>0. IInv /\ IInv' /\ TypeOKCapacity
    BY StepKeeps DEF CallsInv, IInv, TypeOK
  <1>1. Keeps(b)
    BY <1>0, BeginStep, PublishStep, ImplementStep, RepairStep, TestStep, ReviewStep, DeliverStep,
       FinishStep DEF Step
  <1>2. \A c \in Build \ {b}, h \in Harness : CallsLeft(c, h)' = CallsLeft(c, h)
    BY <1>1 DEF Keeps, Apart, CallsLeft
  <1>3. \A h \in Harness : Left(h) \in [Build -> 0..(2 + MaxRepairs)]
    BY <1>0, CallsLeftType DEF Left
  <1>4. \A h \in Harness : Left(h)' \in [Build -> 0..(2 + MaxRepairs)]
    <2>1. \A c \in Build, h \in Harness : CallsLeft(c, h)' \in 0..(2 + MaxRepairs)
      BY <1>0, CallsLeftTypeNext
    <2> QED BY <2>1 DEF Left
  <1>5. ASSUME NEW h \in Harness, CallsLeft(b, h)' <= CallsLeft(b, h)
        PROVE  Cardinality(OpenCalls(h)') <= Cardinality(OpenCalls(h))
    <2>1. \A c \in Build : Left(h)'[c] <= Left(h)[c]
      BY <1>2, <1>3, <1>5 DEF Left
    <2> QED BY <1>3, <1>4, <2>1, TokensShrink, OpenAreTokens
  <1>6. ASSUME NEW h \in Harness PROVE Covered(h)'
    <2>0. Covered(h)
      BY DEF CallsInv
    <2>1. CASE NoCall(b)
      <3>1. WindowUsage(h) \in Nat /\ WindowUsage(h)' = WindowUsage(h)
        BY <1>0, <2>1, NoCharge DEF NoCall
      <3> QED BY <1>5, <2>0, <2>1, <3>1, CoverKept DEF NoCall
    <2>2. CASE OneCall(b)
      <3>1. PICK k \in Harness, cost \in Nat :
              /\ cost <= Cost[k] /\ clock' = clock /\ RecordUsage(k, cost)
              /\ \A g \in Harness : CallsLeft(b, g)' <= CallsLeft(b, g)
              /\ CallsLeft(b, k)' < CallsLeft(b, k)
        BY <2>2 DEF OneCall
      <3>2. /\ WindowUsage(h) \in Nat /\ WindowUsage(h)' \in Nat
            /\ WindowUsage(h)' <= WindowUsage(h) + (IF h = k THEN cost ELSE 0)
        BY <1>0, <3>1, CallCharges
      <3>3. CASE h = k
        <4>1. Left(h)'[b] < Left(h)[b] /\ \A c \in Build : Left(h)'[c] <= Left(h)[c]
          BY <1>2, <1>3, <3>1, <3>3 DEF Left
        <4>2. Cardinality(OpenCalls(h)') + 1 <= Cardinality(OpenCalls(h))
          <5> DEFINE r == Left(h)
                     q == Left(h)'
          <5>1. r \in [Build -> 0..(2 + MaxRepairs)] /\ q \in [Build -> 0..(2 + MaxRepairs)]
            BY <1>3, <1>4
          <5>2. q[b] < r[b] /\ \A c \in Build : q[c] <= r[c]
            BY <4>1
          <5> HIDE DEF r, q
          <5>3. q \in [Build -> Nat]
            BY <5>1
          <5>4. Cardinality(Tokens(q)) + 1 <= Cardinality(Tokens(r))
            BY <5>1, <5>2, <5>3, TokenSpent
          <5> QED BY <5>4, OpenAreTokens DEF r, q
        <4>3. WindowUsage(h)' <= WindowUsage(h) + Cost[h]
          BY <3>1, <3>2, <3>3
        <4> QED BY <2>0, <3>2, <4>2, <4>3, CoverKept
      <3>4. CASE h # k
        <4>1. Cardinality(OpenCalls(h)') <= Cardinality(OpenCalls(h))
          BY <1>5, <3>1
        <4>2. WindowUsage(h)' <= WindowUsage(h)
          BY <3>2, <3>4
        <4> QED BY <2>0, <3>2, <4>1, <4>2, CoverKept
      <3> QED BY <3>3, <3>4
    <2> QED BY <1>0, <2>1, <2>2, StepPays
  <1> QED BY <1>0, <1>6 DEF CallsInv

LEMMA OutsideCovers ==
  ASSUME CallsInv,
         \/ Time
         \/ \E h \in Harness, verdict \in Verdict : Advise(h, verdict)
         \/ \E b \in Build : Stop(b) \/ Merge(b)
         \/ Crash
         \/ UNCHANGED vars
  PROVE  CallsInv'
  <1>0. IInv /\ IInv' /\ TypeOKCapacity
    BY OutsideKeeps DEF CallsInv, IInv, TypeOK
  <1>1. ASSUME NEW h \in Harness
        PROVE  /\ WindowUsage(h) \in Nat /\ WindowUsage(h)' \in Nat
               /\ WindowUsage(h)' <= WindowUsage(h)
    <2>1. CASE Time
      BY <1>0, <2>1, TickCharges DEF Time
    <2>2. CASE UNCHANGED <<clock, spent>>
      BY <1>0, <2>2, NoCharge
    <2>3. ASSUME NEW k \in Harness, NEW verdict \in Verdict, Advise(k, verdict)
          PROVE  UNCHANGED <<clock, spent>>
      BY <2>3 DEF Advise, Report
    <2> QED BY <2>1, <2>2, <2>3 DEF Stop, Merge, Crash, vars, capacityVars
  <1>2. ASSUME NEW h \in Harness
        PROVE  Cardinality(OpenCalls(h)') <= Cardinality(OpenCalls(h))
    <2>1. CASE UNCHANGED <<pc, work>>
      <3>1. OpenCalls(h)' = OpenCalls(h)
        BY <2>1 DEF OpenCalls, CallsLeft
      <3>2. Cardinality(OpenCalls(h)) \in Nat
        BY OpenAreTokens, TokensBound
      <3> QED BY <3>1, <3>2
    <2>2. CASE Crash
      <3>1. \A b \in Build : pc'[b] \in {"waiting", "ended"}
        BY <1>0, <2>2 DEF Crash, IInv, TypeOK, Running
      <3>2. \A b \in Build : CallsLeft(b, h)' = 0
        BY <3>1, Ends
      <3>3. OpenCalls(h)' = {}
        BY <3>2 DEF OpenCalls
      <3>4. Cardinality(OpenCalls(h)) \in Nat /\ Cardinality(OpenCalls(h)') = 0
        BY <3>3, OpenAreTokens, TokensBound, FS_EmptySet
      <3> QED BY <3>4
    <2>3. ASSUME NEW k \in Harness, NEW verdict \in Verdict, Advise(k, verdict)
          PROVE  UNCHANGED <<pc, work>>
      BY <2>3 DEF Advise, buildVars
    <2> QED BY <2>1, <2>2, <2>3 DEF Time, Stop, Merge, vars, buildVars
  <1>3. ASSUME NEW h \in Harness PROVE Covered(h)'
    BY <1>1, <1>2, CoverKept DEF CallsInv
  <1> QED BY <1>0, <1>3 DEF CallsInv

LEMMA CallsInductive == Spec => []CallsInv
  <1>1. CallsInv /\ [Next]_vars => CallsInv'
    BY StepCovers, OutsideCovers DEF Next
  <1> QED BY InitCalls, <1>1, PTL DEF Spec

LEMMA CallsSuffice == CallsInv => FactoryInv
  BY DEF CallsInv, IInv, FactoryInv, Sound, TestsAreCurrent, ApprovalIsCurrent, DeliveredIsJudged,
         LedgerMatchesRun, RepairsAreBounded, CallsAreCovered, Covered, Bound

(* What is published is what was tested, reviewed and scanned, whatever crashed *)
(* or was redone on the way (scoped.py:776-892); and what a window was charged *)
(* is covered together with the calls that are still open (scoped.py:687-711). *)
THEOREM FactorySafe == Spec => []FactoryInv
  BY CallsInductive, CallsSuffice, PTL

(* Headroom is looked at once and used for every call of a build: a window is  *)
(* overspent by no more than the builds under way may still spend             *)
(* (scoped.py:687-711; capacity.py:551-581).                                  *)
THEOREM OverspendBounded == Spec => []OverspendIsBounded
  <1>1. CallsInv => OverspendIsBounded
    <2> SUFFICES ASSUME CallsInv, NEW h \in Harness, Budget[h] > 0
                 PROVE  5 * WindowUsage(h) < Bound(h)
      BY DEF OverspendIsBounded, Bound
    <2>1. 5 * (WindowUsage(h) + Cost[h] * Cardinality(OpenCalls(h))) < Bound(h)
      BY DEF CallsInv, Covered
    <2>2. Cardinality(OpenCalls(h)) \in Nat /\ Cost[h] \in Nat
      BY OpenAreTokens, TokensBound
    <2>3. Cost[h] * Cardinality(OpenCalls(h)) \in Nat
      BY <2>2
    <2>4. WindowUsage(h) \in Nat
      BY UsageType DEF CallsInv, IInv, TypeOK
    <2>5. Bound(h) \in Nat
      <3>1. Cardinality(Build) \in Nat /\ Cost[h] \in Nat /\ Budget[h] \in Nat
        BY SlotsCount
      <3> QED BY <3>1 DEF Bound
    <2> QED BY <2>1, <2>3, <2>4, <2>5
  <1> QED BY CallsInductive, <1>1, PTL

(* Once a branch shows a commit, and until its owner merges it, no attempt    *)
(* replaces what an earlier one pushed, and no pull request goes away          *)
(* (scoped.py:594-599, 659-663).                                               *)
THEOREM PullRequests == Spec => PullRequestStands
  <1> DEFINE Shown(b) == remote[b].pushed /\ remote[b].head # 0 /\ ~remote[b].merged
             Stands(b) == Shown(b) =>
                /\ remote'[b] = [remote[b] EXCEPT !.pr = remote'[b].pr,
                                                  !.merged = remote'[b].merged]
                /\ remote[b].pr => remote'[b].pr
  <1>1. ASSUME IInv, [Next]_vars, NEW b \in Build PROVE Stands(b)
    <2>1. remote \in [Build -> Branch] /\ remote[b] \in Branch /\ Sound(b)
      BY <1>1 DEF IInv, TypeOK
    <2>2. CASE remote'[b] = remote[b]
      BY <2>1, <2>2 DEF Branch
    <2>3. ASSUME NEW created \in BOOLEAN, Publish(b, created) PROVE Stands(b)
      <3> DEFINE shown == created /\ remote[b].head # 0
      <3>1. pc[b] = "publishing" /\ remote' = [remote EXCEPT ![b].pr = shown]
        BY <2>3 DEF Publish
      <3> HIDE DEF shown
      <3>2. ~remote[b].pr
        BY <2>1, <3>1 DEF Sound
      <3>3. remote'[b] = [remote[b] EXCEPT !.pr = shown]
        BY <2>1, <3>1
      <3>4. remote'[b].pr = shown /\ remote'[b].merged = remote[b].merged
        BY <2>1, <3>3 DEF Branch
      <3> QED BY <2>1, <3>2, <3>3, <3>4 DEF Branch
    <2>4. ASSUME Merge(b) PROVE Stands(b)
      <3>1. remote' = [remote EXCEPT ![b].merged = TRUE]
        BY <2>4 DEF Merge
      <3>2. remote'[b] = [remote[b] EXCEPT !.merged = TRUE]
        BY <2>1, <3>1
      <3>3. remote'[b].pr = remote[b].pr /\ remote'[b].merged = TRUE
        BY <2>1, <3>2 DEF Branch
      <3> QED BY <2>1, <3>2, <3>3 DEF Branch
    <2>5. ASSUME NEW finding \in Status, NEW reached \in BOOLEAN, Deliver(b, finding, reached)
          PROVE  Stands(b)
      <3>1. CASE UNCHANGED remote
        BY <2>2, <3>1
      <3>2. CASE FastForward(b)
        <4>1. work[b].past => remote[b].merged
          BY <2>1, <2>5 DEF Deliver, Sound
        <4> QED BY <3>2, <4>1 DEF FastForward
      <3> QED BY <2>5, <3>1, <3>2 DEF Deliver
    <2>6. ASSUME NEW c \in Build, Step(c) PROVE Stands(b)
      <3>1. CASE c = b
        <4>1. \/ remote' = remote
              \/ \E created \in BOOLEAN : Publish(b, created)
              \/ \E finding \in Status, reached \in BOOLEAN : Deliver(b, finding, reached)
          BY <2>6, <3>1 DEF Step, Begin, Implement, Test, Repair, Review, Finish, Invoke
        <4> QED BY <2>2, <2>3, <2>5, <4>1
      <3>2. CASE c # b
        <4>1. Apart(c)
          BY <1>1, <2>6, BeginStep, PublishStep, ImplementStep, RepairStep, TestStep, ReviewStep,
             DeliverStep, FinishStep DEF Step, Keeps
        <4> QED BY <2>2, <3>2, <4>1 DEF Apart
      <3> QED BY <3>1, <3>2
    <2>7. ASSUME NEW c \in Build, Merge(c) PROVE Stands(b)
      <3>1. CASE c = b
        BY <2>4, <2>7, <3>1
      <3>2. CASE c # b
        <4>1. remote'[b] = remote[b]
          BY <2>1, <2>7, <3>2 DEF Merge
        <4> QED BY <2>2, <4>1
      <3> QED BY <3>1, <3>2
    <2>8. CASE \/ Time \/ Crash \/ UNCHANGED vars
               \/ \E h \in Harness, verdict \in Verdict : Advise(h, verdict)
               \/ \E c \in Build : Stop(c)
      <3>1. remote' = remote
        BY <2>8 DEF Time, Crash, vars, Advise, Stop, buildVars
      <3> QED BY <2>2, <3>1
    <2> QED BY <1>1, <2>6, <2>7, <2>8 DEF Next
  <1>2. IInv /\ [Next]_vars => [\A b \in Build : Stands(b)]_vars
    BY <1>1
  <1>3. Spec => [][\A b \in Build : Stands(b)]_vars
    BY Inductive, <1>2, PTL DEF Spec
  <1> QED BY <1>3 DEF PullRequestStands

(* A harness whose refusal was recognised is not given to a build that starts *)
(* later, until the window has passed or the report was withdrawn; what is no  *)
(* rate limit to classify_failure rests nobody (scoped.py:222-237, 539-550;    *)
(* capacity.py:551-581).                                                       *)
THEOREM Rested == Spec => RefusedIsRested
  <1> DEFINE Given(b, h) == pc[b] = "waiting" /\ pc'[b] = "implementing"
                                /\ h \in {work'[b].implementer, work'[b].reviewer}
             Free(h) == refused[h] = 0 \/ refused[h] <= cleared[h] \/ refused[h] + Window <= clock
  <1>1. ASSUME IInv, NEW h \in Harness, Available(h, Only) PROVE Free(h)
    <2>1. limited[h] <= cleared[h] \/ limited[h] + Window <= clock
      <3>1. limited[h] \in Nat /\ cleared[h] \in Nat /\ clock \in Nat
        BY <1>1 DEF IInv, TypeOK, TypeOKCapacity
      <3> QED BY <1>1, <3>1 DEF Available, CoolingDown
    <2>2. /\ refused[h] \in Nat /\ limited[h] \in Nat /\ cleared[h] \in Nat /\ clock \in Nat
          /\ refused[h] <= limited[h]
      BY <1>1 DEF IInv, TypeOK, TypeOKCapacity, Reported
    <2> QED BY <2>1, <2>2
  <1>2. ASSUME IInv, [Next]_vars, NEW b \in Build, NEW h \in Harness, Given(b, h) PROVE Free(h)
    <2>1. pc \in [Build -> Running \cup {"waiting", "ended"}] /\ work \in [Build -> WorkRecord]
      BY <1>2 DEF IInv, TypeOK
    <2>2. ~UNCHANGED vars /\ pc' # pc
      BY <1>2 DEF vars, buildVars
    <2>3. PICK c \in Build : Step(c)
      <3>1. CASE Crash
        BY <1>2, <2>1, <3>1 DEF Crash
      <3> QED BY <1>2, <2>2, <3>1 DEF Next, Time, Advise, Stop, Merge, buildVars
    <2>4. c = b
      <3>1. Apart(c)
        BY <1>2, <2>3, BeginStep, PublishStep, ImplementStep, RepairStep, TestStep, ReviewStep,
           DeliverStep, FinishStep DEF Step, Keeps
      <3> QED BY <1>2, <3>1 DEF Apart
    <2>5. PICK cloned \in BOOLEAN : Begin(b, cloned)
      BY <1>2, <2>3, <2>4 DEF Step, Publish, Implement, Test, Repair, Review, Deliver, Finish
    <2> DEFINE free == {k \in Harness : Available(k, Only)}
    <2>6. /\ free # {}
          /\ work' = [work EXCEPT ![b].implementer = First(free),
                ![b].reviewer = IF free = Harness THEN "codex" ELSE First(free),
                ![b].past = remote[b].merged]
      <3>1. \/ pc' = [pc EXCEPT ![b] = "finishing"]
            \/ /\ free # {}
               /\ work' = [work EXCEPT ![b].implementer = First(free),
                     ![b].reviewer = IF free = Harness THEN "codex" ELSE First(free),
                     ![b].past = remote[b].merged]
        BY <2>5 DEF Begin, Goto, Result
      <3> QED BY <1>2, <2>1, <3>1
    <2>7. free \in SUBSET Harness
      OBVIOUS
    <2>8. \A k \in free : Free(k)
      BY <1>1, <1>2
    <2> HIDE DEF free
    <2>9. First(free) \in free /\ (free = Harness => "codex" \in free)
      BY <2>6, <2>7 DEF First, Harness
    <2>10. h \in free
      <3> DEFINE g == IF free = Harness THEN "codex" ELSE First(free)
                 w == [work[b] EXCEPT !.implementer = First(free), !.reviewer = g,
                                      !.past = remote[b].merged]
      <3>1. work'[b] = w
        BY <2>1, <2>6
      <3>2. w.implementer = First(free) /\ w.reviewer = g
        BY <2>1 DEF WorkRecord
      <3>3. g \in free
        BY <2>9
      <3> HIDE DEF g, w
      <3> QED BY <1>2, <2>9, <3>1, <3>2, <3>3
    <2> QED BY <2>8, <2>10
  <1>3. IInv /\ [Next]_vars => [\A b \in Build, h \in Harness : Given(b, h) => Free(h)]_vars
    BY <1>2
  <1>4. Spec => [][\A b \in Build, h \in Harness : Given(b, h) => Free(h)]_vars
    BY Inductive, <1>3, PTL DEF Spec
  <1> QED BY <1>4 DEF RefusedIsRested

-----------------------------------------------------------------------------
(* The steps the run of b can take at most before it has its verdict, if the   *)
(* process does not die.                                                      *)
StepsLeft(b) ==
    LET rounds == 2 * (MaxRepairs - work[b].repairs)
    IN  CASE pc[b] = "waiting" -> 2 * MaxRepairs + 7
          [] pc[b] = "implementing" -> 2 * MaxRepairs + 6
          [] pc[b] = "testing" -> rounds + 5
          [] pc[b] = "repairing" -> rounds + 4
          [] pc[b] = "reviewing" -> 4
          [] pc[b] = "delivering" -> 3
          [] pc[b] = "publishing" -> 2
          [] pc[b] = "finishing" -> 1
          [] OTHER -> 0

(* How far the run of b still is from its verdict. *)
LEMMA StepsLeftType ==
  ASSUME IInv, NEW b \in Build
  PROVE  /\ StepsLeft(b) \in 0..(2 * MaxRepairs + 7)
         /\ StepsLeft(b) = 0 <=> pc[b] = "ended"
         /\ pc[b] = "implementing" => StepsLeft(b) = 2 * MaxRepairs + 6
         /\ pc[b] \in {"testing", "repairing"} => StepsLeft(b) > 4
         /\ pc[b] \in {"implementing", "testing", "repairing", "reviewing", "delivering",
                       "publishing"} => StepsLeft(b) > 1
  <1>1. work[b].repairs \in Nat /\ Sound(b) /\ pc[b] \in Running \cup {"waiting", "ended"}
    BY DEF IInv, TypeOK, WorkRecord
  <1> QED BY <1>1 DEF StepsLeft, Sound, Running

LEMMA StepLowers ==
  ASSUME IInv, NEW b \in Build, Step(b)
  PROVE  StepsLeft(b)' < StepsLeft(b)
  <1>0. /\ TypeOK /\ Sound(b) /\ work[b] \in WorkRecord /\ work[b].repairs \in Nat
        /\ pc \in [Build -> Running \cup {"waiting", "ended"}]
    BY DEF IInv, TypeOK, WorkRecord
  <1>1. \A outcome : Result(b, outcome) => pc'[b] = "finishing"
    BY <1>0 DEF Result, Goto
  <1>2. pc'[b] = "finishing" => StepsLeft(b)' = 1
    BY DEF StepsLeft
  <1>3. ASSUME NEW cloned \in BOOLEAN, Begin(b, cloned) PROVE StepsLeft(b)' < StepsLeft(b)
    <2>1. pc[b] = "waiting" /\ pc'[b] \in {"finishing", "implementing"}
      BY <1>0, <1>1, <1>3 DEF Begin, Goto
    <2> QED BY <2>1 DEF StepsLeft
  <1>4. ASSUME NEW created \in BOOLEAN, Publish(b, created) PROVE StepsLeft(b)' < StepsLeft(b)
    BY <1>1, <1>2, <1>4, StepsLeftType DEF Publish
  <1>5. ASSUME NEW answer \in Answer, NEW changed \in BOOLEAN, NEW committed \in BOOLEAN,
               Implement(b, answer, changed, committed)
        PROVE  StepsLeft(b)' < StepsLeft(b)
    <2>1. pc[b] = "implementing" /\ StepsLeft(b) = 2 * MaxRepairs + 6
      BY <1>5, StepsLeftType DEF Implement
    <2>2. CASE Write(b, committed, 0) /\ Goto(b, "testing")
      <3>1. PICK w \in WorkRecord : work' = [work EXCEPT ![b] = w] /\ w.repairs = 0
        BY <1>0, <2>2, WriteOf
      <3>2. pc'[b] = "testing" /\ work'[b].repairs = 0
        BY <1>0, <2>2, <3>1 DEF Goto, TypeOK
      <3>3. StepsLeft(b)' = 2 * (MaxRepairs - 0) + 5
        BY <3>2 DEF StepsLeft
      <3> QED BY <2>1, <3>3
    <2>3. CASE \E outcome : Result(b, outcome)
      BY <1>1, <1>2, <2>1, <2>3
    <2> QED BY <1>5, <2>2, <2>3 DEF Implement
  <1>6. ASSUME NEW answer \in Answer, NEW changed \in BOOLEAN, NEW committed \in BOOLEAN,
               Repair(b, answer, changed, committed)
        PROVE  StepsLeft(b)' < StepsLeft(b)
    <2>1. pc[b] = "repairing"
      BY <1>6 DEF Repair
    <2>2. CASE Result(b, "tests_failed")
      BY <1>1, <1>2, <2>1, <2>2, StepsLeftType
    <2>3. CASE /\ Goto(b, "testing")
               /\ IF changed THEN Write(b, committed, work[b].repairs + 1)
                  ELSE work' = [work EXCEPT ![b].repairs = work[b].repairs + 1]
      <3>1. PICK w \in WorkRecord :
              work' = [work EXCEPT ![b] = w] /\ w.repairs = work[b].repairs + 1
        BY <1>0, <2>3, RepairedOf
      <3>2. pc'[b] = "testing" /\ work'[b].repairs = work[b].repairs + 1
        BY <1>0, <2>3, <3>1 DEF Goto, TypeOK
      <3>3. StepsLeft(b)' = 2 * (MaxRepairs - (work[b].repairs + 1)) + 5
        BY <3>2 DEF StepsLeft
      <3>4. StepsLeft(b) = 2 * (MaxRepairs - work[b].repairs) + 4
        BY <2>1 DEF StepsLeft
      <3> QED BY <1>0, <3>3, <3>4
    <2> QED BY <1>6, <2>2, <2>3 DEF Repair
  <1>7. ASSUME NEW status \in Status, Test(b, status) PROVE StepsLeft(b)' < StepsLeft(b)
    <2>1. pc[b] = "testing"
      BY <1>7 DEF Test
    <2>2. CASE Result(b, "tests_failed")
      BY <1>1, <1>2, <2>1, <2>2, StepsLeftType
    <2>3. CASE /\ Goto(b, IF status = "failed" THEN "repairing" ELSE "reviewing")
               /\ work' = [work EXCEPT ![b].tested = work[b].tree, ![b].suite = status]
      <3> DEFINE w == [work[b] EXCEPT !.tested = work[b].tree, !.suite = status]
      <3>1. work'[b] = w /\ pc'[b] \in {"repairing", "reviewing"}
        BY <1>0, <2>3 DEF Goto, TypeOK
      <3>2. w.repairs = work[b].repairs
        BY <1>0 DEF WorkRecord
      <3> HIDE DEF w
      <3>3. work'[b].repairs = work[b].repairs
        BY <3>1, <3>2
      <3>4. CASE pc'[b] = "repairing"
        BY <1>0, <2>1, <3>3, <3>4 DEF StepsLeft
      <3>5. CASE pc'[b] = "reviewing"
        <4>1. StepsLeft(b)' = 4
          BY <3>5 DEF StepsLeft
        <4> QED BY <2>1, <4>1, StepsLeftType
      <3> QED BY <3>1, <3>4, <3>5
    <2> QED BY <1>7, <2>2, <2>3 DEF Test
  <1>8. ASSUME NEW answer \in Answer, NEW verdict, Review(b, answer, verdict)
        PROVE  StepsLeft(b)' < StepsLeft(b)
    <2>1. pc[b] = "reviewing" /\ pc'[b] \in {"finishing", "delivering"}
      BY <1>0, <1>1, <1>8 DEF Review, Goto
    <2> QED BY <2>1 DEF StepsLeft
  <1>9. ASSUME NEW finding, NEW reached, Deliver(b, finding, reached)
        PROVE  StepsLeft(b)' < StepsLeft(b)
    <2>1. pc[b] = "delivering" /\ pc'[b] \in {"finishing", "publishing"}
      BY <1>0, <1>1, <1>9 DEF Deliver, Goto
    <2> QED BY <2>1 DEF StepsLeft
  <1>10. ASSUME Finish(b) PROVE StepsLeft(b)' < StepsLeft(b)
    <2>1. pc[b] = "finishing" /\ pc'[b] = "ended"
      BY <1>0, <1>10 DEF Finish, Goto
    <2> QED BY <2>1 DEF StepsLeft
  <1> QED BY <1>3, <1>4, <1>5, <1>6, <1>7, <1>8, <1>9, <1>10 DEF Step

(* What EveryBuildEnds rests on besides fairness: whatever the builds do at    *)
(* once, each has only so many steps left, has its verdict when none is left,  *)
(* and goes back to the queue only when the process dies under it              *)
(* (scoped.py:769-814; scheduler.py:263-286).                                  *)
THEOREM StepsRunOut ==
  Spec => [][\A b \in Build :
                /\ StepsLeft(b) \in 0..(2 * MaxRepairs + 7)
                /\ StepsLeft(b) = 0 <=> pc[b] = "ended"
                /\ \/ pc'[b] = pc[b] /\ work'[b] = work[b]
                   \/ StepsLeft(b)' < StepsLeft(b)
                   \/ /\ pc[b] \in Running /\ pc'[b] = "waiting"
                      /\ events < MaxEvents /\ events' = events + 1]_vars
  <1> DEFINE Nearer(b) ==
                /\ StepsLeft(b) \in 0..(2 * MaxRepairs + 7)
                /\ StepsLeft(b) = 0 <=> pc[b] = "ended"
                /\ \/ pc'[b] = pc[b] /\ work'[b] = work[b]
                   \/ StepsLeft(b)' < StepsLeft(b)
                   \/ /\ pc[b] \in Running /\ pc'[b] = "waiting"
                      /\ events < MaxEvents /\ events' = events + 1
  <1>1. ASSUME IInv, [Next]_vars, NEW b \in Build PROVE Nearer(b)
    <2>1. ASSUME NEW c \in Build, Step(c) PROVE Nearer(b)
      <3>1. CASE c = b
        BY <1>1, <2>1, <3>1, StepLowers, StepsLeftType
      <3>2. CASE c # b
        <4>1. Apart(c)
          BY <1>1, <2>1, BeginStep, PublishStep, ImplementStep, RepairStep, TestStep, ReviewStep,
             DeliverStep, FinishStep DEF Step, Keeps
        <4> QED BY <1>1, <3>2, <4>1, StepsLeftType DEF Apart
      <3> QED BY <3>1, <3>2
    <2>2. CASE Crash
      <3>1. /\ pc[b] \in Running \cup {"waiting", "ended"} /\ Sound(b)
            /\ pc'[b] = (IF pc[b] \in Running THEN "waiting" ELSE pc[b]) /\ work'[b] = NoWork
            /\ events < MaxEvents /\ events' = events + 1
        BY <1>1, <2>2 DEF Crash, Event, IInv, TypeOK
      <3> QED BY <1>1, <3>1, StepsLeftType DEF Sound
    <2>3. CASE \/ Time \/ UNCHANGED vars
               \/ \E h \in Harness, verdict \in Verdict : Advise(h, verdict)
               \/ \E c \in Build : Stop(c) \/ Merge(c)
      <3>1. pc' = pc /\ work' = work
        BY <2>3 DEF Time, vars, Advise, Stop, Merge, buildVars
      <3> QED BY <1>1, <3>1, StepsLeftType
    <2> QED BY <1>1, <2>1, <2>2, <2>3 DEF Next
  <1>2. IInv /\ [Next]_vars => [\A b \in Build : Nearer(b)]_vars
    BY <1>1
  <1>3. Spec => [][\A b \in Build : Nearer(b)]_vars
    BY Inductive, <1>2, PTL DEF Spec
  <1> QED BY <1>3
=============================================================================
