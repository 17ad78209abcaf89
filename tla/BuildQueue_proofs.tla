--------------------------- MODULE BuildQueue_proofs ---------------------------
(***************************************************************************)
(* The limit of the build queue, for every number of builds and every      *)
(* width: proofs about BuildQueue.tla.                                     *)
(***************************************************************************)
EXTENDS BuildQueue, FunctionTheorems, FiniteSetTheorems, TLAPS

(* Builds arrive in the order of their numbers. *)
ArrivedInOrder ==
    \A b, c \in 1 .. MaxBuilds : b < c /\ phase[b] = "absent" => phase[c] = "absent"

QueueIInv == QueueTypeOK /\ ArrivedInOrder /\ RunningInOrder

(***************************************************************************)
(* What is ahead of a build is a finite set of build numbers.              *)
(***************************************************************************)
LEMMA AheadIsFinite ==
    ASSUME QueueConstants, NEW b \in 1 .. MaxBuilds
    PROVE  IsFiniteSet(Ahead(b)) /\ IsFiniteSet(Ahead(b)')
<1>1. IsFiniteSet(1 .. MaxBuilds)
  BY FS_Interval DEF QueueConstants
<1>2. Ahead(b) \in SUBSET (1 .. MaxBuilds) /\ Ahead(b)' \in SUBSET (1 .. MaxBuilds)
  BY DEF Ahead
<1>3. QED
  BY <1>1, <1>2, FS_Subset

(***************************************************************************)
(* If every running build has fewer than MaxConcurrent unfinished builds   *)
(* ahead of it, at most MaxConcurrent run: a build is identified by how    *)
(* many running builds precede it, a number below MaxConcurrent.           *)
(***************************************************************************)
LEMMA OrderBoundsRunning ==
    ASSUME QueueConstants, RunningInOrder
    PROVE  RunningWithinLimit
<1> DEFINE Before(b) == {c \in Running : c < b}
           rank == [b \in Running |-> Cardinality(Before(b))]
<1>1. IsFiniteSet(1 .. MaxBuilds)
  BY FS_Interval DEF QueueConstants
<1>2. Running \in SUBSET (1 .. MaxBuilds)
  BY DEF Running
<1>3. ASSUME NEW b \in Running
      PROVE  /\ IsFiniteSet(Before(b))
             /\ Cardinality(Before(b)) \in 0 .. MaxConcurrent - 1
  <2>1. Before(b) \in SUBSET Ahead(b)
    BY <1>2 DEF Running, Ahead, Unfinished
  <2>2. IsFiniteSet(Ahead(b)) /\ Cardinality(Ahead(b)) < MaxConcurrent
    BY <1>2, AheadIsFinite DEF RunningInOrder
  <2>3. IsFiniteSet(Before(b)) /\ Cardinality(Before(b)) <= Cardinality(Ahead(b))
    BY <2>1, <2>2, FS_Subset
  <2>4. Cardinality(Before(b)) \in Nat /\ Cardinality(Ahead(b)) \in Nat
    BY <2>2, <2>3, FS_CardinalityType
  <2>5. QED
    BY <2>2, <2>3, <2>4 DEF QueueConstants
<1>4. ASSUME NEW b \in Running, NEW c \in Running, b < c
      PROVE  rank[b] < rank[c]
  <2>1. \A d \in Running : d \in Int
    BY <1>2
  <2>0. Before(b) \in SUBSET Before(c) /\ b \in Before(c) /\ b \notin Before(b)
    BY <2>1, <1>4
  <2>2. /\ Cardinality(Before(b)) <= Cardinality(Before(c))
        /\ Cardinality(Before(b)) # Cardinality(Before(c))
    BY <2>0, <1>3, FS_Subset
  <2>3. Cardinality(Before(b)) \in Nat /\ Cardinality(Before(c)) \in Nat
    BY <1>3, FS_CardinalityType
  <2>4. QED
    BY <2>2, <2>3
<1>5. rank \in Injection(Running, 0 .. MaxConcurrent - 1)
  <2>1. rank \in [Running -> 0 .. MaxConcurrent - 1]
    BY <1>3
  <2>2. ASSUME NEW b \in Running, NEW c \in Running, rank[b] = rank[c]
        PROVE  b = c
    <3>1. rank[b] \in Int
      BY <2>1
    <3>2. b \in Int /\ c \in Int
      BY <1>2
    <3>3. QED
      BY <1>4, <2>2, <3>1, <3>2
  <2>3. QED
    BY <2>1, <2>2 DEF Injection, IsInjective
<1>6. /\ IsFiniteSet(0 .. MaxConcurrent - 1)
      /\ Cardinality(0 .. MaxConcurrent - 1) = MaxConcurrent
  BY FS_Interval DEF QueueConstants
<1>7. QED
  BY <1>5, <1>6, FS_Injection DEF RunningWithinLimit

(***************************************************************************)
(* Every step keeps the order: the builds ahead of a running build only    *)
(* ever become fewer, for later arrivals queue up behind it.               *)
(***************************************************************************)
LEMMA QueueStep ==
    ASSUME QueueConstants, QueueIInv, [QueueNext]_phase
    PROVE  QueueIInv'
<1> USE DEF QueueIInv
<1>1. QueueTypeOK'
  <2>1. CASE \E b \in 1 .. MaxBuilds : Arrive(b) \/ StartBuild(b)
    BY <2>1 DEF QueueTypeOK, Arrive, StartBuild, Unfinished
  <2>2. CASE \E ending \in SUBSET (1 .. MaxBuilds) : EndBuilds(ending)
    BY <2>2 DEF QueueTypeOK, EndBuilds
  <2>3. CASE UNCHANGED phase
    BY <2>3 DEF QueueTypeOK
  <2>4. QED
    BY <2>1, <2>2, <2>3 DEF QueueNext
<1>2. ArrivedInOrder'
  <2>1. ASSUME NEW b \in 1 .. MaxBuilds, Arrive(b)
        PROVE  ArrivedInOrder'
    BY <2>1 DEF Arrive, ArrivedInOrder, QueueTypeOK
  <2>2. ASSUME NEW b \in 1 .. MaxBuilds, StartBuild(b)
        PROVE  ArrivedInOrder'
    BY <2>2 DEF StartBuild, ArrivedInOrder, QueueTypeOK
  <2>3. CASE \E ending \in SUBSET (1 .. MaxBuilds) : EndBuilds(ending)
    BY <2>3 DEF EndBuilds, ArrivedInOrder, QueueTypeOK, Unfinished, Verdicts
  <2>4. CASE UNCHANGED phase
    BY <2>4 DEF ArrivedInOrder
  <2>5. QED
    BY <2>1, <2>2, <2>3, <2>4 DEF QueueNext
<1>3. ASSUME NEW c \in Running'
      PROVE  /\ Ahead(c)' \in SUBSET Ahead(c)
             /\ Cardinality(Ahead(c)) < MaxConcurrent
  <2>1. c \in 1 .. MaxBuilds /\ phase'[c] = "running"
    BY <1>3 DEF Running
  <2>2. ASSUME NEW b \in 1 .. MaxBuilds, Arrive(b)
        PROVE  /\ Ahead(c)' \in SUBSET Ahead(c)
               /\ Cardinality(Ahead(c)) < MaxConcurrent
    <3>1. c # b /\ phase[c] = "running"
      BY <2>1, <2>2 DEF Arrive, QueueTypeOK
    <3>2. c < b
      BY <2>1, <2>2, <3>1 DEF Arrive, ArrivedInOrder
    <3>3. QED
      BY <2>1, <2>2, <3>1, <3>2 DEF Arrive, Ahead, Running, RunningInOrder, QueueTypeOK
  <2>3. ASSUME NEW b \in 1 .. MaxBuilds, StartBuild(b)
        PROVE  /\ Ahead(c)' \in SUBSET Ahead(c)
               /\ Cardinality(Ahead(c)) < MaxConcurrent
    <3>1. Ahead(c)' \in SUBSET Ahead(c)
      BY <2>1, <2>3 DEF StartBuild, Ahead, Unfinished, QueueTypeOK
    <3>2. c = b \/ c \in Running
      BY <2>1, <2>3 DEF StartBuild, Running, QueueTypeOK
    <3>3. QED
      BY <2>3, <3>1, <3>2 DEF StartBuild, RunningInOrder
  <2>4. ASSUME NEW ending \in SUBSET (1 .. MaxBuilds), EndBuilds(ending)
        PROVE  /\ Ahead(c)' \in SUBSET Ahead(c)
               /\ Cardinality(Ahead(c)) < MaxConcurrent
    <3>1. c \in Running
      BY <2>1, <2>4 DEF EndBuilds, Verdicts, Running
    <3>2. Ahead(c)' \in SUBSET Ahead(c)
      BY <2>4 DEF EndBuilds, Ahead, Verdicts, Unfinished
    <3>3. QED
      BY <3>1, <3>2 DEF RunningInOrder
  <2>5. CASE UNCHANGED phase
    BY <2>1, <2>5 DEF Ahead, Running, RunningInOrder
  <2>6. QED
    BY <2>2, <2>3, <2>4, <2>5 DEF QueueNext
<1>4. RunningInOrder'
  <2>1. ASSUME NEW c \in Running'
        PROVE  Cardinality(Ahead(c)') < MaxConcurrent
    <3>1. c \in 1 .. MaxBuilds
      BY DEF Running
    <3>2. IsFiniteSet(Ahead(c)) /\ IsFiniteSet(Ahead(c)')
      BY <3>1, AheadIsFinite
    <3>3. Cardinality(Ahead(c)') <= Cardinality(Ahead(c))
      BY <1>3, <3>2, FS_Subset
    <3>4. Cardinality(Ahead(c)) \in Nat /\ Cardinality(Ahead(c)') \in Nat
      BY <3>2, FS_CardinalityType
    <3>5. QED
      BY <1>3, <3>3, <3>4 DEF QueueConstants
  <2>2. QED
    BY <2>1 DEF RunningInOrder
<1>5. QED
  BY <1>1, <1>2, <1>4

(***************************************************************************)
(* The inductive invariant holds in every state of the queue.              *)
(***************************************************************************)
THEOREM QueueInductive ==
    ASSUME QueueConstants
    PROVE  QueueSpec => []QueueIInv
<1>1. QueueInit => QueueIInv
  BY DEF QueueInit, QueueIInv, QueueTypeOK, ArrivedInOrder, RunningInOrder, Running
<1>2. QueueIInv /\ [QueueNext]_phase => QueueIInv'
  BY QueueStep
<1>3. QED
  BY <1>1, <1>2, PTL DEF QueueSpec

(***************************************************************************)
(* However many builds arrive, and whatever the width: builds run in order *)
(* and never more than MaxConcurrent at once (scheduler.py:3-8).           *)
(***************************************************************************)
THEOREM QueueLimit ==
    ASSUME QueueConstants
    PROVE  QueueSpec => [](RunningInOrder /\ RunningWithinLimit)
<1>1. QueueIInv => RunningInOrder /\ RunningWithinLimit
  BY OrderBoundsRunning DEF QueueIInv
<1>2. QED
  BY <1>1, QueueInductive, PTL
===============================================================================
