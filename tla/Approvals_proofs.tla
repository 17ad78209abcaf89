--------------------------- MODULE Approvals_proofs ---------------------------
(* Proofs about the approval service. *)
EXTENDS Approvals, TLAPS

(* The names that told and Verdict can take, told apart. *)
LEMMA ChoiceNames ==
    /\ "approve" \in Choices
    /\ "nothing" \notin Choices /\ "expired" \notin Choices
    /\ "unasked" \notin Choices /\ "open" \notin Choices
    /\ Settled = Choices \cup {"expired"}
BY DEF Choices, Settled

(* What Append does to the first decision: it is made, and it is the one. *)
LEMMA FirstDecision ==
    ASSUME NEW s \in Seq(Choices), s = <<>>, NEW choice \in Choices
    PROVE  /\ Append(s, choice) \in Seq(Choices)
           /\ Append(s, choice) # <<>>
           /\ Len(Append(s, choice)) = 1
           /\ Append(s, choice)[1] = choice
           /\ Append(s, choice)[Len(Append(s, choice))] = choice
OBVIOUS

(* A request that is decided has one decision, the current one. *)
LEMMA OnlyDecision ==
    ASSUME NEW s \in Seq(Choices), s # <<>>, Len(s) <= 1
    PROVE  Len(s) = 1 /\ s[Len(s)] = s[1] /\ s[1] \in Choices
OBVIOUS

LEMMA ApprovalInvInit == Init => ApprovalInv
<1> SUFFICES ASSUME Init
             PROVE  ApprovalInv
  OBVIOUS
<1>1. TypeOK
  BY ApprovalConstants DEF Init, TypeOK, Row, NewRow, Card, NewCard
<1>2. OneCard /\ DecidedOnce
  BY DEF Init, OneCard, DecidedOnce, Decided, NewRow, NewCard
<1>3. NoSilentApproval /\ StoredFirst /\ ToldExpired /\ NoCardsLocally /\ NoLateDecisionLocally
  BY ChoiceNames
  DEF Init, NoSilentApproval, StoredFirst, ToldExpired, NoCardsLocally,
      NoLateDecisionLocally, Decided, NewRow, NewCard
<1> QED
  BY <1>1, <1>2, <1>3 DEF ApprovalInv

(* A card that was sent once more is a card. *)
LEMMA CardSentType ==
    ASSUME NEW c \in Card
    PROVE  [c EXCEPT !.sent = @ + 1] \in Card
<1>1. c.sent + 1 \in Nat
  BY DEF Card
<1> QED
  BY <1>1 DEF Card

(* A bound that is not used up leaves room for one more. *)
LEMMA RoomForOne ==
    ASSUME NEW max \in Nat, NEW used \in 0 .. max, used < max
    PROVE  used + 1 \in 0 .. max
OBVIOUS

(***************************************************************************)
(* The answers: a request that has an answer of a person is decided, and a *)
(* decision that exists is told as it is.                                  *)
(***************************************************************************)
LEMMA AnswerKeepsInv ==
    ASSUME ApprovalInv, NEW k \in Requests,
           RequestRoutine(k) \/ RequestAgain(k) \/ Poll(k)
    PROVE  ApprovalInv'
<1>1. UNCHANGED <<row, decisions, posting, updating, card, crashes, faults>>
  BY DEF RequestRoutine, RequestAgain, Poll, tables, handlers, bounds
<1>2. CASE RequestRoutine(k)
  BY <1>1, <1>2, ChoiceNames
  DEF RequestRoutine, Answer, ApprovalInv, TypeOK, OneCard, DecidedOnce,
      NoSilentApproval, StoredFirst, ToldExpired, NoCardsLocally,
      NoLateDecisionLocally, Decided
<1>3. ASSUME Decided(k), Answer(k, CurrentDecision(k)), row[k].stored
      PROVE  ApprovalInv'
  <2>1. /\ CurrentDecision(k) = decisions[k][1]
        /\ decisions[k][1] \in Choices
    BY <1>3, OnlyDecision DEF ApprovalInv, TypeOK, DecidedOnce, Decided, CurrentDecision
  <2> QED
    BY <1>1, <1>3, <2>1, ChoiceNames
    DEF Answer, ApprovalInv, TypeOK, OneCard, DecidedOnce,
        NoSilentApproval, StoredFirst, ToldExpired, NoCardsLocally,
        NoLateDecisionLocally, Decided
<1>4. ASSUME ~Decided(k), row[k].expired, row[k].stored, Answer(k, "expired")
      PROVE  ApprovalInv'
  BY <1>1, <1>4, ChoiceNames
  DEF Answer, ApprovalInv, TypeOK, OneCard, DecidedOnce,
      NoSilentApproval, StoredFirst, ToldExpired, NoCardsLocally,
      NoLateDecisionLocally, Decided
<1> QED
  BY <1>2, <1>3, <1>4 DEF RequestAgain, Poll

(* A new request, its card, and what became of the card. *)
LEMMA CardKeepsInv ==
    ASSUME ApprovalInv, NEW k \in Requests,
           \/ RequestBySlack(k) \/ RequestLocally(k)
           \/ ShowCard(k) \/ PostDelivered(k) \/ PostFailed(k) \/ Expire(k)
    PROVE  ApprovalInv'
<1>1. UNCHANGED <<decisions, updating, told>>
  BY DEF RequestBySlack, RequestLocally, ShowCard, PostDelivered, PostFailed,
         Expire, tables, handlers
<1>2. CASE RequestBySlack(k)
  <2>1. TypeOK' /\ OneCard'
    <3>1. card[k].sent = 0
      BY <1>2, ApprovalConstants DEF RequestBySlack, ApprovalInv, TypeOK, OneCard, Card, Row
    <3>2. row' \in [Requests -> Row]
      BY <1>2 DEF RequestBySlack, ApprovalInv, TypeOK, Row
    <3>3. card' \in [Requests -> Card]
      BY <1>2, CardSentType DEF RequestBySlack, ApprovalInv, TypeOK
    <3>4. TypeOK'
      BY <1>1, <1>2, <3>2, <3>3 DEF RequestBySlack, ApprovalInv, TypeOK, bounds
    <3> QED
      BY <1>2, <3>1, <3>4 DEF RequestBySlack, ApprovalInv, TypeOK, OneCard, Row, Card
  <2> QED
    BY <1>1, <1>2, <2>1
    DEF RequestBySlack, ApprovalInv, TypeOK, OneCard, DecidedOnce, NoSilentApproval,
        StoredFirst, ToldExpired, NoCardsLocally, NoLateDecisionLocally, Decided, Row, Card
<1>3. CASE RequestLocally(k)
  <2>1. TypeOK'
    BY <1>1, <1>3 DEF RequestLocally, ApprovalInv, TypeOK, Row, handlers, bounds
  <2> QED
    BY <1>1, <1>3, <2>1
    DEF RequestLocally, ApprovalInv, TypeOK, OneCard, DecidedOnce, NoSilentApproval,
        StoredFirst, ToldExpired, NoCardsLocally, NoLateDecisionLocally, Decided,
        Row, handlers
<1>4. CASE ShowCard(k)
  <2>1. card[k].sent = 1
    BY <1>4 DEF ShowCard, ApprovalInv, TypeOK, OneCard, Card
  <2>2. /\ card' \in [Requests -> Card]
        /\ \A j \in Requests : /\ card'[j].sent = card[j].sent
                               /\ card'[j].resolved = card[j].resolved
                               /\ j # k => card'[j].shown = card[j].shown
    BY <1>4 DEF ShowCard, ApprovalInv, TypeOK, Card
  <2>3. UNCHANGED <<row, posting, crashes, faults>>
    BY <1>4 DEF ShowCard, tables, handlers, bounds
  <2> QED
    BY <1>1, <2>1, <2>2, <2>3
    DEF ApprovalInv, TypeOK, OneCard, DecidedOnce, NoSilentApproval,
        StoredFirst, ToldExpired, NoCardsLocally, NoLateDecisionLocally, Decided
<1>5. CASE PostDelivered(k) \/ PostFailed(k)
  <2>1. UNCHANGED card /\ posting' \subseteq posting
    BY <1>5 DEF PostDelivered, PostFailed
  <2>2. PICK channel \in {"slack", "local"}, ref \in BOOLEAN : MarkNotified(k, channel, ref)
    BY <1>5 DEF PostDelivered, PostFailed
  <2>3. /\ row' \in [Requests -> Row]
        /\ \A j \in Requests : row'[j].stored = row[j].stored /\ row'[j].expired = row[j].expired
    BY <2>2 DEF MarkNotified, ApprovalInv, TypeOK, Row
  <2>4. crashes' \in 0 .. MaxCrashes /\ faults' \in 0 .. MaxFaults
    <3>1. CASE PostDelivered(k)
      BY <3>1 DEF PostDelivered, ApprovalInv, TypeOK, bounds
    <3>2. CASE PostFailed(k)
      BY <3>2, ApprovalConstants, RoomForOne DEF PostFailed, ApprovalInv, TypeOK
    <3> QED
      BY <1>5, <3>1, <3>2
  <2> QED
    BY <1>1, <2>1, <2>3, <2>4
    DEF ApprovalInv, TypeOK, OneCard, DecidedOnce, NoSilentApproval,
        StoredFirst, ToldExpired, NoCardsLocally, NoLateDecisionLocally, Decided
<1>6. CASE Expire(k)
  <2>1. UNCHANGED <<posting, card, crashes, faults>>
    BY <1>6 DEF Expire, handlers, bounds
  <2>2. /\ row' \in [Requests -> Row]
        /\ \A j \in Requests : /\ row'[j].stored = row[j].stored
                               /\ row[j].expired => row'[j].expired
                               /\ row'[j].expired => row'[j].stored
    BY <1>6 DEF Expire, ApprovalInv, TypeOK, StoredFirst, Row
  <2> QED
    BY <1>1, <2>1, <2>2
    DEF ApprovalInv, TypeOK, OneCard, DecidedOnce, NoSilentApproval,
        StoredFirst, ToldExpired, NoCardsLocally, NoLateDecisionLocally, Decided
<1> QED
  BY <1>2, <1>3, <1>4, <1>5, <1>6

(***************************************************************************)
(* A decision by either channel is the first one.  Without Slack a card    *)
(* does not exist, so it is made on the page, before the request expired.  *)
(***************************************************************************)
LEMMA DecisionKeepsInv ==
    ASSUME ApprovalInv, NEW k \in Requests, NEW choice \in Choices,
           DecideOnPage(k, choice) \/ Click(k, choice)
    PROVE  ApprovalInv'
<1>1. row[k].stored /\ ~Decided(k) /\ Decide(k, choice)
  BY DEF DecideOnPage, Click
<1>2. UNCHANGED <<row, posting, card, told, crashes, faults>>
  BY <1>1 DEF Decide, bounds
<1>3. /\ decisions'[k] \in Seq(Choices)
      /\ decisions'[k] # <<>> /\ Len(decisions'[k]) = 1
      /\ \A j \in Requests \ {k} : decisions'[j] = decisions[j]
      /\ decisions' \in [Requests -> Seq(Choices)]
  BY <1>1, FirstDecision DEF Decide, Decided, ApprovalInv, TypeOK
<1>4. updating' \subseteq updating \cup {k}
  BY <1>1 DEF Decide
<1>5. told[k] \notin Choices
  BY <1>1 DEF ApprovalInv, NoSilentApproval, StoredFirst, Decided
<1>6. ~SlackInUse => ~row[k].expired
  BY ApprovalConstants DEF DecideOnPage, Click, ApprovalInv, OneCard, NoCardsLocally
<1>7. TypeOK' /\ OneCard'
  BY <1>2, <1>3, <1>4 DEF ApprovalInv, TypeOK, OneCard
<1>10. DecidedOnce'
  <2>1. ASSUME NEW j \in Requests, j # k
        PROVE  /\ Len(decisions'[j]) <= 1
               /\ card'[j].resolved \/ j \in updating' => Decided(j)'
    BY <1>2, <1>3, <1>4, <2>1 DEF ApprovalInv, DecidedOnce, Decided
  <2>2. Len(decisions'[k]) <= 1 /\ Decided(k)'
    BY <1>3 DEF Decided
  <2> QED
    BY <2>1, <2>2 DEF DecidedOnce
<1>8. NoSilentApproval' /\ StoredFirst' /\ ToldExpired' /\ NoCardsLocally'
  BY <1>1, <1>2, <1>3, <1>5
  DEF ApprovalInv, NoSilentApproval, StoredFirst, ToldExpired, NoCardsLocally, Decided
<1>9. NoLateDecisionLocally'
  BY <1>2, <1>3, <1>6 DEF ApprovalInv, NoLateDecisionLocally, ToldExpired, Decided
<1> QED
  BY <1>7, <1>8, <1>9, <1>10 DEF ApprovalInv

(* A card that is updated is one of a decided request. *)
LEMMA UpdateKeepsInv ==
    ASSUME ApprovalInv, NEW k \in Requests, UpdateDelivered(k) \/ UpdateFailed(k)
    PROVE  ApprovalInv'
<1>1. /\ UNCHANGED <<row, decisions, posting, told>>
      /\ updating' \subseteq updating
  BY DEF UpdateDelivered, UpdateFailed, tables
<1>2. crashes' \in 0 .. MaxCrashes /\ faults' \in 0 .. MaxFaults
  <2>1. CASE UpdateDelivered(k)
    BY <2>1 DEF UpdateDelivered, ApprovalInv, TypeOK, bounds
  <2>2. CASE UpdateFailed(k)
    BY <2>2, ApprovalConstants, RoomForOne DEF UpdateFailed, ApprovalInv, TypeOK
  <2> QED
    BY <2>1, <2>2
<1>3. /\ card' \in [Requests -> Card]
      /\ \A j \in Requests : /\ card'[j].sent = card[j].sent
                             /\ card'[j].shown = card[j].shown
                             /\ card'[j].resolved => card[j].resolved \/ j \in updating
  <2>1. CASE UpdateDelivered(k)
    BY <2>1 DEF UpdateDelivered, ApprovalInv, TypeOK, Card
  <2>2. CASE UpdateFailed(k)
    BY <2>2 DEF UpdateFailed, ApprovalInv, TypeOK
  <2> QED
    BY <2>1, <2>2
<1> QED
  BY <1>1, <1>2, <1>3
  DEF ApprovalInv, TypeOK, OneCard, DecidedOnce, NoSilentApproval,
      StoredFirst, ToldExpired, NoCardsLocally, NoLateDecisionLocally, Decided

LEMMA ApprovalInvStep == ApprovalInv /\ [Next]_vars => ApprovalInv'
<1> SUFFICES ASSUME ApprovalInv, [Next]_vars
             PROVE  ApprovalInv'
  OBVIOUS
<1>1. CASE UNCHANGED vars
  BY <1>1
  DEF vars, tables, handlers, bounds, ApprovalInv, TypeOK, OneCard, DecidedOnce,
      NoSilentApproval, StoredFirst, ToldExpired, NoCardsLocally, NoLateDecisionLocally,
      Decided
<1>2. CASE Crash
  BY <1>2, ApprovalConstants, RoomForOne
  DEF Crash, tables, ApprovalInv, TypeOK, OneCard, DecidedOnce,
      NoSilentApproval, StoredFirst, ToldExpired, NoCardsLocally, NoLateDecisionLocally,
      Decided
<1>3. ASSUME NEW k \in Requests, Asking(k)
      PROVE  ApprovalInv'
  BY <1>3, AnswerKeepsInv, CardKeepsInv DEF Asking
<1>4. ASSUME NEW k \in Requests, Deciding(k)
      PROVE  ApprovalInv'
  BY <1>4, DecisionKeepsInv, UpdateKeepsInv DEF Deciding
<1> QED
  BY <1>1, <1>2, <1>3, <1>4 DEF Next

(***************************************************************************)
(* The service's invariant: one card and one decision for a request, and   *)
(* no approval without a person's choice, with both channels and across    *)
(* deaths of the process (store.py, service.py).                           *)
(***************************************************************************)
THEOREM ApprovalInvariant == Spec => []ApprovalInv
BY ApprovalInvInit, ApprovalInvStep, PTL DEF Spec

(* A request has one card at most, through retries of Slack and deaths of the   *)
(* service (store.create, mark_notified).                                      *)
THEOREM OneCardAlways == Spec => []OneCard
<1>1. ApprovalInv => OneCard
  BY DEF ApprovalInv
<1> QED
  BY <1>1, ApprovalInvariant, PTL

(* Of two decisions by two channels one counts (store.decide).                 *)
THEOREM DecidedOnceAlways == Spec => []DecidedOnce
<1>1. ApprovalInv => DecidedOnce
  BY DEF ApprovalInv
<1> QED
  BY <1>1, ApprovalInvariant, PTL

(* A build is told to go on only by a person (approval_status).                *)
THEOREM SilenceIsNoApproval == Spec => []NoSilentApproval
<1>1. ApprovalInv => NoSilentApproval
  BY DEF ApprovalInv
<1> QED
  BY <1>1, ApprovalInvariant, PTL

-------------------------------------------------------------------------------
(* Answers *)

(* What a step tells about a request, and what it leaves as it was told. *)
LEMMA ToldStep ==
    ASSUME ApprovalInv, [Next]_vars, NEW k \in Requests, told'[k] # told[k]
    PROVE  told[k] \notin Choices
<1> SUFFICES ASSUME told[k] \in Choices
             PROVE  FALSE
  OBVIOUS
<1>1. \E j \in Requests : RequestRoutine(j) \/ RequestAgain(j) \/ Poll(j)
  BY DEF Next, vars, Crash, Asking, Deciding, RequestBySlack, RequestLocally, ShowCard,
         PostDelivered, PostFailed, Expire, DecideOnPage, Click, Decide,
         UpdateDelivered, UpdateFailed
<1>2. PICK j \in Requests : RequestRoutine(j) \/ RequestAgain(j) \/ Poll(j)
  BY <1>1
<1>3. j = k
  BY <1>2 DEF RequestRoutine, RequestAgain, Poll, Answer, ApprovalInv, TypeOK
<1>4. k \notin Routine
  BY <1>2, <1>3, ChoiceNames
  DEF RequestRoutine, RequestAgain, Poll, Answer, ApprovalInv, TypeOK, StoredFirst, ToldExpired
<1>5. Decided(k) /\ decisions[k][1] = told[k]
  BY <1>4 DEF ApprovalInv, NoSilentApproval
<1>6. CurrentDecision(k) = told[k]
  BY <1>5, OnlyDecision DEF ApprovalInv, TypeOK, DecidedOnce, Decided, CurrentDecision
<1>7. told'[k] = CurrentDecision(k)
  BY <1>2, <1>3, <1>4, <1>5 DEF RequestRoutine, RequestAgain, Poll, Answer, ApprovalInv, TypeOK
<1> QED
  BY <1>6, <1>7

(***************************************************************************)
(* A build that was told what a person decided is never told anything      *)
(* else, whichever channels are in use (current_decision).                 *)
(***************************************************************************)
THEOREM WordStands == Spec => PersonsWordStands
<1>1. ApprovalInv /\ [Next]_vars =>
          [\A k \in Requests : told[k] \in Choices => told'[k] = told[k]]_vars
  BY ToldStep
<1> QED
  BY <1>1, ApprovalInvariant, PTL DEF Spec, PersonsWordStands

(***************************************************************************)
(* With the page alone a build that was paused because nobody answered     *)
(* stays paused (decide refuses what comes after expires_at).              *)
(***************************************************************************)
THEOREM LocalExpiry ==
    ASSUME ~SlackInUse
    PROVE  Spec => ExpiryIsFinal
<1>1. ApprovalInv /\ [Next]_vars =>
          [\A k \in Requests : told[k] = "expired" => told'[k] = "expired"]_vars
  <2> SUFFICES ASSUME ApprovalInv, Next, NEW k \in Requests,
                      told[k] = "expired", told'[k] # told[k]
               PROVE  FALSE
    OBVIOUS
  <2>1. PICK j \in Requests : RequestRoutine(j) \/ RequestAgain(j) \/ Poll(j)
    BY DEF Next, Crash, Asking, Deciding, RequestBySlack, RequestLocally, ShowCard,
           PostDelivered, PostFailed, Expire, DecideOnPage, Click, Decide,
           UpdateDelivered, UpdateFailed
  <2>2. j = k
    BY <2>1 DEF RequestRoutine, RequestAgain, Poll, Answer, ApprovalInv, TypeOK
  <2>3. ~Decided(k) /\ k \notin Routine
    BY DEF ApprovalInv, ToldExpired, NoLateDecisionLocally
  <2>4. Answer(k, "expired")
    BY <2>1, <2>2, <2>3 DEF RequestRoutine, RequestAgain, Poll
  <2> QED
    BY <2>4 DEF Answer, ApprovalInv, TypeOK
<1> QED
  BY <1>1, ApprovalInvariant, PTL DEF Spec, ExpiryIsFinal

-------------------------------------------------------------------------------
(* The refinement, where the page is the only channel *)

LEMMA VerdictStays ==
    ASSUME UNCHANGED <<row, decisions, told>>
    PROVE  UNCHANGED <<Verdict, told>>
BY DEF Verdict, Decided, CurrentDecision

(* A step of one request is one in the verdicts. *)
LEMMA VerdictOfOne ==
    ASSUME NEW k \in Requests, NEW v,
           \A j \in Requests \ {k} :
               /\ row'[j] = row[j] /\ decisions'[j] = decisions[j] /\ told'[j] = told[j],
           Verdict'[k] = v
    PROVE  Verdict' = [Verdict EXCEPT ![k] = v]
<1>1. \A j \in Requests \ {k} : Verdict'[j] = Verdict[j]
  BY DEF Verdict, Decided, CurrentDecision
<1>2. Verdict = [j \in Requests |-> Verdict[j]] /\ Verdict' = [j \in Requests |-> Verdict'[j]]
  BY DEF Verdict
<1> QED
  BY <1>1, <1>2

LEMMA GateInitMaps == Init => Gate!GateInit
BY DEF Init, NewRow, Gate!GateInit, Verdict, Decided

(* Requests and answers: Ask, AskRoutine and Tell. *)
LEMMA AskingImplements ==
    ASSUME ApprovalInv, ~SlackInUse, NEW k \in Requests, Asking(k)
    PROVE  Gate!GateNext \/ UNCHANGED <<Verdict, told>>
<1>1. CASE RequestRoutine(k)
  <2>1. Verdict'[k] = "approve"
    BY <1>1, ChoiceNames DEF RequestRoutine, Answer, Verdict, ApprovalInv, TypeOK
  <2>2. Verdict' = [Verdict EXCEPT ![k] = "approve"]
    BY <1>1, <2>1, VerdictOfOne DEF RequestRoutine, Answer, tables, ApprovalInv, TypeOK
  <2>3. Gate!AskRoutine(k)
    BY <1>1, <2>2 DEF RequestRoutine, Answer, Gate!AskRoutine
  <2> QED
    BY <2>3 DEF Gate!GateNext
<1>2. CASE RequestLocally(k)
  <2>1. ~Decided(k) /\ ~row[k].expired /\ k \notin Routine
    BY <1>2 DEF RequestLocally, ApprovalInv, StoredFirst
  <2>2. Verdict[k] = "unasked"
    BY <1>2, <2>1 DEF RequestLocally, Verdict
  <2>3. /\ row'[k].stored /\ row'[k].expired = row[k].expired
        /\ decisions' = decisions /\ told' = told
        /\ \A j \in Requests \ {k} : row'[j] = row[j]
    BY <1>2 DEF RequestLocally, ApprovalInv, TypeOK, Row
  <2>4. Verdict'[k] = "open"
    BY <2>1, <2>3 DEF Verdict, Decided
  <2>5. Gate!Ask(k)
    BY <2>1, <2>2, <2>3, <2>4, VerdictOfOne DEF Gate!Ask
  <2> QED
    BY <2>5 DEF Gate!GateNext
<1>3. ASSUME row[k].stored, Decided(k), Answer(k, CurrentDecision(k)),
             UNCHANGED <<row, decisions>>
      PROVE  Gate!GateNext
  <2>1. k \notin Routine /\ Verdict[k] = CurrentDecision(k)
    BY <1>3 DEF ApprovalInv, StoredFirst, Verdict
  <2>2. Verdict[k] \in Choices
    BY <1>3, <2>1, OnlyDecision
    DEF ApprovalInv, TypeOK, DecidedOnce, Decided, CurrentDecision
  <2>3. Gate!Tell(k)
    <3>1. UNCHANGED Verdict
      <4>1. \A j \in Requests : Verdict'[j] = Verdict[j]
        BY <1>3, <2>1 DEF Answer, Verdict, Decided, CurrentDecision, ApprovalInv, TypeOK
      <4> QED
        BY <4>1 DEF Verdict
    <3> QED
      BY <1>3, <2>1, <2>2, <3>1 DEF Answer, Gate!Tell, Gate!Settled, Gate!Choices, Choices
  <2> QED
    BY <2>3 DEF Gate!GateNext
<1>4. ASSUME row[k].stored, ~Decided(k), row[k].expired, Answer(k, "expired"),
             UNCHANGED <<row, decisions>>
      PROVE  Gate!GateNext
  <2>1. k \notin Routine /\ Verdict[k] = "expired"
    BY <1>4 DEF ApprovalInv, StoredFirst, Verdict
  <2>2. UNCHANGED Verdict
    <3>1. \A j \in Requests : Verdict'[j] = Verdict[j]
      BY <1>4, <2>1 DEF Answer, Verdict, Decided, CurrentDecision, ApprovalInv, TypeOK
    <3> QED
      BY <3>1 DEF Verdict
  <2>3. Gate!Tell(k)
    BY <1>4, <2>1, <2>2 DEF Answer, Gate!Tell, Gate!Settled
  <2> QED
    BY <2>3 DEF Gate!GateNext
<1>5. CASE Expire(k)
  <2>1. /\ row'[k].stored /\ row'[k].expired
        /\ decisions' = decisions /\ told' = told
        /\ \A j \in Requests \ {k} : row'[j] = row[j]
    BY <1>5 DEF Expire, ApprovalInv, TypeOK, Row
  <2>2. CASE Decided(k)
    <3>1. \A j \in Requests : Verdict'[j] = Verdict[j]
      BY <1>5, <2>1, <2>2 DEF Expire, Verdict, Decided, CurrentDecision
    <3> QED
      BY <2>1, <3>1 DEF Verdict
  <2>3. CASE ~Decided(k)
    <3>1. k \notin Routine /\ Verdict[k] = "open"
      BY <1>5, <2>3 DEF Expire, ApprovalInv, StoredFirst, Verdict
    <3>2. Verdict'[k] = "expired"
      BY <2>1, <2>3, <3>1 DEF Verdict, Decided
    <3>3. Gate!Settle(k)
      BY <2>1, <3>1, <3>2, VerdictOfOne DEF Gate!Settle, Gate!Settled
    <3> QED
      BY <3>3 DEF Gate!GateNext
  <2> QED
    BY <2>2, <2>3
<1>6. ~RequestBySlack(k) /\ ~ShowCard(k) /\ ~PostDelivered(k) /\ ~PostFailed(k)
  <2>1. card[k].sent = 0 /\ k \notin posting
    BY DEF ApprovalInv, OneCard, NoCardsLocally
  <2>2. ~ShowCard(k)
    BY <2>1 DEF ShowCard
  <2> QED
    BY <2>1, <2>2 DEF RequestBySlack, PostDelivered, PostFailed
<1> QED
  BY <1>1, <1>2, <1>3, <1>4, <1>5, <1>6 DEF Asking, RequestAgain, Poll, tables

(* A decision on the page settles an open request. *)
LEMMA DecidingImplements ==
    ASSUME ApprovalInv, ~SlackInUse, NEW k \in Requests, Deciding(k)
    PROVE  Gate!GateNext \/ UNCHANGED <<Verdict, told>>
<1>1. ASSUME NEW choice \in Choices, DecideOnPage(k, choice)
      PROVE  Gate!GateNext
  <2>1. /\ k \notin Routine /\ Verdict[k] = "open"
        /\ row' = row /\ told' = told
    BY <1>1 DEF DecideOnPage, Decide, ApprovalInv, StoredFirst, Verdict
  <2>2. /\ \A j \in Requests \ {k} : decisions'[j] = decisions[j]
        /\ decisions'[k] # <<>>
        /\ decisions'[k][Len(decisions'[k])] = choice
    BY <1>1, FirstDecision DEF DecideOnPage, Decide, Decided, ApprovalInv, TypeOK
  <2>3. Verdict'[k] = choice
    BY <1>1, <2>1, <2>2 DEF DecideOnPage, Verdict, Decided, CurrentDecision
  <2>4. Gate!Settle(k)
    BY <2>1, <2>2, <2>3, VerdictOfOne DEF Gate!Settle, Gate!Settled, Gate!Choices, Choices
  <2> QED
    BY <2>4 DEF Gate!GateNext
<1>2. ASSUME NEW choice \in Choices, Click(k, choice)
      PROVE  FALSE
  BY <1>2 DEF Click, ApprovalInv, OneCard, NoCardsLocally
<1>3. CASE UpdateDelivered(k) \/ UpdateFailed(k)
  BY <1>3, VerdictStays DEF UpdateDelivered, UpdateFailed, tables
<1> QED
  BY <1>1, <1>2, <1>3 DEF Deciding

LEMMA GateStep ==
    ASSUME ~SlackInUse
    PROVE  ApprovalInv /\ [Next]_vars => [Gate!GateNext]_(Gate!gateVars)
<1> SUFFICES ASSUME ApprovalInv, [Next]_vars
             PROVE  Gate!GateNext \/ UNCHANGED <<Verdict, told>>
  BY DEF Gate!gateVars
<1>1. CASE UNCHANGED vars
  BY <1>1, VerdictStays DEF vars, tables
<1>2. CASE Crash
  BY <1>2, VerdictStays DEF Crash, tables
<1>3. ASSUME NEW k \in Requests, Asking(k)
      PROVE  Gate!GateNext \/ UNCHANGED <<Verdict, told>>
  BY <1>3, AskingImplements
<1>4. ASSUME NEW k \in Requests, Deciding(k)
      PROVE  Gate!GateNext \/ UNCHANGED <<Verdict, told>>
  BY <1>4, DecidingImplements
<1> QED
  BY <1>1, <1>2, <1>3, <1>4 DEF Next

(***************************************************************************)
(* Where the local page is the only channel, the service is the gate it    *)
(* should be, across deaths of the process: a request is settled once, and *)
(* every answer is that verdict.                                           *)
(***************************************************************************)
THEOREM LocalRefinement ==
    ASSUME ~SlackInUse
    PROVE  Spec => ImplementsGate
<1>1. Init => Gate!GateInit
  BY GateInitMaps
<1>2. ApprovalInv /\ [Next]_vars => [Gate!GateNext]_(Gate!gateVars)
  BY GateStep
<1> QED
  BY <1>1, <1>2, ApprovalInvariant, PTL DEF Spec, ImplementsGate, Gate!GateSpec
===============================================================================
