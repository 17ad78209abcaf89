------------------------------ MODULE Approvals ------------------------------
(***************************************************************************)
(* The approval service: ctswarm/approvals/service.py over the tables of   *)
(* store.py, with Slack (slack.py) as an optional second channel beside    *)
(* the local page.                                                         *)
(*                                                                         *)
(* One asyncio process serves all requests, so a handler runs alone from   *)
(* one await to the next: reading a request, storing it and storing a      *)
(* decision are one step each, and only the calls to Slack divide a        *)
(* handler.  The process can die at any time; the tables survive.          *)
(*                                                                         *)
(* Time is left out: a request that is not decided may expire.             *)
(***************************************************************************)
EXTENDS Integers, Sequences

CONSTANTS
    Requests,    \* what builds ask, identified by content (dedupe_key)
    Routine,     \* the requests that classify finds no rule for
    SlackInUse,  \* whether the Slack token, channel and secret are configured
    MaxCrashes,  \* bound: process deaths
    MaxFaults    \* bound: calls to Slack that fail or get no reply

ASSUME ApprovalConstants ==
    /\ Routine \subseteq Requests
    /\ SlackInUse \in BOOLEAN
    /\ MaxCrashes \in Nat
    /\ MaxFaults \in Nat

VARIABLES
    row,        \* durable: the approvals table
    decisions,  \* durable: the decisions table, append-only
    posting,    \* handlers of request_approval awaiting chat.postMessage
    updating,   \* handlers of a decision awaiting chat.update
    card,       \* Slack: the card of each request
    told,       \* the last settled answer a build was given
    crashes, faults     \* how much of each bound is used

tables == <<row, decisions>>
handlers == <<posting, updating>>
bounds == <<crashes, faults>>
vars == <<tables, handlers, card, told, bounds>>

-------------------------------------------------------------------------------
(* What a person can choose: the four buttons of the page and of the card. *)
Choices == {"approve", "deny", "modify", "pause"}
Settled == Choices \cup {"expired"}

(***************************************************************************)
(* A row of the approvals table.  expired stands for expires_at < now;     *)
(* channel is the one mark_notified wrote with notified_at; messageRef     *)
(* says that the reference of the card is stored.                          *)
(***************************************************************************)
Row ==
    [stored : BOOLEAN, expired : BOOLEAN,
     channel : {"none", "slack", "local"}, messageRef : BOOLEAN]

NewRow ==
    [stored |-> FALSE, expired |-> FALSE, channel |-> "none", messageRef |-> FALSE]

(* sent counts the calls to chat.postMessage. *)
Card == [sent : Nat, shown : BOOLEAN, resolved : BOOLEAN]

NewCard == [sent |-> 0, shown |-> FALSE, resolved |-> FALSE]

TypeOK ==
    /\ row \in [Requests -> Row]
    /\ decisions \in [Requests -> Seq(Choices)]
    /\ posting \subseteq Requests
    /\ updating \subseteq Requests
    /\ card \in [Requests -> Card]
    /\ told \in [Requests -> {"nothing"} \cup Settled]
    /\ crashes \in 0 .. MaxCrashes
    /\ faults \in 0 .. MaxFaults

Init ==
    /\ row = [k \in Requests |-> NewRow]
    /\ decisions = [k \in Requests |-> <<>>]
    /\ posting = {}
    /\ updating = {}
    /\ card = [k \in Requests |-> NewCard]
    /\ told = [k \in Requests |-> "nothing"]
    /\ crashes = 0
    /\ faults = 0

-------------------------------------------------------------------------------
(* Helpers *)

Decided(k) == decisions[k] # <<>>

(* current_decision: the latest. *)
CurrentDecision(k) == decisions[k][Len(decisions[k])]

Answer(k, a) == told' = [told EXCEPT ![k] = a]

(* mark_notified: only the first call writes. *)
MarkNotified(k, channel, ref) ==
    row' = [row EXCEPT ![k] =
              IF @.channel = "none"
              THEN [@ EXCEPT !.channel = channel, !.messageRef = ref] ELSE @]

-------------------------------------------------------------------------------
(* POST /approval/request *)

(* classify finds no rule: approved without a record or a card. *)
RequestRoutine(k) ==
    /\ k \in Routine
    /\ Answer(k, "approve")
    /\ UNCHANGED <<tables, handlers, card, bounds>>

(* Slip: a request nobody was notified of is taken for a new one. *)
RequestUnnotified(k) ==
    /\ k \notin Routine
    /\ row[k].channel = "none"
    /\ k \notin posting
    /\ SlackInUse
    /\ row' = [row EXCEPT ![k].stored = TRUE]
    /\ posting' = posting \cup {k}
    /\ card' = [card EXCEPT ![k].sent = @ + 1]
    /\ UNCHANGED <<decisions, updating, told, bounds>>

(* A new request with Slack: it is stored, and its card leaves. *)
RequestBySlack(k) ==
    /\ k \notin Routine
    /\ ~row[k].stored
    /\ SlackInUse
    /\ row' = [row EXCEPT ![k].stored = TRUE]
    /\ posting' = posting \cup {k}
    /\ card' = [card EXCEPT ![k].sent = @ + 1]
    /\ UNCHANGED <<decisions, updating, told, bounds>>

(* A new request without Slack: post returns at once. *)
RequestLocally(k) ==
    /\ k \notin Routine
    /\ ~row[k].stored
    /\ ~SlackInUse
    /\ row' = [row EXCEPT ![k].stored = TRUE, ![k].channel = "local"]
    /\ UNCHANGED <<decisions, handlers, card, told, bounds>>

(* The same action raised again: no card, and the decision there is. *)
RequestAgain(k) ==
    /\ row[k].stored
    /\ Decided(k)
    /\ Answer(k, CurrentDecision(k))
    /\ UNCHANGED <<tables, handlers, card, bounds>>

(* Slack takes the card up, possibly after the service gave up on it. *)
ShowCard(k) ==
    /\ card[k].sent > 0
    /\ ~card[k].shown
    /\ card' = [card EXCEPT ![k].shown = TRUE]
    /\ UNCHANGED <<tables, handlers, told, bounds>>

PostDelivered(k) ==
    /\ k \in posting
    /\ card[k].shown
    /\ posting' = posting \ {k}
    /\ MarkNotified(k, "slack", TRUE)
    /\ UNCHANGED <<decisions, updating, card, told, bounds>>

(* An error or no reply: the request is left to the local page. *)
PostFailed(k) ==
    /\ k \in posting
    /\ faults < MaxFaults
    /\ faults' = faults + 1
    /\ posting' = posting \ {k}
    /\ MarkNotified(k, "local", FALSE)
    /\ UNCHANGED <<decisions, updating, card, told, crashes>>

-------------------------------------------------------------------------------
(* GET /approval/status *)

(* Slip: silence counts as consent. *)
PollLenient(k) ==
    /\ row[k].stored
    /\ \/ Decided(k) /\ Answer(k, CurrentDecision(k))
       \/ ~Decided(k) /\ row[k].expired /\ Answer(k, "approve")
    /\ UNCHANGED <<tables, handlers, card, bounds>>

(* Slip: the expiry counts from when somebody was notified of the request. *)
PollNotified(k) ==
    /\ row[k].stored
    /\ \/ Decided(k) /\ Answer(k, CurrentDecision(k))
       \/ /\ ~Decided(k) /\ row[k].expired /\ row[k].channel # "none"
          /\ Answer(k, "expired")
    /\ UNCHANGED <<tables, handlers, card, bounds>>

(* A decision, or the expiry, which pauses the build; else no answer yet. *)
Poll(k) ==
    /\ row[k].stored
    /\ \/ Decided(k) /\ Answer(k, CurrentDecision(k))
       \/ ~Decided(k) /\ row[k].expired /\ Answer(k, "expired")
    /\ UNCHANGED <<tables, handlers, card, bounds>>

(* A day passes; expiry is computed where it is read. *)
Expire(k) ==
    /\ row[k].stored
    /\ ~row[k].expired
    /\ row' = [row EXCEPT ![k].expired = TRUE]
    /\ UNCHANGED <<decisions, handlers, card, told, bounds>>

-------------------------------------------------------------------------------
(* Decisions *)

(* The decision is stored; a card whose reference is known is updated. *)
Decide(k, choice) ==
    /\ decisions' = [decisions EXCEPT ![k] = Append(@, choice)]
    /\ updating' = IF row[k].messageRef THEN updating \cup {k} ELSE updating
    /\ UNCHANGED <<row, posting, card, told, bounds>>

(* Slip: the expiry is not looked at. *)
DecideOnPageAnyTime(k, choice) ==
    /\ row[k].stored
    /\ ~Decided(k)
    /\ Decide(k, choice)

(* Slip: a decision on a request nobody made is taken. *)
DecideOnPageUnknown(k, choice) ==
    /\ ~Decided(k)
    /\ ~row[k].expired
    /\ Decide(k, choice)

(* POST /approvals/{key}/decide, from the local page or a script. *)
DecideOnPage(k, choice) ==
    /\ row[k].stored
    /\ ~Decided(k)
    /\ ~row[k].expired
    /\ Decide(k, choice)

(* Slip: a click is not checked against the decisions. *)
ClickUnchecked(k, choice) ==
    /\ card[k].shown
    /\ ~card[k].resolved
    /\ row[k].stored
    /\ Decide(k, choice)

(* POST /slack/interactivity: a button of a card that still has buttons. *)
Click(k, choice) ==
    /\ card[k].shown
    /\ ~card[k].resolved
    /\ row[k].stored
    /\ ~Decided(k)
    /\ Decide(k, choice)

UpdateDelivered(k) ==
    /\ k \in updating
    /\ updating' = updating \ {k}
    /\ card' = [card EXCEPT ![k].resolved = TRUE]
    /\ UNCHANGED <<tables, posting, told, bounds>>

UpdateFailed(k) ==
    /\ k \in updating
    /\ faults < MaxFaults
    /\ faults' = faults + 1
    /\ updating' = updating \ {k}
    /\ UNCHANGED <<tables, posting, card, told, crashes>>

-------------------------------------------------------------------------------
(* The process dies, with all handlers, and is started again. *)
Crash ==
    /\ crashes < MaxCrashes
    /\ crashes' = crashes + 1
    /\ posting' = {}
    /\ updating' = {}
    /\ UNCHANGED <<tables, card, told, faults>>

Asking(k) ==
    \/ RequestRoutine(k) \/ RequestBySlack(k) \/ RequestLocally(k) \/ RequestAgain(k)
    \/ ShowCard(k) \/ PostDelivered(k) \/ PostFailed(k)
    \/ Poll(k) \/ Expire(k)

Deciding(k) ==
    \/ \E choice \in Choices : DecideOnPage(k, choice) \/ Click(k, choice)
    \/ UpdateDelivered(k) \/ UpdateFailed(k)

Next == Crash \/ \E k \in Requests : Asking(k) \/ Deciding(k)

Spec == Init /\ [][Next]_vars

(***************************************************************************)
(* Fairness.  The clock goes on; a build that asked goes on polling; Slack *)
(* shows what it took and a handler gets its reply.  Nobody has to decide. *)
(***************************************************************************)
FairSpec ==
    /\ Spec
    /\ \A k \in Requests :
        /\ WF_vars(Expire(k)) /\ WF_vars(Poll(k))
        /\ WF_vars(k \in posting /\ ShowCard(k)) /\ WF_vars(PostDelivered(k))
        /\ WF_vars(UpdateDelivered(k))

-------------------------------------------------------------------------------
(* Properties *)

(***************************************************************************)
(* A request has one card at most, however often it is raised and          *)
(* wherever the service died (store.create, mark_notified).                *)
(***************************************************************************)
OneCard ==
    \A k \in Requests :
        /\ card[k].sent <= 1
        /\ card[k].sent = 1 => row[k].stored
        /\ card[k].shown \/ k \in posting => card[k].sent = 1

(***************************************************************************)
(* Two channels, one decision: whoever comes second is refused (decide,    *)
(* slack_interactivity), and a card without buttons is a decided one.      *)
(***************************************************************************)
DecidedOnce ==
    \A k \in Requests :
        /\ Len(decisions[k]) <= 1
        /\ card[k].resolved \/ k \in updating => Decided(k)

(***************************************************************************)
(* Silence is never approval: a build is told to go on only if a person    *)
(* chose so, or the request is one that needs nobody (approval_status).    *)
(***************************************************************************)
NoSilentApproval ==
    \A k \in Requests \ Routine :
        told[k] \in Choices => Decided(k) /\ decisions[k][1] = told[k]

(***************************************************************************)
(* What a person decided is not taken back: a build that was told so is    *)
(* never told anything else (current_decision).                            *)
(***************************************************************************)
PersonsWordStands ==
    [][\A k \in Requests : told[k] \in Choices => told'[k] = told[k]]_vars

(***************************************************************************)
(* Why the others hold: a strengthening that every step preserves.  Only a *)
(* stored request is decided, a routine one never is, a request told to be *)
(* expired is, and without Slack no card leaves (request_approval).        *)
(***************************************************************************)
StoredFirst ==
    \A k \in Requests :
        /\ Decided(k) \/ row[k].expired => row[k].stored
        /\ k \in Routine => ~row[k].stored
        /\ told[k] # "nothing" /\ k \notin Routine => row[k].stored

ToldExpired ==
    \A k \in Requests :
        /\ told[k] = "expired" => row[k].expired
        /\ told[k] # "nothing" /\ k \in Routine => told[k] = "approve"

NoCardsLocally == ~SlackInUse => \A k \in Requests : card[k].sent = 0

(* Without Slack, a request that was told to be expired stays undecided. *)
NoLateDecisionLocally ==
    ~SlackInUse => \A k \in Requests : told[k] = "expired" => ~Decided(k)

ApprovalInv ==
    /\ TypeOK
    /\ OneCard
    /\ DecidedOnce
    /\ NoSilentApproval
    /\ StoredFirst
    /\ ToldExpired
    /\ NoCardsLocally
    /\ NoLateDecisionLocally

(***************************************************************************)
(* With the local page alone the service implements ApprovalGate: requests *)
(* are settled once, and every answer is the verdict.                      *)
(***************************************************************************)
Verdict ==
    [k \in Requests |->
        IF k \in Routine
        THEN IF told[k] = "nothing" THEN "unasked" ELSE "approve"
        ELSE IF ~row[k].stored THEN "unasked"
        ELSE IF Decided(k) THEN CurrentDecision(k)
        ELSE IF row[k].expired THEN "expired"
        ELSE "open"]

Gate == INSTANCE ApprovalGate WITH verdict <- Verdict

ImplementsGate == Gate!GateSpec

(***************************************************************************)
(* A build that asked is not left waiting: it is told a decision, or that  *)
(* its request expired, even if the post of its card failed or the process *)
(* died between storing the request and noting the card, after which no    *)
(* request sends one again and nobody counts as notified                   *)
(* (request_approval, approval_status).                                    *)
(***************************************************************************)
SilenceIsSettled ==
    \A k \in Requests : row[k].stored ~> told[k] # "nothing"

-------------------------------------------------------------------------------
(* What the code says of itself, and does not do. *)

(***************************************************************************)
(* ctswarm/approvals/service.py:234, the answer to a decision that comes   *)
(* too late: "approval expired; the build remains paused".                 *)
(***************************************************************************)
ExpiryIsFinal ==
    [][\A k \in Requests : told[k] = "expired" => told'[k] = "expired"]_vars
==============================================================================
