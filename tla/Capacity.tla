------------------------------ MODULE Capacity ------------------------------
(***************************************************************************)
(* The headroom of the two subscriptions, src/ctswarm/capacity.py: what    *)
(* the ledger knows of their use, and which runtime a build is given.      *)
(* Neither CLI tells its quota, so headroom is reconstructed from what     *)
(* calls cost and from the refusals that somebody wrote down.              *)
(* Every answer depends on the execution mode, which the caller passes:    *)
(* only is TRUE in subscriptions-only mode.                                *)
(***************************************************************************)
EXTENDS Naturals, FiniteSets

CONSTANTS
    LoggedIn,       \* harnesses with a login of their own
    ApiKey,         \* harnesses with a key for metered use
    LocalModels,    \* whether a measured local model may fill an agent role
    Window,         \* length of the rolling window
    Budget,         \* [Harness -> what may be spent in it], 0 for no cap
    MaxClock        \* bound: ticks

Harness == {"claude_code", "codex"}
Runtime == Harness \cup {"open_code"}

ASSUME CapacityAssumption ==
    /\ LoggedIn \subseteq Harness /\ ApiKey \subseteq Harness
    /\ LocalModels \in BOOLEAN
    /\ Window \in Nat \ {0}
    /\ Budget \in [Harness -> Nat]
    /\ MaxClock \in Nat \ {0}

VARIABLES
    clock,          \* starts at 1: 0 stands for never
    limited,        \* [Harness -> when it was last reported exhausted]
    cleared,        \* [Harness -> when a report was last withdrawn]
    spent           \* [Harness -> [tick -> what calls cost in it]]

capacityVars == <<clock, limited, cleared, spent>>

Configured(r, only) ==
    \/ r \in LoggedIn
    \/ ~only /\ (r \in ApiKey \/ r = "open_code")

(* Reports older than the window, or than the last withdrawal, no longer count. *)
CoolingDown(h) == limited[h] > cleared[h] /\ limited[h] + Window > clock

WindowUsage(h) ==
    LET Up[t \in 0..MaxClock] ==
            IF t = 0 THEN 0
            ELSE Up[t - 1] + (IF t + Window >= clock THEN spent[h][t] ELSE 0)
    IN Up[MaxClock]

(* Slip: the budget is never looked at. *)
WithinBudgetAlways(h) == h \in Harness

(* A fifth of the budget is kept for review. *)
WithinBudget(h) == Budget[h] > 0 => 5 * WindowUsage(h) < 4 * Budget[h]

(* headroom(r).available *)
Available(r, only) ==
    Configured(r, only) /\ (r \in Harness => ~CoolingDown(r) /\ WithinBudget(r))

(* Claude comes first wherever both would do. *)
First(H) == IF "claude_code" \in H THEN "claude_code" ELSE "codex"

(* fraction_remaining of claude_code is at least that of codex. *)
ClaudeHasMore ==
    LET Used(h) == IF Budget[h] = 0 THEN 0 ELSE WindowUsage(h)
        Whole(h) == IF Budget[h] = 0 THEN 1 ELSE Budget[h]
    IN Used("claude_code") * Whole("codex") <= Used("codex") * Whole("claude_code")

Select(only, preferLocal, strong, private) ==
    LET ready == {h \in Harness : Available(h, only)}
    IN CASE only /\ (private \/ ready = {}) -> "claude_code"
         [] only /\ ~private /\ ready # {} -> First(ready)
         [] ~only /\ private -> "open_code"
         [] ~only /\ ~private /\ strong /\ ready = Harness ->
                IF ClaudeHasMore THEN "claude_code" ELSE "codex"
         [] ~only /\ ~private /\ strong /\ ready = {} ->
                IF LocalModels THEN "open_code" ELSE "claude_code"
         [] ~only /\ ~private /\ ~strong /\ ((preferLocal /\ LocalModels) \/ ready = {}) ->
                "open_code"
         [] OTHER -> First(ready)

(* rate_limit_signal: whom a message that speaks of exhaustion is about.  Two *)
(* names contradict each other, none leaves it to the one who ran.            *)
Signal(exhausted, named, default) ==
    IF ~exhausted \/ named = Harness THEN {} ELSE IF named = {} THEN default ELSE named

(* probe_runtime: a harness that is missing or silent has said nothing. *)
ProbeVerdict(found, answers, exitZero, complains) ==
    IF ~found \/ ~answers THEN "unknown"
    ELSE IF exitZero /\ ~complains THEN "usable" ELSE "refused"

-----------------------------------------------------------------------------
InitCapacity ==
    /\ clock = 1
    /\ limited = [h \in Harness |-> 0]
    /\ cleared = [h \in Harness |-> 0]
    /\ spent = [h \in Harness |-> [t \in 1..MaxClock |-> 0]]

Tick ==
    /\ clock < MaxClock
    /\ clock' = clock + 1
    /\ UNCHANGED <<limited, cleared, spent>>

RecordUsage(h, cost) == spent' = [spent EXCEPT ![h][clock] = @ + cost]
NoteLimited(h) == limited' = [limited EXCEPT ![h] = clock]
ClearLimited(h) == cleared' = [cleared EXCEPT ![h] = clock]

(* What a probe, or an operator who knows, reports to the scheduler. *)
Report(h, verdict) ==
    /\ IF verdict = "refused" THEN NoteLimited(h) ELSE UNCHANGED limited
    /\ IF verdict = "usable" THEN ClearLimited(h) ELSE UNCHANGED cleared
    /\ UNCHANGED <<clock, spent>>

TypeOKCapacity ==
    /\ clock \in 1..MaxClock
    /\ limited \in [Harness -> Nat] /\ cleared \in [Harness -> Nat]
    /\ spent \in [Harness -> [1..MaxClock -> Nat]]
=============================================================================
