------------------------------- MODULE Router -------------------------------
(***************************************************************************)
(* The model router: src/ctswarm/router/server.py serves requests, walking *)
(* the chain of candidates that src/ctswarm/router/policy.py picked, and   *)
(* the circuit breaker of src/ctswarm/ledger.py takes models that keep     *)
(* failing out of that choice.  Requests run concurrently: between the     *)
(* choice of a chain and the report of a call any other request may have   *)
(* opened or closed the breaker.                                           *)
(*                                                                         *)
(* Scores are data: Chains admits every order of the eligible models that  *)
(* _diversify can produce for some scores.  Time advances in ticks.        *)
(***************************************************************************)
EXTENDS Replies, Sequences, FiniteSets

CONSTANTS
    Model,          \* catalog entries (backend, model_ref)
    Backend,        \* registered backends
    Request,        \* requests that arrive
    Attr,           \* what the catalog and the benchmark say of a model
    Demand,         \* what requests ask for
    Reply,          \* what calls may come back with
    Evaluated,      \* backends that finish a completion before they stream it (ollama)
    LocalOnly,      \* CTSWARM_ROUTER_LOCAL_ONLY
    TripAfter,      \* failures in a row that open a breaker (3)
    BaseBackoff,    \* first time out of service (60 s)
    MaxBackoff,     \* longest time out of service (3600 s)
    DiscoverTtl,    \* age at which the list of installed models is asked again (30 s)
    MaxFallbacks,   \* candidates after the first (3)
    MaxTime,        \* bound: ticks
    MaxFlips,       \* bound: deaths and returns of backends
    MaxRestarts     \* bound: restarts of the router

Tier == 1..3            \* high, med, low

NoDemand == [tier |-> 1, pin |-> {}, bare |-> FALSE, tools |-> FALSE, context |-> 0,
             private |-> FALSE, stream |-> FALSE]

(* What /catalog asks about each tier: tools, and a small prompt. *)
UsualDemands ==
    {[tier |-> t, pin |-> {}, bare |-> FALSE, tools |-> TRUE, context |-> 1,
      private |-> FALSE, stream |-> FALSE] : t \in Tier}

(* What is fixed while the router runs: the catalog entry, its placement on  *)
(* this host, and whether its measured rates meet the floors.                *)
Attribute == [backend : Backend, tiers : SUBSET Tier, context : Nat,
              tools : BOOLEAN, hosted : BOOLEAN, fit : BOOLEAN]

(* A request names a tier or pins a model, with its backend or by its bare    *)
(* reference, which models of several backends may share; its prompt needs a  *)
(* context.                                                                   *)
DemandRecord == [tier : Tier, pin : SUBSET Model, bare : BOOLEAN, tools : BOOLEAN,
                 context : Nat, private : BOOLEAN, stream : BOOLEAN]

ASSUME RouterAssumption ==
    /\ IsFiniteSet(Model)
    /\ Attr \in [Model -> Attribute]
    /\ Demand \subseteq DemandRecord
    /\ Reply \subseteq ReplyRecord
    /\ LocalOnly \in BOOLEAN
    /\ TripAfter \in Nat \ {0}
    /\ BaseBackoff \in Nat \ {0}
    /\ MaxBackoff \in Nat \ {0}
    /\ DiscoverTtl \in Nat
    /\ MaxFallbacks \in Nat
    /\ MaxTime \in Nat /\ MaxFlips \in Nat /\ MaxRestarts \in Nat

VARIABLES
    clock,
    breaker,        \* ledger: [Model -> [consecutive, open_until, trips]]
    up,             \* backends whose process answers
    installed,      \* RouterState._installed, as the union the policy sees
    discovered_at,
    status,         \* [Request -> where the request stands]
    demand, chain, at, since,   \* per request: its demand, chain, position, time of choice
    flips, restarts

cacheVars == <<installed, discovered_at>>
requestVars == <<status, demand, chain, at, since>>
budgetVars == <<flips, restarts>>
vars == <<clock, breaker, up, installed, discovered_at, status, demand, chain, at, since,
          flips, restarts>>

Breaker == [consecutive : Nat, open_until : Nat, trips : Nat]
Closed == [consecutive |-> 0, open_until |-> 0, trips |-> 0]

(* How a request ended (200, 404, 502, 503, or not at all) is not told apart. *)
InFlight == {"calling", "renewing", "streaming"}
Status == {"idle", "ended"} \cup InFlight

-----------------------------------------------------------------------------
(* The breaker. *)

Doubled[n \in Nat] == IF n = 0 THEN BaseBackoff ELSE 2 * Doubled[n - 1]
Backoff(trips) ==
    IF Doubled[trips - 1] \in 0..MaxBackoff THEN Doubled[trips - 1] ELSE MaxBackoff

IsOpen(m) == breaker[m].open_until > clock

(* When the open breaker of m opened. *)
OpenedAt(m) == breaker[m].open_until - Backoff(breaker[m].trips)

UpdateBreaker(b, o) ==
    IF o = "ok" THEN [b EXCEPT !.consecutive = 0, !.open_until = 0]
    ELSE IF o \notin BreakerFailures THEN b
    ELSE IF b.consecutive + 1 >= TripAfter
         THEN [consecutive |-> 0, open_until |-> clock + Backoff(b.trips + 1),
               trips |-> b.trips + 1]
         ELSE [b EXCEPT !.consecutive = b.consecutive + 1, !.open_until = 0]

-----------------------------------------------------------------------------
(* The policy: who may serve a demand, and in which order. *)

MeetsPolicy(m, tier, d) ==
    /\ Attr[m].hosted => ~(LocalOnly \/ d.private)
    /\ Attr[m].fit
    /\ tier \in Attr[m].tiers
    /\ d.tools => Attr[m].tools
    /\ Attr[m].context >= d.context

(* Slip: the breaker is not consulted. *)
EligibleTrusting(tier, d, inst) ==
    {m \in Model : MeetsPolicy(m, tier, d) /\ (inst # {} => m \in inst)}

(* An empty list of installed models says nothing and excludes nobody. *)
MayServe(m, tier, d, inst) ==
    MeetsPolicy(m, tier, d) /\ (inst # {} => m \in inst) /\ ~IsOpen(m)

Eligible(tier, d, inst) == {m \in Model : MayServe(m, tier, d, inst)}

(* Orders of E that cross backends as early as possible. *)
Chains(E) ==
    LET n == IF Cardinality(E) < MaxFallbacks + 1 THEN Cardinality(E) ELSE MaxFallbacks + 1
        Used(c, i) == {c[j] : j \in 1..(i - 1)}
        Fresh(c, i) == {m \in E : \A u \in Used(c, i) : Attr[m].backend # Attr[u].backend}
    IN {c \in [1..n -> E] : \A i \in 1..n :
            /\ c[i] \notin Used(c, i)
            /\ Fresh(c, i) # {} => c[i] \in Fresh(c, i)}

(* Never a tier above the one asked for; a lower one only when it is empty. *)
Decide(d, inst) ==
    LET Served == {t \in d.tier..3 : Eligible(t, d, inst) # {}}
    IN IF Served = {} THEN {<<>>}
       ELSE UNION {Chains(Eligible(t, d, inst)) :
                     t \in {best \in Served : \A u \in Served : best <= u}}

(* Who answers to a pin: a bare reference needs a list that names it. *)
Pinned(d, inst) == IF d.bare THEN d.pin \cap inst ELSE d.pin

(* A pin knows no policy, no breaker and no fallback. *)
Route(d, inst) ==
    IF d.pin = {} THEN Decide(d, inst)
    ELSE IF Pinned(d, inst) = {} THEN {<<>>}
    ELSE {<<m>> : m \in Pinned(d, inst)}

Hosting(m) == Attr[m].backend
Listed == {m \in Model : Hosting(m) \in up}

(* Slip: the catalog page leaves the breaker out of its explanation. *)
CatalogRoutableTrusting(m, usual) == m \in installed /\ MeetsPolicy(m, usual.tier, usual)

(* /catalog, per tier: a model of a known backend has to be on its own list. *)
CatalogRoutable(m, usual) ==
    /\ m \in installed
    /\ MayServe(m, usual.tier, usual, {n \in installed : Hosting(n) = Hosting(m)})

-----------------------------------------------------------------------------
Init ==
    /\ clock = 0
    /\ breaker = [m \in Model |-> Closed]
    /\ up = Backend
    /\ installed = Model
    /\ discovered_at = 0
    /\ status = [r \in Request |-> "idle"]
    /\ demand = [r \in Request |-> NoDemand]
    /\ chain = [r \in Request |-> <<>>]
    /\ at = [r \in Request |-> 0]
    /\ since = [r \in Request |-> 0]
    /\ flips = 0
    /\ restarts = 0

Tick ==
    /\ clock < MaxTime
    /\ clock' = clock + 1
    /\ UNCHANGED <<breaker, up, cacheVars, requestVars, budgetVars>>

(* A backend's process dies or comes back. *)
Flip(b) ==
    /\ flips < MaxFlips
    /\ flips' = flips + 1
    /\ up' = IF b \in up THEN up \ {b} ELSE up \cup {b}
    /\ UNCHANGED <<clock, breaker, cacheVars, requestVars, restarts>>

(* The request's own variables are gone with it. *)
Leave(R) ==
    /\ status' = [r \in Request |-> IF r \in R THEN "ended" ELSE status[r]]
    /\ demand' = [r \in Request |-> IF r \in R THEN NoDemand ELSE demand[r]]
    /\ chain' = [r \in Request |-> IF r \in R THEN <<>> ELSE chain[r]]
    /\ at' = [r \in Request |-> IF r \in R THEN 0 ELSE at[r]]
    /\ since' = [r \in Request |-> IF r \in R THEN 0 ELSE since[r]]

(* chat_completions up to the first call: refresh a stale list, then choose. *)
Arrive(r, d) ==
    LET stale == clock - discovered_at >= DiscoverTtl
        inst == IF stale THEN Listed ELSE installed
    IN /\ status[r] = "idle"
       /\ installed' = inst
       /\ discovered_at' = IF stale THEN clock ELSE discovered_at
       /\ \E c \in Route(d, inst) :
            IF c = <<>> THEN Leave({r})
            ELSE /\ status' = [status EXCEPT ![r] = "calling"]
                 /\ demand' = [demand EXCEPT ![r] = d]
                 /\ chain' = [chain EXCEPT ![r] = c]
                 /\ at' = [at EXCEPT ![r] = 1]
                 /\ since' = [since EXCEPT ![r] = clock]
       /\ UNCHANGED <<clock, breaker, up, budgetVars>>

Called(r) == chain[r][at[r]]
Possible(m) == {reply \in Reply : Hosting(m) \in up \/ reply.net # "answer"}

Outcome(r, reply) ==
    IF demand[r].stream /\ Hosting(Called(r)) \notin Evaluated
    THEN StartOutcome(reply) ELSE ChatOutcome(reply)

AfterCall(r, o) ==
    IF o = "ok" THEN IF demand[r].stream THEN "streaming" ELSE "ended"
    ELSE IF o = "connection_error" /\ ~demand[r].stream THEN "renewing"
    ELSE IF o \notin NonRetryable /\ at[r] < Len(chain[r]) THEN "calling" ELSE "ended"

Record(m, o) == breaker' = [breaker EXCEPT ![m] = UpdateBreaker(breaker[m], o)]

(* One call comes back.  A stream that starts is recorded only at its end. *)
Report(r, reply) ==
    LET o == Outcome(r, reply)
    IN /\ status[r] = "calling"
       /\ reply \in Possible(Called(r))
       /\ IF AfterCall(r, o) = "streaming" THEN UNCHANGED breaker ELSE Record(Called(r), o)
       /\ IF AfterCall(r, o) = "ended" THEN Leave({r})
          ELSE /\ status' = [status EXCEPT ![r] = AfterCall(r, o)]
               /\ at' = [at EXCEPT ![r] = IF AfterCall(r, o) = "calling" THEN @ + 1 ELSE @]
               /\ UNCHANGED <<demand, chain, since>>
       /\ UNCHANGED <<clock, up, cacheVars, budgetVars>>

(* After a refused connection the backends have been asked again; the request *)
(* goes on along its chain, which stays what it was.                          *)
Renew(r) ==
    /\ status[r] = "renewing"
    /\ installed' = Listed
    /\ discovered_at' = clock
    /\ IF at[r] < Len(chain[r])
       THEN /\ status' = [status EXCEPT ![r] = "calling"]
            /\ at' = [at EXCEPT ![r] = @ + 1]
            /\ UNCHANGED <<demand, chain, since>>
       ELSE Leave({r})
    /\ UNCHANGED <<clock, breaker, up, budgetVars>>

(* The end of a stream.  One that is broken off, by the backend or the client, *)
(* is no failure of the breaker's.                                             *)
StreamEnds(r, completed) ==
    /\ status[r] = "streaming"
    /\ Leave({r})
    /\ IF completed THEN Record(Called(r), "ok") ELSE UNCHANGED breaker
    /\ UNCHANGED <<clock, up, cacheVars, budgetVars>>

Reboot ==
    /\ restarts < MaxRestarts
    /\ restarts' = restarts + 1
    /\ Leave({r \in Request : status[r] \in InFlight})
    /\ installed' = Listed
    /\ discovered_at' = clock
    /\ UNCHANGED <<clock, up, flips>>

(* Slip: the breaker lives in memory. *)
RestartForgets == Reboot /\ breaker' = [m \in Model |-> Closed]

(* The router's process is restarted: its requests are lost, the list is asked *)
(* anew, and the ledger keeps the breaker.                                     *)
Restart == Reboot /\ UNCHANGED breaker

Next ==
    \/ Tick
    \/ \E b \in Backend : Flip(b)
    \/ \E r \in Request, d \in Demand : Arrive(r, d)
    \/ \E r \in Request, reply \in Reply : Report(r, reply)
    \/ \E r \in Request : Renew(r)
    \/ \E r \in Request, completed \in BOOLEAN : StreamEnds(r, completed)
    \/ Restart

Spec == Init /\ [][Next]_vars

-----------------------------------------------------------------------------
(* Properties. *)

TypeOK ==
    /\ clock \in Nat
    /\ breaker \in [Model -> Breaker]
    /\ up \subseteq Backend
    /\ installed \subseteq Model
    /\ discovered_at \in Nat /\ discovered_at <= clock
    /\ status \in [Request -> Status]
    /\ demand \in [Request -> Demand \cup {NoDemand}]
    /\ chain \in [Request -> Seq(Model)]
    /\ at \in [Request -> Nat]
    /\ since \in [Request -> Nat]
    /\ flips \in Nat
    /\ restarts \in Nat

(* A request in flight has a call to make, and was routed in the past. *)
CallIsOnChain ==
    \A r \in Request : status[r] \in InFlight => at[r] \in 1..Len(chain[r]) /\ since[r] <= clock

(* The count of failures in a row stays below the threshold, and a breaker is *)
(* only ever open after a trip (ledger.py, _update_breaker).                  *)
BreakerCounts ==
    \A m \in Model :
        /\ breaker[m].consecutive < TripAfter
        /\ breaker[m].open_until > 0 => breaker[m].trips > 0
        /\ breaker[m].open_until <= clock + MaxBackoff

(* A sidelined model is called only by requests that were routed before it    *)
(* was sidelined, or that pin it: nobody routed since has it in its chain     *)
(* (policy.py, _ineligible_reason; ledger.py, is_open).                       *)
OnlyOldCallsReachSidelined ==
    \A r \in Request : status[r] \in InFlight /\ demand[r].pin = {} =>
        \A i \in DOMAIN chain[r] :
            IsOpen(chain[r][i]) => since[r] <= OpenedAt(chain[r][i])

(* A request that asked to stay on this machine is never sent to a hosted     *)
(* model by a fallback, whatever fails on the way (a pin is the caller's own   *)
(* choice), and no model is tried twice for one request.                      *)
FallbackKeepsTerms ==
    \A r \in Request : status[r] \in InFlight /\ demand[r].pin = {} =>
        \A i \in DOMAIN chain[r] :
            /\ Attr[chain[r][i]].hosted => ~demand[r].private /\ ~LocalOnly
            /\ \A j \in DOMAIN chain[r] : chain[r][i] = chain[r][j] => i = j

(* What every reachable state satisfies; each part needs the others to be      *)
(* preserved by the next step.                                               *)
RouterInv ==
    TypeOK /\ CallIsOnChain /\ BreakerCounts /\ OnlyOldCallsReachSidelined /\ FallbackKeepsTerms

(* catalog_snapshot promises that no model is shown as routable while the     *)
(* router would reject it: what the page says holds for the choice made from  *)
(* the same cache (policy.py:245-248).                                        *)
CatalogIsHonest ==
    \A m \in Model, usual \in UsualDemands :
        CatalogRoutable(m, usual) => MayServe(m, usual.tier, usual, installed)

(* An open breaker closes before its time only through a report of a request  *)
(* that was routed before it opened, or that pins the model: restarts, deaths *)
(* of backends and newer requests leave it open.  The call itself may be      *)
(* younger than the trip: a chain is walked as it was chosen, so the fallback *)
(* of an old request is sent to a model that was sidelined meanwhile, and its *)
(* success, or a late failure, closes the breaker (server.py:397-402,         *)
(* ledger.py:212-232).                                                        *)
EarlyReleaseByOldChain ==
    [][\A m \in Model : IsOpen(m) /\ breaker'[m].open_until <= clock =>
            \E r \in Request :
                /\ status[r] \in InFlight /\ Called(r) = m
                /\ demand[r].pin # {} \/ since[r] <= OpenedAt(m)]_vars
=============================================================================
