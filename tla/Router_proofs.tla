--------------------------- MODULE Router_proofs ---------------------------
(***************************************************************************)
(* Proofs about the router, for every catalog, threshold and number of     *)
(* concurrent requests.  The invariant to carry is RouterInv itself: that   *)
(* only old calls reach a sidelined model needs the chains to be formed by *)
(* the policy, and the breakers to open at the time their trip says.       *)
(* What is built step by step, a chain and the times out of service, is     *)
(* shown by the least step at which it would not hold.                     *)
(***************************************************************************)
EXTENDS Router, FiniteSetTheorems, WellFoundedInduction, TLAPS

USE RouterAssumption

LEMMA BackoffType == \A t \in Nat : Backoff(t) \in 0..MaxBackoff
  BY DEF Backoff

(* What _diversify returns: distinct candidates, all of them eligible. *)
LEMMA ChainShape ==
  ASSUME NEW E \in SUBSET Model, NEW c \in Chains(E)
  PROVE  /\ c \in Seq(Model)
         /\ \A i \in DOMAIN c : c[i] \in E
         /\ \A i, j \in DOMAIN c : c[i] = c[j] => i = j
  <1> DEFINE n == IF Cardinality(E) < MaxFallbacks + 1 THEN Cardinality(E) ELSE MaxFallbacks + 1
  <1>1. n \in Nat
    BY FS_Subset, FS_CardinalityType
  <1>2. c \in [1..n -> E] /\ \A i \in 1..n : c[i] \notin {c[j] : j \in 1..(i - 1)}
    BY DEF Chains
  <1> HIDE DEF n
  <1>3. c \in Seq(Model)
    <2>1. c \in [1..n -> Model]
      BY <1>2
    <2> QED BY <1>1, <2>1
  <1>4. DOMAIN c = 1..n
    BY <1>2
  <1>5. ASSUME NEW i \in 1..n, NEW j \in 1..n, c[i] = c[j] PROVE i = j
    <2>1. CASE i < j
      <3>1. i \in 1..(j - 1)
        BY <1>1, <2>1
      <3> QED BY <3>1, <1>2, <1>5
    <2>2. CASE j < i
      <3>1. j \in 1..(i - 1)
        BY <1>1, <2>2
      <3> QED BY <3>1, <1>2, <1>5
    <2> QED BY <1>1, <2>1, <2>2
  <1> QED BY <1>2, <1>3, <1>4, <1>5

(* What decide returns for a request without a pin. *)
LEMMA RouteShape ==
  ASSUME NEW d \in Demand, NEW inst \in SUBSET Model, d.pin = {}, NEW c \in Route(d, inst)
  PROVE  /\ c \in Seq(Model)
         /\ \A i \in DOMAIN c : ~IsOpen(c[i])
         /\ \A i \in DOMAIN c : Attr[c[i]].hosted => ~d.private /\ ~LocalOnly
         /\ \A i, j \in DOMAIN c : c[i] = c[j] => i = j
  <1>1. c \in Decide(d, inst)
    BY DEF Route
  <1>2. CASE c = <<>>
    BY <1>2
  <1>3. ASSUME NEW t, c \in Chains(Eligible(t, d, inst))
        PROVE  /\ c \in Seq(Model)
               /\ \A i \in DOMAIN c : c[i] \in Eligible(t, d, inst)
               /\ \A i, j \in DOMAIN c : c[i] = c[j] => i = j
    <2>1. Eligible(t, d, inst) \in SUBSET Model
      BY DEF Eligible
    <2> HIDE DEF Eligible
    <2> QED BY <1>3, <2>1, ChainShape
  <1>4. \A t : \A m \in Eligible(t, d, inst) :
          ~IsOpen(m) /\ (Attr[m].hosted => ~d.private /\ ~LocalOnly)
    BY DEF Eligible, MayServe, MeetsPolicy
  <1>5. c = <<>> \/ \E t : c \in Chains(Eligible(t, d, inst))
    BY <1>1 DEF Decide
  <1>6. CASE \E t : c \in Chains(Eligible(t, d, inst))
    BY <1>3, <1>4, <1>6
  <1> QED BY <1>2, <1>5, <1>6

(* What a pin gets: one model, or nobody. *)
LEMMA PinShape ==
  ASSUME NEW d \in Demand, NEW inst, d.pin # {}, NEW c \in Route(d, inst)
  PROVE  c \in Seq(Model)
  <1>1. Pinned(d, inst) \in SUBSET Model
    BY DEF DemandRecord, Pinned
  <1>2. CASE Pinned(d, inst) = {}
    <2>1. Route(d, inst) = {<<>>}
      BY <1>2 DEF Route
    <2>2. c = <<>>
      BY <2>1
    <2> QED BY <2>2
  <1>3. CASE Pinned(d, inst) # {}
    <2>1. PICK m \in Pinned(d, inst) : c = <<m>>
      BY <1>3 DEF Route
    <2> QED BY <1>1, <2>1
  <1> QED BY <1>2, <1>3

(* One report moves a breaker within its type, and opens it only now. *)
LEMMA UpdateShape ==
  ASSUME NEW b \in Breaker, NEW o, clock \in Nat, b.consecutive < TripAfter,
         b.open_until > 0 => b.trips > 0, b.open_until <= clock + MaxBackoff
  PROVE  LET u == UpdateBreaker(b, o) IN
         /\ u \in Breaker
         /\ u.consecutive < TripAfter
         /\ u.open_until > 0 => u.trips > 0
         /\ u.open_until <= clock + MaxBackoff
         /\ \/ u = b
            \/ u.open_until = 0
            \/ u.open_until - Backoff(u.trips) = clock
  <1> DEFINE u == UpdateBreaker(b, o)
  <1> DEFINE Goal == /\ u \in Breaker
                     /\ u.consecutive < TripAfter
                     /\ u.open_until > 0 => u.trips > 0
                     /\ u.open_until <= clock + MaxBackoff
                     /\ \/ u = b
                        \/ u.open_until = 0
                        \/ u.open_until - Backoff(u.trips) = clock
  <1> SUFFICES Goal
    OBVIOUS
  <1>0. b.consecutive \in Nat /\ b.trips \in Nat /\ b.open_until \in Nat
    BY DEF Breaker
  <1>1. CASE o = "ok"
    <2>1. u = [b EXCEPT !.consecutive = 0, !.open_until = 0]
      BY <1>1 DEF UpdateBreaker
    <2>2. u = [consecutive |-> 0, open_until |-> 0, trips |-> b.trips]
      BY <2>1 DEF Breaker
    <2> HIDE DEF u
    <2> QED BY <1>0, <2>2 DEF Breaker
  <1>2. CASE o # "ok" /\ o \notin BreakerFailures
    BY <1>2 DEF UpdateBreaker
  <1>3. CASE o # "ok" /\ o \in BreakerFailures /\ b.consecutive + 1 >= TripAfter
    <2>1. u = [consecutive |-> 0, open_until |-> clock + Backoff(b.trips + 1),
               trips |-> b.trips + 1]
      BY <1>3 DEF UpdateBreaker
    <2>2. b.trips + 1 \in Nat /\ Backoff(b.trips + 1) \in 0..MaxBackoff
      BY <1>0, BackoffType
    <2> HIDE DEF u
    <2> QED BY <1>0, <2>1, <2>2 DEF Breaker
  <1>4. CASE o # "ok" /\ o \in BreakerFailures /\ ~(b.consecutive + 1 >= TripAfter)
    <2>1. u = [b EXCEPT !.consecutive = b.consecutive + 1, !.open_until = 0]
      BY <1>4 DEF UpdateBreaker
    <2>2. u = [consecutive |-> b.consecutive + 1, open_until |-> 0, trips |-> b.trips]
      BY <2>1 DEF Breaker
    <2> HIDE DEF u
    <2> QED BY <1>0, <2>2, <1>4 DEF Breaker
  <1> HIDE DEF Goal
  <1> QED BY <1>1, <1>2, <1>3, <1>4

-----------------------------------------------------------------------------
LEMMA InitInv == Init => RouterInv
  <1> SUFFICES ASSUME Init PROVE RouterInv
    OBVIOUS
  <1>1. TypeOK
    BY DEF Init, TypeOK, Closed, Breaker, Status
  <1>2. BreakerCounts
    BY DEF Init, BreakerCounts, Closed
  <1> QED BY <1>1, <1>2 DEF Init, RouterInv, CallIsOnChain, OnlyOldCallsReachSidelined,
                             FallbackKeepsTerms, InFlight

(* The variables of the requests, apart from the rest of the type invariant. *)
RequestTypes ==
    /\ status \in [Request -> Status]
    /\ demand \in [Request -> Demand \cup {NoDemand}]
    /\ chain \in [Request -> Seq(Model)]
    /\ at \in [Request -> Nat]
    /\ since \in [Request -> Nat]

LEMMA LeaveShape ==
  ASSUME RequestTypes, NEW R \in SUBSET Request, Leave(R)
  PROVE  /\ RequestTypes'
         /\ \A r \in Request : status'[r] \in InFlight =>
              /\ status'[r] = status[r] /\ demand'[r] = demand[r]
              /\ chain'[r] = chain[r] /\ at'[r] = at[r] /\ since'[r] = since[r]
  <1>1. status' \in [Request -> Status]
    BY DEF RequestTypes, Leave, Status
  <1>2. demand' \in [Request -> Demand \cup {NoDemand}]
    BY DEF RequestTypes, Leave
  <1>3. chain' \in [Request -> Seq(Model)]
    BY DEF RequestTypes, Leave
  <1>4. at' \in [Request -> Nat] /\ since' \in [Request -> Nat]
    BY DEF RequestTypes, Leave
  <1>5. ASSUME NEW r \in Request, status'[r] \in InFlight PROVE r \notin R
    BY <1>5 DEF Leave, InFlight
  <1> QED BY <1>1, <1>2, <1>3, <1>4, <1>5 DEF Leave, RequestTypes

(* The requests' part of the invariant survives a step that ends some of them, *)
(* lets time pass or not, and opens breakers only at the present instant.      *)
LEMMA OthersUndisturbed ==
  ASSUME RouterInv, clock' \in Nat, clock <= clock',
         \A m \in Model : \/ breaker'[m] = breaker[m]
                          \/ breaker'[m].open_until = 0
                          \/ breaker'[m].open_until - Backoff(breaker'[m].trips) = clock,
         NEW r \in Request, status[r] \in InFlight, demand'[r] = demand[r],
         chain'[r] = chain[r], since'[r] = since[r]
  PROVE  /\ since'[r] <= clock'
         /\ demand'[r].pin = {} => \A i \in DOMAIN chain'[r] :
               /\ breaker'[chain'[r][i]].open_until > clock' =>
                    since'[r] <= breaker'[chain'[r][i]].open_until
                                   - Backoff(breaker'[chain'[r][i]].trips)
               /\ Attr[chain'[r][i]].hosted => ~demand'[r].private /\ ~LocalOnly
               /\ \A j \in DOMAIN chain'[r] : chain'[r][i] = chain'[r][j] => i = j
  <1>1. clock \in Nat /\ since[r] \in Nat /\ chain[r] \in Seq(Model)
    BY DEF RouterInv, TypeOK
  <1>2. since[r] <= clock
    BY DEF RouterInv, CallIsOnChain
  <1>3. since'[r] <= clock'
    BY <1>1, <1>2
  <1>4. ASSUME demand'[r].pin = {}, NEW i \in DOMAIN chain'[r],
               breaker'[chain'[r][i]].open_until > clock'
        PROVE  since'[r] <= breaker'[chain'[r][i]].open_until
                              - Backoff(breaker'[chain'[r][i]].trips)
    <2> DEFINE m == chain[r][i]
    <2>1. m \in Model
      BY <1>1
    <2>2. breaker[m] \in Breaker
      BY <2>1 DEF RouterInv, TypeOK
    <2>3. CASE breaker'[m] = breaker[m]
      <3>1. breaker[m].open_until > clock
        BY <1>1, <1>4, <2>2, <2>3 DEF Breaker
      <3>2. since[r] <= OpenedAt(m)
        BY <1>4, <3>1 DEF RouterInv, OnlyOldCallsReachSidelined, IsOpen
      <3> QED BY <2>3, <3>2 DEF OpenedAt
    <2>4. CASE breaker'[m].open_until = 0
      BY <1>4, <2>4
    <2>5. CASE breaker'[m].open_until - Backoff(breaker'[m].trips) = clock
      BY <1>1, <1>2, <2>5
    <2> QED BY <2>1, <2>3, <2>4, <2>5
  <1>5. ASSUME demand'[r].pin = {}, NEW i \in DOMAIN chain'[r]
        PROVE  /\ Attr[chain'[r][i]].hosted => ~demand'[r].private /\ ~LocalOnly
               /\ \A j \in DOMAIN chain'[r] : chain'[r][i] = chain'[r][j] => i = j
    BY <1>5 DEF RouterInv, FallbackKeepsTerms
  <1> QED BY <1>3, <1>4, <1>5

(* So a step that changes requests in no other way preserves the invariant. *)
LEMMA Preserved ==
  ASSUME RouterInv, clock' \in Nat, clock <= clock', TypeOK', BreakerCounts',
         \A m \in Model : \/ breaker'[m] = breaker[m]
                          \/ breaker'[m].open_until = 0
                          \/ breaker'[m].open_until - Backoff(breaker'[m].trips) = clock,
         \A r \in Request : status'[r] \in InFlight =>
              /\ status[r] \in InFlight /\ demand'[r] = demand[r]
              /\ chain'[r] = chain[r] /\ since'[r] = since[r]
              /\ at'[r] \in 1..Len(chain[r])
  PROVE  RouterInv'
  <1>1. CallIsOnChain'
    BY OthersUndisturbed DEF CallIsOnChain
  <1>2. OnlyOldCallsReachSidelined'
    BY OthersUndisturbed DEF OnlyOldCallsReachSidelined, IsOpen, OpenedAt
  <1>3. FallbackKeepsTerms'
    BY OthersUndisturbed DEF FallbackKeepsTerms
  <1> QED BY <1>1, <1>2, <1>3 DEF RouterInv

LEMMA RecordShape ==
  ASSUME RouterInv, NEW m \in Model, NEW o, clock' = clock,
         Record(m, o) \/ UNCHANGED breaker
  PROVE  /\ breaker' \in [Model -> Breaker]
         /\ BreakerCounts'
         /\ \A n \in Model : \/ breaker'[n] = breaker[n]
                             \/ breaker'[n].open_until = 0
                             \/ breaker'[n].open_until - Backoff(breaker'[n].trips) = clock
  <1>1. breaker \in [Model -> Breaker] /\ clock \in Nat
    BY DEF RouterInv, TypeOK
  <1>2. CASE UNCHANGED breaker
    BY <1>1, <1>2 DEF RouterInv, BreakerCounts
  <1>3. CASE Record(m, o)
    <2> DEFINE u == UpdateBreaker(breaker[m], o)
    <2>1. /\ u \in Breaker
          /\ u.consecutive < TripAfter
          /\ u.open_until > 0 => u.trips > 0
          /\ u.open_until <= clock + MaxBackoff
          /\ u = breaker[m] \/ u.open_until = 0 \/ u.open_until - Backoff(u.trips) = clock
      BY <1>1, UpdateShape DEF RouterInv, BreakerCounts
    <2>2. breaker' = [breaker EXCEPT ![m] = u]
      BY <1>3 DEF Record
    <2> HIDE DEF u
    <2>3. breaker' \in [Model -> Breaker]
      BY <1>1, <2>1, <2>2
    <2>4. \A n \in Model : breaker'[n] = IF n = m THEN u ELSE breaker[n]
      BY <1>1, <2>2
    <2> QED BY <1>1, <2>1, <2>3, <2>4 DEF RouterInv, BreakerCounts
  <1> QED BY <1>2, <1>3

LEMMA NextInv == RouterInv /\ [Next]_vars => RouterInv'
  <1> SUFFICES ASSUME RouterInv, [Next]_vars PROVE RouterInv'
    OBVIOUS
  <1>0. /\ TypeOK /\ RequestTypes /\ clock \in Nat
        /\ \A r \in Request : status[r] \in InFlight => at[r] \in 1..Len(chain[r])
    BY DEF RouterInv, TypeOK, RequestTypes, CallIsOnChain
  <1>1. CASE Tick
    <2>1. TypeOK'
      BY <1>0, <1>1 DEF Tick, TypeOK, cacheVars, requestVars, budgetVars
    <2>2. BreakerCounts'
      <3>1. \A m \in Model : breaker[m].open_until \in Nat
        BY <1>0 DEF TypeOK, Breaker
      <3> QED BY <1>0, <1>1, <3>1 DEF RouterInv, BreakerCounts, Tick
    <2> QED BY <1>0, <1>1, <2>1, <2>2, Preserved DEF Tick, requestVars
  <1>2. ASSUME NEW b \in Backend, Flip(b) PROVE RouterInv'
    <2>1. TypeOK'
      BY <1>0, <1>2 DEF Flip, TypeOK, cacheVars, requestVars
    <2>2. BreakerCounts'
      BY <1>2 DEF RouterInv, BreakerCounts, Flip
    <2> QED BY <1>0, <1>2, <2>1, <2>2, Preserved DEF Flip, requestVars
  <1>3. ASSUME NEW r \in Request, NEW d \in Demand, Arrive(r, d) PROVE RouterInv'
    <2> DEFINE inst == IF clock - discovered_at >= DiscoverTtl THEN Listed ELSE installed
    <2>1. inst \in SUBSET Model /\ discovered_at' \in Nat /\ discovered_at' <= clock
      BY <1>0, <1>3 DEF TypeOK, Arrive, Listed
    <2>2. /\ clock' = clock /\ breaker' = breaker /\ up' = up /\ installed' = inst
          /\ flips' = flips /\ restarts' = restarts /\ status[r] = "idle"
      BY <1>3 DEF Arrive, budgetVars
    <2>3. BreakerCounts'
      BY <2>2 DEF RouterInv, BreakerCounts
    <2>4. PICK c \in Route(d, inst) :
            IF c = <<>> THEN Leave({r})
            ELSE /\ status' = [status EXCEPT ![r] = "calling"]
                 /\ demand' = [demand EXCEPT ![r] = d]
                 /\ chain' = [chain EXCEPT ![r] = c]
                 /\ at' = [at EXCEPT ![r] = 1]
                 /\ since' = [since EXCEPT ![r] = clock]
      BY <1>3 DEF Arrive
    <2> HIDE DEF inst
    <2>5. CASE c = <<>>
      <3>1. Leave({r})
        BY <2>4, <2>5
      <3>2. TypeOK'
        BY <1>0, <2>1, <2>2, <3>1, LeaveShape DEF TypeOK, RequestTypes
      <3> QED BY <1>0, <2>2, <2>3, <3>1, <3>2, LeaveShape, Preserved
    <2>6. CASE c # <<>>
      <3>1. /\ c \in Seq(Model)
            /\ d.pin = {} =>
                 /\ \A i \in DOMAIN c : ~IsOpen(c[i])
                 /\ \A i \in DOMAIN c : Attr[c[i]].hosted => ~d.private /\ ~LocalOnly
                 /\ \A i, j \in DOMAIN c : c[i] = c[j] => i = j
        BY <2>1, RouteShape, PinShape
      <3>2. 1 \in 1..Len(c)
        BY <2>6, <3>1
      <3>3. TypeOK'
        <4>1. status' \in [Request -> Status]
          BY <1>0, <2>4, <2>6 DEF RequestTypes, Status, InFlight
        <4>2. demand' \in [Request -> Demand \cup {NoDemand}] /\ chain' \in [Request -> Seq(Model)]
          BY <1>0, <2>4, <2>6, <3>1 DEF RequestTypes
        <4>3. at' = [at EXCEPT ![r] = 1] /\ since' = [since EXCEPT ![r] = clock]
          BY <2>4, <2>6
        <4>4. at' \in [Request -> Nat]
          BY <1>0, <4>3 DEF RequestTypes
        <4>5. since' \in [Request -> Nat]
          BY <1>0, <4>3 DEF RequestTypes
        <4> QED BY <1>0, <2>1, <2>2, <4>1, <4>2, <4>4, <4>5 DEF TypeOK
      <3>4. /\ status'[r] = "calling" /\ demand'[r] = d /\ chain'[r] = c
            /\ at'[r] = 1 /\ since'[r] = clock
        BY <1>0, <2>4, <2>6 DEF RequestTypes
      <3>5. \A q \in Request : q # r =>
              /\ status'[q] = status[q] /\ demand'[q] = demand[q] /\ chain'[q] = chain[q]
              /\ at'[q] = at[q] /\ since'[q] = since[q]
        BY <1>0, <2>4, <2>6 DEF RequestTypes
      <3>6. CallIsOnChain'
        BY <1>0, <2>2, <3>2, <3>4, <3>5 DEF CallIsOnChain, RouterInv
      <3>7. OnlyOldCallsReachSidelined'
        BY <2>2, <3>1, <3>4, <3>5
        DEF OnlyOldCallsReachSidelined, RouterInv, IsOpen, OpenedAt
      <3>8. FallbackKeepsTerms'
        BY <3>1, <3>4, <3>5 DEF FallbackKeepsTerms, RouterInv
      <3> QED BY <2>3, <3>3, <3>6, <3>7, <3>8 DEF RouterInv
    <2> QED BY <2>5, <2>6
  <1>4. ASSUME NEW r \in Request, NEW reply \in Reply, Report(r, reply) PROVE RouterInv'
    <2> DEFINE o == Outcome(r, reply)
    <2>1. status[r] = "calling" /\ at[r] \in 1..Len(chain[r]) /\ Called(r) \in Model
      BY <1>0, <1>4 DEF Report, InFlight, Called, RequestTypes
    <2>2. clock' = clock /\ up' = up /\ flips' = flips /\ restarts' = restarts
      BY <1>4 DEF Report, budgetVars
    <2>3. Record(Called(r), o) \/ UNCHANGED breaker
      BY <1>4 DEF Report
    <2>4. /\ breaker' \in [Model -> Breaker]
          /\ BreakerCounts'
          /\ \A n \in Model : \/ breaker'[n] = breaker[n]
                              \/ breaker'[n].open_until = 0
                              \/ breaker'[n].open_until - Backoff(breaker'[n].trips) = clock
      BY <2>1, <2>2, <2>3, RecordShape
    <2>5. installed' \in SUBSET Model /\ discovered_at' \in Nat /\ discovered_at' <= clock
      BY <1>0, <1>4 DEF Report, TypeOK, cacheVars
    <2>6. CASE AfterCall(r, o) = "ended"
      <3>1. Leave({r})
        BY <1>4, <2>6 DEF Report
      <3>2. TypeOK'
        BY <1>0, <2>2, <2>4, <2>5, <3>1, LeaveShape DEF TypeOK, RequestTypes
      <3> QED BY <1>0, <2>2, <2>4, <3>1, <3>2, LeaveShape, Preserved
    <2>7. CASE AfterCall(r, o) # "ended"
      <3>1. /\ status' = [status EXCEPT ![r] = AfterCall(r, o)]
            /\ at' = [at EXCEPT ![r] = IF AfterCall(r, o) = "calling" THEN @ + 1 ELSE @]
            /\ UNCHANGED <<demand, chain, since>>
        BY <1>4, <2>7 DEF Report
      <3>2. AfterCall(r, o) \in InFlight /\ (AfterCall(r, o) = "calling" => at[r] < Len(chain[r]))
        BY <2>7 DEF AfterCall, InFlight
      <3>3. status' \in [Request -> Status] /\ at' \in [Request -> Nat]
        BY <1>0, <3>1, <3>2 DEF RequestTypes, Status
      <3>4. TypeOK'
        BY <1>0, <2>2, <2>4, <2>5, <3>1, <3>3 DEF TypeOK
      <3>5. chain[r] \in Seq(Model)
        BY <1>0 DEF RequestTypes
      <3>6. \A q \in Request : status'[q] \in InFlight =>
               status[q] \in InFlight /\ at'[q] \in 1..Len(chain[q])
        BY <1>0, <2>1, <3>1, <3>2, <3>5 DEF RequestTypes, InFlight
      <3> QED BY <1>0, <2>2, <2>4, <3>1, <3>4, <3>6, Preserved
    <2> QED BY <2>6, <2>7
  <1>8. ASSUME NEW r \in Request, Renew(r) PROVE RouterInv'
    <2>1. /\ status[r] = "renewing" /\ at[r] \in 1..Len(chain[r]) /\ chain[r] \in Seq(Model)
          /\ clock' = clock /\ breaker' = breaker /\ up' = up
          /\ flips' = flips /\ restarts' = restarts
      BY <1>0, <1>8 DEF Renew, InFlight, RequestTypes, budgetVars
    <2>2. installed' \in SUBSET Model /\ discovered_at' \in Nat /\ discovered_at' <= clock
      BY <1>0, <1>8 DEF Renew, TypeOK, Listed
    <2>3. BreakerCounts'
      BY <2>1 DEF RouterInv, BreakerCounts
    <2>4. CASE at[r] < Len(chain[r])
      <3>1. /\ status' = [status EXCEPT ![r] = "calling"]
            /\ at' = [at EXCEPT ![r] = @ + 1]
            /\ UNCHANGED <<demand, chain, since>>
        BY <1>8, <2>4 DEF Renew
      <3>2. status' \in [Request -> Status] /\ at' \in [Request -> Nat]
        BY <1>0, <3>1 DEF RequestTypes, Status, InFlight
      <3>3. TypeOK'
        BY <1>0, <2>1, <2>2, <3>1, <3>2 DEF TypeOK
      <3>4. \A q \in Request : status'[q] \in InFlight =>
               status[q] \in InFlight /\ at'[q] \in 1..Len(chain[q])
        BY <1>0, <2>1, <2>4, <3>1 DEF RequestTypes, InFlight
      <3> QED BY <1>0, <2>1, <2>3, <3>1, <3>3, <3>4, Preserved
    <2>5. CASE ~(at[r] < Len(chain[r]))
      <3>1. Leave({r})
        BY <1>8, <2>5 DEF Renew
      <3>2. TypeOK'
        BY <1>0, <2>1, <2>2, <3>1, LeaveShape DEF TypeOK, RequestTypes
      <3> QED BY <1>0, <2>1, <2>3, <3>1, <3>2, LeaveShape, Preserved
    <2> QED BY <2>4, <2>5
  <1>5. ASSUME NEW r \in Request, NEW completed \in BOOLEAN, StreamEnds(r, completed)
        PROVE RouterInv'
    <2>1. Called(r) \in Model
      BY <1>0, <1>5 DEF StreamEnds, InFlight, Called, RequestTypes
    <2>2. clock' = clock /\ Leave({r}) /\ (Record(Called(r), "ok") \/ UNCHANGED breaker)
      BY <1>5 DEF StreamEnds
    <2>3. /\ breaker' \in [Model -> Breaker]
          /\ BreakerCounts'
          /\ \A n \in Model : \/ breaker'[n] = breaker[n]
                              \/ breaker'[n].open_until = 0
                              \/ breaker'[n].open_until - Backoff(breaker'[n].trips) = clock
      BY <2>1, <2>2, RecordShape
    <2>4. TypeOK'
      BY <1>0, <1>5, <2>2, <2>3, LeaveShape
      DEF StreamEnds, TypeOK, RequestTypes, cacheVars, budgetVars
    <2> QED BY <1>0, <2>2, <2>3, <2>4, LeaveShape, Preserved
  <1>6. CASE Restart
    <2>1. /\ clock' = clock /\ breaker' = breaker /\ up' = up /\ flips' = flips
          /\ Leave({r \in Request : status[r] \in InFlight})
      BY <1>6 DEF Restart, Reboot
    <2>2. TypeOK'
      <3>1. installed' \in SUBSET Model /\ discovered_at' \in Nat /\ discovered_at' <= clock'
            /\ restarts' \in Nat
        BY <1>0, <1>6 DEF Restart, Reboot, TypeOK, Listed
      <3> QED BY <1>0, <2>1, <3>1, LeaveShape DEF TypeOK, RequestTypes
    <2>3. BreakerCounts'
      BY <2>1 DEF RouterInv, BreakerCounts
    <2> QED BY <1>0, <2>1, <2>2, <2>3, LeaveShape, Preserved
  <1>7. CASE UNCHANGED vars
    <2>1. TypeOK'
      BY <1>0, <1>7 DEF vars, TypeOK
    <2>2. BreakerCounts'
      BY <1>7 DEF vars, RouterInv, BreakerCounts
    <2> QED BY <1>0, <1>7, <2>1, <2>2, Preserved DEF vars
  <1> QED BY <1>1, <1>2, <1>3, <1>4, <1>5, <1>6, <1>7, <1>8 DEF Next

(***************************************************************************)
(* The router's invariant: sidelined models are called only by requests    *)
(* routed before, and no fallback breaks the terms of its request.         *)
(***************************************************************************)
THEOREM RouterInvariant == Spec => []RouterInv
  BY InitInv, NextInv, PTL DEF Spec

(***************************************************************************)
(* An open breaker closes early only by a report of a request that was     *)
(* routed before it opened, though its call may be younger, or of one that *)
(* pins the model: no restart, no death of a backend and no newer request  *)
(* does it.                                                                *)
(***************************************************************************)
THEOREM EarlyRelease == Spec => EarlyReleaseByOldChain
  <1> DEFINE A == \A m \in Model : IsOpen(m) /\ breaker'[m].open_until <= clock =>
                    \E r \in Request :
                      /\ status[r] \in InFlight /\ Called(r) = m
                      /\ demand[r].pin # {} \/ since[r] <= OpenedAt(m)
  <1>1. RouterInv /\ [Next]_vars => [A]_vars
    <2> SUFFICES ASSUME RouterInv, Next, NEW m \in Model, IsOpen(m),
                        breaker'[m].open_until <= clock
                 PROVE  \E r \in Request :
                          /\ status[r] \in InFlight /\ Called(r) = m
                          /\ demand[r].pin # {} \/ since[r] <= OpenedAt(m)
      OBVIOUS
    <2>1. breaker'[m] # breaker[m]
      BY DEF IsOpen, RouterInv, TypeOK, Breaker
    <2>2. PICK r \in Request : status[r] \in InFlight /\ (\E o : Record(Called(r), o))
      BY <2>1 DEF Next, Tick, Flip, Arrive, Report, Renew, StreamEnds, Restart, InFlight
    <2>3. Called(r) = m
      BY <2>1, <2>2 DEF Record, RouterInv, TypeOK
    <2>4. at[r] \in DOMAIN chain[r]
      BY <2>2 DEF RouterInv, CallIsOnChain, TypeOK
    <2>5. demand[r].pin = {} => since[r] <= OpenedAt(m)
      BY <2>2, <2>3, <2>4 DEF RouterInv, OnlyOldCallsReachSidelined, Called
    <2> QED BY <2>2, <2>3, <2>5
  <1> QED BY <1>1, RouterInvariant, PTL DEF Spec, EarlyReleaseByOldChain

(***************************************************************************)
(* The window ollama is asked for holds half as much again as the prompt    *)
(* and the answer, unless the largest bucket or a limit of the model or of  *)
(* the operator is smaller (choose_num_ctx).                               *)
(***************************************************************************)
THEOREM WindowHolds ==
  ASSUME NEW prompt \in Nat, NEW requested \in Nat, NEW reasoner \in BOOLEAN,
         NEW ceiling \in Nat,
         Needed(prompt, OutputBudget(requested, reasoner)) <= Largest,
         ceiling = 0 \/ ceiling >= Needed(prompt, OutputBudget(requested, reasoner))
  PROVE  NumCtx(prompt, requested, reasoner, ceiling)
           >= Needed(prompt, OutputBudget(requested, reasoner))
  <1> DEFINE n == Needed(prompt, OutputBudget(requested, reasoner))
  <1>1. n \in Nat
    BY DEF Needed, OutputBudget, ReasoningAllowance
  <1> HIDE DEF n
  <1>2. \E b \in Buckets : b >= n /\ \A c \in Buckets : c >= n => b <= c
    <2>1. n <= 131072
      BY DEF n, Largest
    <2>2. CASE n <= 8192
      BY <1>1, <2>2 DEF Buckets
    <2>3. CASE n > 8192 /\ n <= 16384
      BY <1>1, <2>3 DEF Buckets
    <2>4. CASE n > 16384 /\ n <= 32768
      BY <1>1, <2>4 DEF Buckets
    <2>5. CASE n > 32768 /\ n <= 65536
      BY <1>1, <2>5 DEF Buckets
    <2>6. CASE n > 65536
      BY <1>1, <2>1, <2>6 DEF Buckets
    <2> QED BY <1>1, <2>2, <2>3, <2>4, <2>5, <2>6
  <1>3. Fitting(n) >= n /\ Fitting(n) \in Buckets
    BY <1>1, <1>2 DEF Fitting, n, Largest
  <1> QED BY <1>1, <1>3 DEF NumCtx, Tighter, n, Buckets

(* No model is shown as routable that the router would reject: the page looks   *)
(* only at the list of the model's own backend, the router at all lists, and   *)
(* what is on the one is on the other (policy.py, catalog_snapshot).          *)
THEOREM HonestCatalog == Spec => []CatalogIsHonest
  <1>1. CatalogIsHonest
    BY DEF CatalogIsHonest, CatalogRoutable, MayServe
  <1> QED BY <1>1, PTL

-----------------------------------------------------------------------------
(* Every set of naturals that is not empty has a least member. *)
LEMMA Least ==
  ASSUME NEW T \in SUBSET Nat, T # {}
  PROVE  \E n \in T : \A k \in T : n <= k
  <1> DEFINE R == OpToRel(<, Nat)
  <1>1. IsWellFoundedOn(R, Nat)
    BY NatLessThanWellFounded
  <1>2. \A i, j \in Nat : i < j => <<i, j>> \in R
    BY DEF OpToRel
  <1> HIDE DEF R
  <1>3. PICK n \in T : \A k \in T : <<k, n>> \notin R
    BY <1>1, WFMin
  <1>4. \A k \in T : k \in Nat /\ n \in Nat /\ ~(k < n)
    BY <1>2, <1>3
  <1>5. \A i, j \in Nat : ~(i < j) => j <= i
    OBVIOUS
  <1> QED BY <1>4, <1>5

(* What Chains asks of the first n places of a chain. *)
Before(c, i) == {c[j] : j \in 1..(i - 1)}
Other(E, c, i) == {m \in E : \A u \in Before(c, i) : Attr[m].backend # Attr[u].backend}
Places(E, c, n) ==
    /\ c \in [1..n -> E]
    /\ \A i \in 1..n : /\ c[i] \notin Before(c, i)
                       /\ Other(E, c, i) # {} => c[i] \in Other(E, c, i)

(* Who is left can always be put in the next place. *)
LEMMA OneMorePlace ==
  ASSUME NEW E \in SUBSET Model, NEW n \in Nat \ {0}, n <= Cardinality(E),
         NEW c, Places(E, c, n - 1)
  PROVE  \E d : Places(E, d, n)
  <1>1. n - 1 \in Nat /\ IsFiniteSet(E) /\ Cardinality(E) \in Nat
    BY FS_Subset, FS_CardinalityType
  <1> DEFINE U == Before(c, n)
  <1>2. c \in [1..(n - 1) -> E] /\ U \in SUBSET E
    BY DEF Places, Before
  <1>3. IsFiniteSet(U) /\ Cardinality(U) < Cardinality(E)
    <2> DEFINE I == 1..(n - 1)
               W == {c[j] : j \in I}
    <2>1. IsFiniteSet(I) /\ Cardinality(I) = n - 1
      BY <1>1, FS_Interval
    <2>2. IsFiniteSet(U)
      BY <1>1, <1>2, FS_Subset
    <2>3. c \in Surjection(I, W)
      BY <1>2 DEF Surjection
    <2>4. Cardinality(W) <= Cardinality(I)
      BY <2>1, <2>3, FS_Surjection
    <2>5. U = W
      BY DEF Before
    <2>6. Cardinality(U) \in Nat
      BY <2>2, FS_CardinalityType
    <2> QED BY <1>1, <2>1, <2>2, <2>4, <2>5, <2>6
  <1>4. \E m \in E : m \notin U
    <2>1. U # E
      BY <1>1, <1>3
    <2> QED BY <1>2, <2>1
  <1>5. \A m \in Other(E, c, n) : m \in E /\ m \notin U
    BY DEF Other
  <1>6. PICK m \in E : m \notin U /\ (Other(E, c, n) # {} => m \in Other(E, c, n))
    BY <1>4, <1>5
  <1> HIDE DEF U
  <1> DEFINE d == [i \in 1..n |-> IF i = n THEN m ELSE c[i]]
  <1>7. d \in [1..n -> E] /\ d[n] = m /\ \A i \in 1..(n - 1) : d[i] = c[i]
    BY <1>1, <1>2, <1>6
  <1> HIDE DEF d
  <1>8. \A i \in 1..n : Before(d, i) = Before(c, i)
    <2> TAKE i \in 1..n
    <2>1. \A j \in 1..(i - 1) : d[j] = c[j]
      BY <1>1, <1>7
    <2> QED BY <2>1 DEF Before
  <1>9. \A i \in 1..n : Other(E, d, i) = Other(E, c, i)
    BY <1>8 DEF Other
  <1>10. ASSUME NEW i \in 1..n
         PROVE  d[i] \notin Before(d, i) /\ (Other(E, d, i) # {} => d[i] \in Other(E, d, i))
    <2>1. CASE i = n
      BY <1>6, <1>7, <1>8, <1>9, <2>1 DEF U
    <2>2. CASE i # n
      <3>1. i \in 1..(n - 1)
        BY <1>1, <2>2
      <3> QED BY <1>7, <1>8, <1>9, <3>1 DEF Places
    <2> QED BY <2>1, <2>2
  <1> QED BY <1>7, <1>10 DEF Places

LEMMA PlacesExist ==
  ASSUME NEW E \in SUBSET Model
  PROVE  \A n \in 0..Cardinality(E) : \E c : Places(E, c, n)
  <1>0. Cardinality(E) \in Nat
    BY FS_Subset, FS_CardinalityType
  <1> DEFINE T == {n \in 0..Cardinality(E) : ~ \E c : Places(E, c, n)}
  <1> SUFFICES ASSUME T # {} PROVE FALSE
    OBVIOUS
  <1>1. T \in SUBSET Nat
    BY <1>0
  <1>2. PICK n \in T : \A k \in T : n <= k
    BY <1>1, Least
  <1>3. CASE n = 0
    <2> DEFINE c == [i \in 1..0 |-> i]
    <2>1. 1..0 = {}
      OBVIOUS
    <2>2. c \in [1..0 -> E]
      BY <2>1
    <2>3. Places(E, c, 0)
      BY <2>1, <2>2 DEF Places
    <2> QED BY <1>2, <1>3, <2>3
  <1>4. CASE n # 0
    <2>1. n \in Nat \ {0} /\ n <= Cardinality(E) /\ n - 1 \in 0..Cardinality(E) /\ ~(n <= n - 1)
      BY <1>0, <1>2, <1>4
    <2>2. PICK c : Places(E, c, n - 1)
      BY <1>2, <2>1
    <2> QED BY <1>2, <2>1, <2>2, OneMorePlace
  <1> QED BY <1>3, <1>4

LEMMA SomeChain ==
  ASSUME NEW E \in SUBSET Model, E # {}
  PROVE  Chains(E) # {} /\ <<>> \notin Chains(E)
  <1> DEFINE n == IF Cardinality(E) < MaxFallbacks + 1 THEN Cardinality(E) ELSE MaxFallbacks + 1
  <1>1. n \in 1..Cardinality(E)
    <2>1. IsFiniteSet(E) /\ Cardinality(E) \in Nat /\ Cardinality(E) # 0
      BY FS_Subset, FS_CardinalityType, FS_EmptySet
    <2> QED BY <2>1
  <1>2. PICK c : Places(E, c, n)
    BY <1>1, PlacesExist
  <1>3. Chains(E) = {f \in [1..n -> E] : Places(E, f, n)}
    BY DEF Chains, Places, Before, Other
  <1> HIDE DEF n
  <1>4. c \in Chains(E)
    BY <1>2, <1>3 DEF Places
  <1>5. ASSUME <<>> \in Chains(E) PROVE FALSE
    <2>1. DOMAIN <<>> = 1..n
      BY <1>3, <1>5
    <2>2. 1 \in 1..n /\ 1 \notin DOMAIN <<>>
      BY <1>1
    <2> QED BY <2>1, <2>2
  <1> QED BY <1>4, <1>5

(* A request always gets an answer, and it is "nobody" exactly when no model    *)
(* serves its tier or a lower one, or, where it pins a model, when it names it *)
(* by its bare reference and no installed list has it (policy.py, decide;      *)
(* server.py, _pinned_chain).                                                  *)
THEOREM ChainFound ==
  ASSUME NEW d \in DemandRecord, NEW inst
  PROVE  /\ Route(d, inst) # {}
         /\ <<>> \in Route(d, inst) <=>
                \/ d.pin = {} /\ \A t \in d.tier..3 : Eligible(t, d, inst) = {}
                \/ d.pin # {} /\ d.bare /\ d.pin \cap inst = {}
  <1> DEFINE Served == {t \in d.tier..3 : Eligible(t, d, inst) # {}}
  <1>0. d.tier \in 1..3
    BY DEF DemandRecord, Tier
  <1>1. CASE d.pin # {}
    <2>1. Pinned(d, inst) = {} <=> d.bare /\ d.pin \cap inst = {}
      BY <1>1 DEF Pinned
    <2> HIDE DEF Pinned
    <2> QED BY <1>1, <2>1 DEF Route
  <1>2. CASE d.pin = {} /\ Served = {}
    BY <1>2 DEF Route, Decide
  <1>3. CASE d.pin = {} /\ Served # {}
    <2>1. Served \in SUBSET Nat
      BY <1>0
    <2>2. PICK t \in Served : \A u \in Served : t <= u
      BY <1>3, <2>1, Least
    <2>3. \A u \in Served : Eligible(u, d, inst) \in SUBSET Model /\ Eligible(u, d, inst) # {}
      BY DEF Eligible
    <2>4. \A u \in Served : Chains(Eligible(u, d, inst)) # {} /\ <<>> \notin Chains(Eligible(u, d, inst))
      BY <2>3, SomeChain
    <2>5. Route(d, inst) = UNION {Chains(Eligible(u, d, inst)) :
                                u \in {best \in Served : \A v \in Served : best <= v}}
      BY <1>3 DEF Route, Decide
    <2> HIDE DEF Served
    <2>6. Route(d, inst) # {} /\ <<>> \notin Route(d, inst)
      BY <2>2, <2>4, <2>5
    <2> QED BY <1>3, <2>6 DEF Served
  <1> QED BY <1>1, <1>2, <1>3

-----------------------------------------------------------------------------
(* The times out of service: Doubled is recursive over all naturals. *)

DoublesTo(f, n) ==
    f \in [0..n -> Nat] /\ f[0] = BaseBackoff /\ \A i \in 1..n : f[i] = 2 * f[i - 1]

LEMMA DoublingExists == \A n \in Nat : \E f : DoublesTo(f, n)
  <1> DEFINE T == {n \in Nat : ~ \E f : DoublesTo(f, n)}
  <1> SUFFICES ASSUME T # {} PROVE FALSE
    OBVIOUS
  <1>1. PICK n \in T : \A k \in T : n <= k
    BY Least
  <1>2. CASE n = 0
    <2> DEFINE f == [i \in 0..0 |-> BaseBackoff]
    <2>1. DoublesTo(f, 0)
      BY DEF DoublesTo
    <2> QED BY <1>1, <1>2, <2>1
  <1>3. CASE n # 0
    <2>1. n \in Nat \ {0} /\ n - 1 \in Nat /\ ~(n <= n - 1)
      BY <1>1, <1>3
    <2>2. PICK f : DoublesTo(f, n - 1)
      BY <1>1, <2>1
    <2> DEFINE m == 2 * f[n - 1]
               g == [i \in 0..n |-> IF i = n THEN m ELSE f[i]]
    <2>3. f \in [0..(n - 1) -> Nat] /\ f[n - 1] \in Nat
      BY <2>1, <2>2 DEF DoublesTo
    <2>4. m \in Nat
      BY <2>3
    <2>5. g \in [0..n -> Nat] /\ g[n] = m /\ \A i \in 0..(n - 1) : g[i] = f[i]
      BY <2>1, <2>3, <2>4
    <2>6. m = 2 * f[n - 1]
      OBVIOUS
    <2> HIDE DEF g, m
    <2>7. ASSUME NEW i \in 1..n PROVE g[i] = 2 * g[i - 1]
      <3>1. CASE i = n
        BY <2>1, <2>5, <2>6, <3>1
      <3>2. CASE i # n
        <4>1. i \in 1..(n - 1) /\ i - 1 \in 0..(n - 1) /\ i \in 0..(n - 1)
          BY <2>1, <3>2
        <4>2. f[i] = 2 * f[i - 1]
          BY <2>2, <4>1 DEF DoublesTo
        <4> QED BY <2>5, <4>1, <4>2
      <3> QED BY <3>1, <3>2
    <2>8. g[0] = BaseBackoff
      BY <2>1, <2>2, <2>5 DEF DoublesTo
    <2>9. DoublesTo(g, n)
      BY <2>5, <2>7, <2>8 DEF DoublesTo
    <2> QED BY <1>1, <2>9
  <1> QED BY <1>2, <1>3

LEMMA DoublingUnique ==
  ASSUME NEW m \in Nat, NEW n \in Nat, NEW f, DoublesTo(f, m), NEW g, DoublesTo(g, n)
  PROVE  \A i \in 0..m : i <= n => f[i] = g[i]
  <1> DEFINE T == {i \in 0..m : i <= n /\ f[i] # g[i]}
  <1> SUFFICES ASSUME T # {} PROVE FALSE
    OBVIOUS
  <1>0. T \in SUBSET Nat
    OBVIOUS
  <1>1. PICK i \in T : \A k \in T : i <= k
    BY <1>0, Least
  <1>2. i # 0
    BY <1>1 DEF DoublesTo
  <1>3. i \in 1..m /\ i \in 1..n /\ i - 1 \in 0..m /\ i - 1 <= n /\ ~(i <= i - 1)
    BY <1>1, <1>2
  <1>4. f[i - 1] = g[i - 1]
    BY <1>1, <1>3
  <1> QED BY <1>1, <1>3, <1>4 DEF DoublesTo

LEMMA DoubledIs ==
  /\ Doubled[0] = BaseBackoff
  /\ \A n \in Nat : Doubled[n + 1] = 2 * Doubled[n]
  <1> DEFINE E(f) == [n \in Nat |-> IF n = 0 THEN BaseBackoff ELSE 2 * f[n - 1]]
             F(n) == CHOOSE f : DoublesTo(f, n)
             D == [n \in Nat |-> F(n)[n]]
  <1>1. \A n \in Nat : DoublesTo(F(n), n)
    BY DoublingExists
  <1> HIDE DEF F
  <1>2. D[0] = BaseBackoff
    BY <1>1 DEF DoublesTo
  <1>3. ASSUME NEW n \in Nat, n # 0 PROVE D[n] = 2 * D[n - 1]
    <2>1. n - 1 \in Nat /\ n \in 1..n /\ n - 1 \in 0..(n - 1) /\ n - 1 <= n
      BY <1>3
    <2>2. F(n - 1)[n - 1] = F(n)[n - 1]
      BY <1>1, <2>1, DoublingUnique
    <2>3. F(n)[n] = 2 * F(n)[n - 1]
      BY <1>1, <2>1 DEF DoublesTo
    <2> QED BY <2>1, <2>2, <2>3
  <1>4. D = E(D)
    <2>1. \A n \in Nat : D[n] = E(D)[n]
      BY <1>2, <1>3
    <2> HIDE DEF F
    <2> QED BY <2>1
  <1> HIDE DEF D
  <1>5. Doubled = E(Doubled)
    BY <1>4 DEF Doubled
  <1> HIDE DEF E
  <1>6. E(Doubled)[0] = BaseBackoff /\ \A n \in Nat : E(Doubled)[n + 1] = 2 * Doubled[n]
    BY DEF E
  <1> QED BY <1>5, <1>6

LEMMA DoubledType == \A n \in Nat : Doubled[n] \in Nat \ {0}
  <1> DEFINE T == {n \in Nat : Doubled[n] \notin Nat \ {0}}
  <1> SUFFICES ASSUME T # {} PROVE FALSE
    OBVIOUS
  <1>1. PICK n \in T : \A k \in T : n <= k
    BY Least
  <1>2. n # 0
    BY <1>1, DoubledIs
  <1>3. n - 1 \in Nat /\ ~(n <= n - 1)
    BY <1>1, <1>2
  <1>4. Doubled[n - 1] \in Nat \ {0}
    BY <1>1, <1>3
  <1>5. Doubled[(n - 1) + 1] = 2 * Doubled[n - 1]
    BY <1>3, DoubledIs
  <1>6. (n - 1) + 1 = n
    BY <1>1
  <1> QED BY <1>1, <1>4, <1>5, <1>6

(* Each further trip of a breaker takes its model out of service for twice as  *)
(* long, up to the longest time there is (ledger.py:217-219).                 *)
THEOREM BackoffDoubles ==
  /\ Backoff(1) = IF BaseBackoff <= MaxBackoff THEN BaseBackoff ELSE MaxBackoff
  /\ \A trips \in Nat \ {0} :
        Backoff(trips + 1) = IF 2 * Backoff(trips) <= MaxBackoff THEN 2 * Backoff(trips)
                             ELSE MaxBackoff
  <1>1. Backoff(1) = IF BaseBackoff <= MaxBackoff THEN BaseBackoff ELSE MaxBackoff
    <2>1. 1 - 1 = 0 /\ Doubled[0] = BaseBackoff
      BY DoubledIs
    <2>2. Doubled[1 - 1] = BaseBackoff
      BY <2>1
    <2> QED BY <2>2 DEF Backoff
  <1>2. ASSUME NEW t \in Nat \ {0}
        PROVE  Backoff(t + 1) = IF 2 * Backoff(t) <= MaxBackoff THEN 2 * Backoff(t) ELSE MaxBackoff
    <2>1. t - 1 \in Nat /\ (t + 1) - 1 = (t - 1) + 1
      OBVIOUS
    <2>2. Doubled[t - 1] \in Nat \ {0} /\ Doubled[(t - 1) + 1] = 2 * Doubled[t - 1]
      BY <2>1, DoubledIs, DoubledType
    <2>3. Doubled[(t + 1) - 1] = 2 * Doubled[t - 1]
      BY <2>1, <2>2
    <2> QED BY <2>2, <2>3 DEF Backoff
  <1> QED BY <1>1, <1>2
=============================================================================
