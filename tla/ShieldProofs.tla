---------------------------- MODULE ShieldProofs ----------------------------
(***************************************************************************)
(* Proofs about the shield, for any number of backends, requests, clients  *)
(* and any values of PARAMS.                                               *)
(***************************************************************************)
EXTENDS Shield, FiniteSetTheorems, TLAPS

\* A request is with a backend exactly while it is being proxied.
PlaceInv == \A r \in Req : proxyOf[r] # 0 <=> state[r] = "proxied"

\* The statistics of whoever has sent a request.
StatsInv ==
    /\ \A r \in Req : state[r] # "new" => stats[ip[r]].count >= 1
    /\ \A a \in IP : ~stats[a].blackhole => stats[a].count <= maxRequests

(***************************************************************************)
(* The inductive invariant of the shield.  WorkConserving is what makes    *)
(* the 'end' handler safe: with a request in the queue every backend is    *)
(* full, so the slot that was just freed is the only one.                  *)
(***************************************************************************)
ShieldInv ==
    /\ TypeOK /\ PlaceInv /\ BackendBound /\ WorkConserving /\ NeverUnready
    /\ StatsInv

\* Facts about one backend's set of requests, for every step.
LEMMA ServiceFinite ==
    ASSUME NEW p
    PROVE  IsFiniteSet(InService(p)) /\ Cardinality(InService(p)) \in Nat
<1>1. InService(p) \subseteq Req
  BY DEF InService
<1> QED BY <1>1, FS_Subset, FS_CardinalityType, ShieldAssumption

\* A request that enters adds one, a request that leaves takes one away.
LEMMA ServiceEnters ==
    ASSUME TypeOK, NEW r \in Req, NEW p \in Proxies, proxyOf[r] = 0,
           proxyOf' = [proxyOf EXCEPT ![r] = p]
    PROVE  \A q \in Proxies : Cardinality(InService(q)') =
              Cardinality(InService(q)) + (IF q = p THEN 1 ELSE 0)
<1> SUFFICES ASSUME NEW q \in Proxies
             PROVE  Cardinality(InService(q)') =
                      Cardinality(InService(q)) + (IF q = p THEN 1 ELSE 0)
  OBVIOUS
<1>1. CASE q = p
  <2>1. InService(q)' = InService(q) \cup {r} /\ r \notin InService(q)
    BY <1>1 DEF InService, TypeOK, Proxies
  <2> QED BY <1>1, <2>1, ServiceFinite, FS_AddElement
<1>2. CASE q # p
  <2>1. InService(q)' = InService(q)
    BY <1>2 DEF InService, TypeOK, Proxies
  <2> QED BY <1>2, <2>1, ServiceFinite
<1> QED BY <1>1, <1>2

\* A request that leaves a backend takes one away.
LEMMA ServiceLeaves ==
    ASSUME TypeOK, NEW r \in Req, NEW p \in Proxies, proxyOf[r] = p,
           proxyOf' = [proxyOf EXCEPT ![r] = 0]
    PROVE  \A q \in Proxies : Cardinality(InService(q)') =
              Cardinality(InService(q)) - (IF q = p THEN 1 ELSE 0)
<1> SUFFICES ASSUME NEW q \in Proxies
             PROVE  Cardinality(InService(q)') =
                      Cardinality(InService(q)) - (IF q = p THEN 1 ELSE 0)
  OBVIOUS
<1>1. CASE q = p
  <2>1. InService(q)' = InService(q) \ {r} /\ r \in InService(q)
    BY <1>1 DEF InService, TypeOK, Proxies
  <2> QED BY <1>1, <2>1, ServiceFinite, FS_RemoveElement
<1>2. CASE q # p
  <2>1. InService(q)' = InService(q)
    BY <1>2 DEF InService, TypeOK, Proxies
  <2> QED BY <1>2, <2>1, ServiceFinite
<1> QED BY <1>1, <1>2

\* One request takes the place of another.
LEMMA ServiceSwaps ==
    ASSUME TypeOK, NEW e \in Req, NEW s \in Req, NEW p \in Proxies,
           proxyOf[e] = p, proxyOf[s] = 0, e # s,
           proxyOf' = [proxyOf EXCEPT ![s] = p, ![e] = 0]
    PROVE  \A q \in Proxies : Cardinality(InService(q)') = Cardinality(InService(q))
<1> SUFFICES ASSUME NEW q \in Proxies
             PROVE  Cardinality(InService(q)') = Cardinality(InService(q))
  OBVIOUS
<1>1. CASE q = p
  <2> DEFINE M == InService(q) \ {e}
  <2>1. e \in InService(q) /\ s \notin M /\ InService(q)' = M \cup {s}
    BY <1>1 DEF InService, TypeOK, Proxies
  <2>2. IsFiniteSet(M) /\ Cardinality(M) = Cardinality(InService(q)) - 1
    BY <2>1, ServiceFinite, FS_RemoveElement
  <2>3. Cardinality(M \cup {s}) = Cardinality(M) + 1
    BY <2>1, <2>2, FS_AddElement
  <2>4. Cardinality(InService(q)) \in Nat
    BY ServiceFinite
  <2> HIDE DEF M
  <2> QED BY <2>1, <2>2, <2>3, <2>4
<1>2. CASE q # p
  <2>1. InService(q)' = InService(q)
    BY <1>2 DEF InService, TypeOK, Proxies
  <2> QED BY <2>1
<1> QED BY <1>1, <1>2

\* Before the first request nothing is in service.
LEMMA ShieldInit == Init => ShieldInv
<1> SUFFICES ASSUME Init PROVE ShieldInv OBVIOUS
<1> USE ShieldAssumption
<1>1. TypeOK
  <2>1. NoStats \in StatsType
    BY DEF NoStats, StatsType
  <2>2. now \in Nat /\ startTime \in [Req -> Nat] /\ proxyOf \in [Req -> 0 .. NProxies]
    BY DEF Init
  <2>3. inFlight \in [Proxies -> Nat] /\ lost \in [Proxies -> Nat]
    BY DEF Init
  <2>4. /\ state \in [Req -> States] /\ ip \in [Req -> IP]
        /\ closed \in [Req -> BOOLEAN] /\ unready \in BOOLEAN
    BY DEF Init, States
  <2>5. stats \in [IP -> StatsType]
    BY <2>1 DEF Init
  <2> QED BY <2>2, <2>3, <2>4, <2>5 DEF TypeOK
<1>2. PlaceInv /\ WorkConserving /\ NeverUnready
  BY DEF Init, PlaceInv, WorkConserving, NeverUnready, Requests
<1>3. BackendBound
  <2>1. \A p \in Proxies : InService(p) = {}
    BY DEF Init, InService, Proxies
  <2> QED BY <2>1, FS_EmptySet DEF Init, BackendBound
<1>4. StatsInv
  BY DEF Init, StatsInv, NoStats
<1> QED BY <1>1, <1>2, <1>3, <1>4 DEF ShieldInv

\* takeRequest keeps the invariant.
LEMMA TakeInv == ASSUME ShieldInv, NEW r \in Req, takeRequest(r) PROVE ShieldInv'
<1> USE ShieldAssumption
<1> DEFINE d == record(stats[ip[r]])
<1>1. TypeOK /\ PlaceInv /\ BackendBound /\ WorkConserving /\ NeverUnready /\ StatsInv
  BY DEF ShieldInv
<1>2. stats[ip[r]] \in StatsType /\ ip[r] \in IP
  BY <1>1 DEF TypeOK
<1>3. d \in StatsType /\ d.count = stats[ip[r]].count + 1
      /\ (~d.blackhole => d.count <= maxRequests)
  BY <1>1, <1>2 DEF record, StatsType, TypeOK
<1> HIDE DEF d
<1>4. /\ state[r] = "new"
      /\ startTime' = [startTime EXCEPT ![r] = now]
      /\ stats' = [stats EXCEPT ![ip[r]] = d]
      /\ UNCHANGED <<now, ip, closed, lost, unready>>
  BY DEF takeRequest, d
<1>5. StatsInv' /\ NeverUnready'
  <2>1. /\ stats'[ip[r]] = d /\ \A a \in IP : a # ip[r] => stats'[a] = stats[a]
    BY <1>1, <1>2, <1>4 DEF TypeOK
  <2>2. \A q \in Req : q # r => state'[q] = state[q]
    BY <1>1 DEF takeRequest, TypeOK
  <2>3. \A a \in IP : stats[a].count \in Nat
    BY <1>1 DEF TypeOK, StatsType
  <2> QED BY <1>1, <1>2, <1>3, <1>4, <2>1, <2>2, <2>3 DEF StatsInv, NeverUnready, TypeOK
<1>6. CASE /\ state' = [state EXCEPT ![r] = "rejected"]
           /\ UNCHANGED <<proxyOf, inFlight>>
  <2>1. TypeOK'
    BY <1>1, <1>3, <1>4, <1>6 DEF TypeOK, States
  <2>2. PlaceInv' /\ WorkConserving'
    BY <1>1, <1>4, <1>6 DEF PlaceInv, WorkConserving, Requests, TypeOK, NoneAvailable, full
  <2>3. BackendBound'
    BY <1>1, <1>4, <1>6 DEF BackendBound, InService
  <2> QED BY <1>5, <2>1, <2>2, <2>3 DEF ShieldInv
<1>7. ASSUME NEW p \in Proxies, getAvailableProxy(inFlight, p),
             state' = [state EXCEPT ![r] = "proxied"],
             proxyOf' = [proxyOf EXCEPT ![r] = p],
             inFlight' = push(inFlight, p)
      PROVE  ShieldInv'
  <2>1. proxyOf[r] = 0 /\ inFlight[p] \in Nat /\ inFlight[p] < backendFlight + backendQueue
    BY <1>1, <1>4, <1>7 DEF PlaceInv, TypeOK, getAvailableProxy, full
  <2>2. TypeOK'
    <3>1. p \in 0 .. NProxies
      BY DEF Proxies
    <3>2. inFlight' \in [Proxies -> Nat]
      BY <1>1, <1>7, <2>1 DEF TypeOK, push
    <3> QED BY <1>1, <1>3, <1>4, <1>7, <3>1, <3>2 DEF TypeOK, States
  <2>3. PlaceInv'
    BY <1>1, <1>7 DEF PlaceInv, TypeOK, Proxies
  <2>4. WorkConserving'
    <3>1. Requests = {}
      BY <1>1, <1>7 DEF WorkConserving, NoneAvailable, getAvailableProxy
    <3> QED BY <1>1, <1>7, <3>1 DEF WorkConserving, Requests, TypeOK
  <2>5. BackendBound'
    <3>1. \A q \in Proxies : Cardinality(InService(q)') =
             Cardinality(InService(q)) + (IF q = p THEN 1 ELSE 0)
      BY <1>1, <1>7, <2>1, ServiceEnters
    <3>2. \A q \in Proxies : Cardinality(InService(q)) \in Nat
      BY ServiceFinite
    <3> QED BY <1>1, <1>4, <1>7, <2>1, <3>1, <3>2 DEF BackendBound, push, TypeOK
  <2> QED BY <1>5, <2>2, <2>3, <2>4, <2>5 DEF ShieldInv
<1>8. CASE /\ NoneAvailable(inFlight)
           /\ state' = [state EXCEPT ![r] = "queued"]
           /\ UNCHANGED <<proxyOf, inFlight>>
  <2>1. TypeOK'
    BY <1>1, <1>3, <1>4, <1>8 DEF TypeOK, States
  <2>2. PlaceInv' /\ WorkConserving'
    BY <1>1, <1>4, <1>8 DEF PlaceInv, WorkConserving, Requests, TypeOK, NoneAvailable, full
  <2>3. BackendBound'
    BY <1>1, <1>4, <1>8 DEF BackendBound, InService
  <2> QED BY <1>5, <2>1, <2>2, <2>3 DEF ShieldInv
<1> QED BY <1>6, <1>7, <1>8 DEF takeRequest

\* The 'end' handler, with everything tryProxyNext does, keeps the invariant.
LEMMA EndInv == ASSUME ShieldInv, NEW e \in Req, onEnd(e) PROVE ShieldInv'
<1> USE ShieldAssumption
<1> DEFINE p0 == proxyOf[e]
           load == [inFlight EXCEPT ![p0] = @ - 1]
<1>1. TypeOK /\ PlaceInv /\ BackendBound /\ WorkConserving /\ NeverUnready /\ StatsInv
  BY DEF ShieldInv
<1>2. state[e] = "proxied" /\ p0 \in Proxies
  BY <1>1 DEF onEnd, PlaceInv, TypeOK, Proxies
<1>3. inFlight[p0] \in Nat /\ inFlight[p0] >= 1 /\ inFlight[p0] <= backendFlight + backendQueue
  <2>1. e \in InService(p0) /\ IsFiniteSet(InService(p0)) /\ Cardinality(InService(p0)) \in Nat
    BY ServiceFinite DEF InService
  <2>2. Cardinality(InService(p0)) # 0
    BY <2>1, FS_EmptySet
  <2> QED BY <1>1, <1>2, <2>1, <2>2 DEF BackendBound, TypeOK
<1>4. /\ load \in [Proxies -> Nat] /\ load[p0] = inFlight[p0] - 1
      /\ \A q \in Proxies : q # p0 => load[q] = inFlight[q]
      /\ ~NoneAvailable(load)
  BY <1>1, <1>2, <1>3 DEF TypeOK, NoneAvailable, full
<1>5. UNCHANGED <<now, ip, startTime, closed, stats, lost>> /\ tryProxyNext(e, load)
  BY DEF onEnd
<1>6. ASSUME NEW s \in Kept, NEW p \in Proxies, getAvailableProxy(load, p),
             state' = [r \in Req |-> IF r = s THEN "proxied" ELSE
                         IF r = e THEN "done" ELSE
                         IF r \in Requests \ Kept THEN "rejected" ELSE state[r]],
             proxyOf' = [proxyOf EXCEPT ![s] = p, ![e] = 0],
             inFlight' = push(load, p), UNCHANGED unready
      PROVE  ShieldInv'
  <2>1. s \in Req /\ s # e /\ state[s] = "queued" /\ proxyOf[s] = 0
    BY <1>1, <1>2 DEF Kept, Requests, PlaceInv
  <2>2. NoneAvailable(inFlight)
    BY <1>1, <2>1 DEF WorkConserving, Requests
  <2>3. p = p0
    BY <1>4, <1>6, <2>2 DEF NoneAvailable, getAvailableProxy, full
  <2>4. inFlight' = inFlight
    BY <1>1, <1>2, <1>3, <1>4, <1>6, <2>3 DEF push, TypeOK
  <2>5. TypeOK'
    BY <1>1, <1>2, <1>5, <1>6, <2>1, <2>3, <2>4 DEF TypeOK, States, Proxies
  <2>6. PlaceInv'
    BY <1>1, <1>2, <1>6, <2>1, <2>3 DEF PlaceInv, TypeOK, Proxies, Requests
  <2>7. BackendBound'
    BY <1>1, <1>2, <1>5, <1>6, <2>1, <2>3, <2>4, ServiceSwaps DEF BackendBound
  <2>8. WorkConserving' /\ NeverUnready'
    BY <1>1, <1>6, <2>2, <2>4 DEF WorkConserving, NeverUnready, NoneAvailable, full
  <2>9. StatsInv'
    BY <1>1, <1>2, <1>5, <1>6, <2>1 DEF StatsInv, TypeOK, Requests
  <2> QED BY <2>5, <2>6, <2>7, <2>8, <2>9 DEF ShieldInv
<1>7. ASSUME \/ Requests = {} /\ state' = [state EXCEPT ![e] = "done"]
             \/ Kept = {} /\ state' = [r \in Req |-> IF r = e THEN "done" ELSE
                      IF r \in Requests \ Kept THEN "rejected" ELSE state[r]],
             proxyOf' = [proxyOf EXCEPT ![e] = 0], inFlight' = load, unready' = unready
      PROVE  ShieldInv'
  <2>1. TypeOK'
    BY <1>1, <1>4, <1>5, <1>7 DEF TypeOK, States
  <2>2. Requests' = {}
    BY <1>1, <1>7 DEF Requests, TypeOK
  <2>3. PlaceInv'
    BY <1>1, <1>2, <1>7 DEF PlaceInv, TypeOK, Proxies, Requests
  <2>4. BackendBound'
    <3>1. \A q \in Proxies : Cardinality(InService(q)') =
             Cardinality(InService(q)) - (IF q = p0 THEN 1 ELSE 0)
      BY <1>1, <1>2, <1>7, ServiceLeaves
    <3>2. \A q \in Proxies : Cardinality(InService(q)) \in Nat
      BY ServiceFinite
    <3> QED BY <1>1, <1>2, <1>3, <1>4, <1>5, <1>7, <3>1, <3>2 DEF BackendBound, TypeOK
  <2>5. WorkConserving' /\ NeverUnready'
    BY <1>1, <1>7, <2>2 DEF WorkConserving, NeverUnready
  <2>6. StatsInv'
    BY <1>1, <1>2, <1>5, <1>7 DEF StatsInv, TypeOK, Requests
  <2> QED BY <2>1, <2>3, <2>4, <2>5, <2>6 DEF ShieldInv
<1>8. CASE /\ Requests = {} \/ NoneAvailable(load)
           /\ state' = [state EXCEPT ![e] = "done"]
           /\ inFlight' = load /\ proxyOf' = [proxyOf EXCEPT ![e] = 0]
           /\ unready' = (unready \/ Requests # {})
  <2>1. Requests = {}
    BY <1>4, <1>8
  <2>2. unready' = unready
    BY <1>1, <1>8, <2>1 DEF NeverUnready, TypeOK
  <2> QED BY <1>7, <1>8, <2>1, <2>2
<1> HIDE DEF load
<1> QED BY <1>5, <1>6, <1>7, <1>8 DEF tryProxyNext

\* A hang-up, a lost 'end' and the clock keep the invariant.
LEMMA OtherInv ==
    ASSUME ShieldInv,
           \/ \E r \in Req : onClose(r) \/ loseEnd(r)
           \/ Tick
           \/ UNCHANGED vars
    PROVE  ShieldInv'
<1> USE ShieldAssumption
<1>1. TypeOK /\ PlaceInv /\ BackendBound /\ WorkConserving /\ NeverUnready /\ StatsInv
  BY DEF ShieldInv
<1>2. ASSUME NEW r \in Req, onClose(r) PROVE ShieldInv'
  <2>1. TypeOK'
    BY <1>1, <1>2 DEF TypeOK, onClose
  <2>2. PlaceInv' /\ BackendBound' /\ WorkConserving' /\ NeverUnready' /\ StatsInv'
    BY <1>1, <1>2 DEF onClose, PlaceInv, BackendBound, InService, WorkConserving,
       Requests, NoneAvailable, full, NeverUnready, StatsInv
  <2> QED BY <2>1, <2>2 DEF ShieldInv
<1>3. ASSUME NEW r \in Req, loseEnd(r) PROVE ShieldInv'
  <2>1. proxyOf[r] \in Proxies
    BY <1>1, <1>3 DEF PlaceInv, loseEnd, TypeOK, Proxies
  <2>2. TypeOK'
    BY <1>1, <1>3, <2>1 DEF TypeOK, States, loseEnd
  <2>3. PlaceInv' /\ WorkConserving' /\ NeverUnready' /\ StatsInv'
    BY <1>1, <1>3 DEF loseEnd, TypeOK, PlaceInv, WorkConserving, Requests,
       NoneAvailable, full, NeverUnready, StatsInv
  <2>4. BackendBound'
    <3>1. \A q \in Proxies : Cardinality(InService(q)') =
             Cardinality(InService(q)) - (IF q = proxyOf[r] THEN 1 ELSE 0)
      BY <1>1, <1>3, <2>1, ServiceLeaves DEF loseEnd
    <3>2. \A q \in Proxies : Cardinality(InService(q)) \in Nat
      BY ServiceFinite
    <3> QED BY <1>1, <1>3, <2>1, <3>1, <3>2 DEF BackendBound, TypeOK, loseEnd
  <2> QED BY <2>2, <2>3, <2>4 DEF ShieldInv
<1>4. CASE Tick \/ UNCHANGED vars
  <2>1. TypeOK'
    BY <1>1, <1>4 DEF TypeOK, Tick, vars
  <2>2. PlaceInv' /\ BackendBound' /\ WorkConserving' /\ NeverUnready' /\ StatsInv'
    BY <1>1, <1>4 DEF Tick, vars, PlaceInv, BackendBound, InService, WorkConserving,
       Requests, NoneAvailable, full, NeverUnready, StatsInv
  <2> QED BY <2>1, <2>2 DEF ShieldInv
<1> QED BY <1>2, <1>3, <1>4

(***************************************************************************)
(* The shield's invariant holds after every sequence of arrivals, ends,    *)
(* lost ends and hang-ups.                                                 *)
(***************************************************************************)
THEOREM ShieldInvariant == Spec => []ShieldInv
<1>1. ShieldInv /\ [Next]_vars => ShieldInv'
  BY TakeInv, EndInv, OtherInv DEF Next
<1> QED BY <1>1, ShieldInit, PTL DEF Spec

(***************************************************************************)
(* No backend is given more than backendFlight + backendQueue requests,    *)
(* and inFlight counts exactly the ones it has or has lost.                *)
(***************************************************************************)
THEOREM ShieldBackendBound == Spec => []BackendBound
<1>1. ShieldInv => BackendBound BY DEF ShieldInv
<1> QED BY <1>1, ShieldInvariant, PTL

(***************************************************************************)
(* A request waits only while all backends are full.                       *)
(***************************************************************************)
THEOREM ShieldWorkConserving == Spec => []WorkConserving
<1>1. ShieldInv => WorkConserving BY DEF ShieldInv
<1> QED BY <1>1, ShieldInvariant, PTL

(***************************************************************************)
(* The error branch of tryProxyNext (line 182) is never taken.             *)
(***************************************************************************)
THEOREM ShieldNeverUnready == Spec => []NeverUnready
<1>1. ShieldInv => NeverUnready BY DEF ShieldInv
<1> QED BY <1>1, ShieldInvariant, PTL

\* What one more request of a client can be worth in score().
LEMMA WeightBound ==
    ASSUME NEW i \in Nat, NEW j \in Nat, NEW m \in Nat, NEW w \in Nat,
           1 <= i, i <= m, 1 <= j, j <= m
    PROVE  (m - i) * w - (m - j) * w <= (m - 1) * w
<1>1. (m - i) * w <= (m - 1) * w
  OBVIOUS
<1>2. (m - j) * w >= 0
  OBVIOUS
<1> QED BY <1>1, <1>2

(***************************************************************************)
(* A waiting request is only overtaken by requests that arrived within     *)
(* (maxRequests - 1) * countWeight after it, whatever the load.            *)
(***************************************************************************)
THEOREM ShieldBoundedOvertaking == Spec => BoundedOvertaking
<1> DEFINE A == \A r, s \in Requests :
                  state'[r] = "queued" /\ state'[s] = "proxied" =>
                    startTime[s] - startTime[r] <= (maxRequests - 1) * countWeight
<1>1. ShieldInv /\ [Next]_vars => [A]_vars
  <2> USE ShieldAssumption
  <2> SUFFICES ASSUME ShieldInv, Next, NEW r \in Requests, NEW s \in Requests,
                      state'[r] = "queued", state'[s] = "proxied"
               PROVE  startTime[s] - startTime[r] <= (maxRequests - 1) * countWeight
    BY DEF vars
  <2>1. TypeOK /\ StatsInv /\ r \in Req /\ s \in Req /\ r # s
        /\ state[r] = "queued" /\ state[s] = "queued"
    BY DEF ShieldInv, Requests
  <2>2. PICK e \in Req : onEnd(e)
    BY <2>1 DEF Next, takeRequest, onClose, loseEnd, Tick, TypeOK
  <2>3. Kept # {} /\ Best(s) /\ r \in Kept
    BY <2>1, <2>2 DEF onEnd, tryProxyNext, TypeOK, Best, Kept, Requests
  <2>4. score(r) <= score(s) /\ s \in Kept
    BY <2>3 DEF Best
  <2>5. /\ stats[ip[r]].count \in 1 .. maxRequests
        /\ stats[ip[s]].count \in 1 .. maxRequests
    BY <2>1, <2>3, <2>4 DEF Kept, shouldReject, StatsInv, TypeOK, StatsType
  <2>6. (maxRequests - stats[ip[s]].count) * countWeight
          - (maxRequests - stats[ip[r]].count) * countWeight
            <= (maxRequests - 1) * countWeight
    <3> DEFINE i == stats[ip[s]].count
               j == stats[ip[r]].count
    <3>1. /\ i \in Nat /\ 1 <= i /\ i <= maxRequests
          /\ j \in Nat /\ 1 <= j /\ j <= maxRequests
      BY <2>5
    <3> HIDE DEF i, j
    <3>2. (maxRequests - i) * countWeight - (maxRequests - j) * countWeight
            <= (maxRequests - 1) * countWeight
      BY <3>1, WeightBound, Zenon
    <3> QED BY <3>2 DEF i, j
  <2>7. /\ (maxRequests - stats[ip[s]].count) * countWeight \in Int
        /\ (maxRequests - stats[ip[r]].count) * countWeight \in Int
        /\ (maxRequests - 1) * countWeight \in Int
        /\ startTime[r] \in Int /\ startTime[s] \in Int /\ now \in Int
    BY <2>1, <2>5 DEF TypeOK
  <2> QED BY <2>4, <2>6, <2>7 DEF score
<1> QED BY <1>1, ShieldInvariant, PTL DEF Spec, BoundedOvertaking

-----------------------------------------------------------------------------
(***************************************************************************)
(* Who is rejected.  The statistics keep only the number of a client's     *)
(* requests and the time of the first; that a mean distance below maxRate  *)
(* betrays two requests that were really less than maxRate apart is an     *)
(* induction over the client's requests, carried by PoliteInv.             *)
(***************************************************************************)
Apart(a) ==
    \A s, t \in SentBy(a) :
        s # t /\ startTime[s] <= startTime[t] => startTime[t] - startTime[s] >= maxRate

\* A client's latest request came at the earliest when its distances allow.
Late(a) ==
    \E l \in SentBy(a) : stats[a].first + maxRate * (stats[a].count - 1) <= startTime[l]

ClientInv(a) ==
    /\ stats[a].count = Cardinality(SentBy(a))
    /\ Apart(a) /\ stats[a].count >= 1 => Late(a)
    /\ stats[a].blackhole => stats[a].count > maxRequests \/ ~Apart(a)

PoliteInv ==
    /\ \A a \in IP : ClientInv(a)
    /\ \A r \in Req : /\ state[r] # "new" => startTime[r] <= now
                      /\ state[r] = "rejected" /\ ~closed[r] => stats[ip[r]].blackhole

LEMMA SentFinite ==
    ASSUME NEW a
    PROVE  IsFiniteSet(SentBy(a)) /\ Cardinality(SentBy(a)) \in Nat
<1>1. SentBy(a) \subseteq Req
  BY DEF SentBy
<1> QED BY <1>1, FS_Subset, FS_CardinalityType, ShieldAssumption

\* Nothing is known anew of a client whose requests and statistics stay.
LEMMA SameClient ==
    ASSUME NEW a, ClientInv(a), ip' = ip, stats'[a] = stats[a],
           \A r \in SentBy(a) : startTime'[r] = startTime[r],
           \A r \in Req : ip[r] = a => (state'[r] = "new" <=> state[r] = "new")
    PROVE  ClientInv(a)'
<1>1. SentBy(a)' = SentBy(a)
  BY DEF SentBy
<1>2. Apart(a)' = Apart(a)
  BY <1>1 DEF Apart
<1>3. Late(a)' = Late(a)
  BY <1>1 DEF Late
<1> QED BY <1>1, <1>2, <1>3 DEF ClientInv

\* A client sends one more request.
LEMMA OneMore ==
    ASSUME ShieldInv, PoliteInv, NEW r \in Req, takeRequest(r) PROVE ClientInv(ip[r])'
<1> DEFINE a == ip[r]
           d == stats[a]
<1>0. TypeOK
  BY DEF ShieldInv
<1>1. /\ a \in IP /\ d \in StatsType /\ d.count \in Nat /\ d.first \in Nat /\ now \in Nat
      /\ maxRate \in Nat /\ maxRequests \in Nat
  BY <1>0, ShieldAssumption DEF TypeOK, StatsType
<1>2. /\ state[r] = "new" /\ ip' = ip /\ now' = now
      /\ startTime' = [startTime EXCEPT ![r] = now]
      /\ stats' = [stats EXCEPT ![a] = record(d)]
  BY DEF takeRequest
<1>3. \A q \in Req : q # r => state'[q] = state[q]
  BY <1>0 DEF takeRequest, TypeOK
<1>4. state'[r] # "new"
  BY <1>0 DEF takeRequest, TypeOK
<1>5. SentBy(a)' = SentBy(a) \cup {r} /\ r \notin SentBy(a)
  BY <1>2, <1>3, <1>4 DEF SentBy
<1>6. Cardinality(SentBy(a)') = Cardinality(SentBy(a)) + 1
  BY <1>5, SentFinite, FS_AddElement
<1>7. ClientInv(a)
  BY <1>1 DEF PoliteInv
<1>8. /\ startTime'[r] = now
      /\ \A q \in SentBy(a) : startTime'[q] = startTime[q] /\ startTime[q] <= now /\ startTime[q] \in Nat
  BY <1>0, <1>2, <1>5 DEF TypeOK, SentBy, PoliteInv
<1>9. stats'[a] = record(d)
  BY <1>0, <1>1, <1>2 DEF TypeOK
<1> HIDE DEF d
<1>10. /\ record(d).count = d.count + 1
       /\ record(d).first = IF d.count = 0 THEN now ELSE d.first
       /\ record(d).blackhole =>
            d.blackhole \/ d.count + 1 > maxRequests \/ (d.count >= 1 /\ now - d.first < maxRate * d.count)
  BY DEF record
<1>11. Apart(a)' => Apart(a)
  BY <1>5, <1>8 DEF Apart
<1>12. ASSUME Apart(a)', d.count >= 1 PROVE d.first + maxRate * d.count <= now
  <2>1. PICK l \in SentBy(a) : d.first + maxRate * (d.count - 1) <= startTime[l]
    BY <1>7, <1>11, <1>12 DEF ClientInv, Late, d
  <2>2. now - startTime[l] >= maxRate
    <3>1. l \in SentBy(a)' /\ r \in SentBy(a)' /\ l # r
      BY <1>5
    <3>2. startTime'[l] <= startTime'[r] => startTime'[r] - startTime'[l] >= maxRate
      BY <1>12, <3>1 DEF Apart
    <3> QED BY <1>8, <3>2
  <2>3. maxRate * d.count = maxRate * (d.count - 1) + maxRate
    BY <1>1
  <2>4. maxRate * (d.count - 1) \in Int /\ maxRate * d.count \in Int /\ startTime[l] \in Nat
    BY <1>1, <1>8
  <2> QED BY <1>1, <2>1, <2>2, <2>3, <2>4
<1>13. Apart(a)' => Late(a)'
  <2> SUFFICES ASSUME Apart(a)'
               PROVE  stats'[a].first + maxRate * (stats'[a].count - 1) <= startTime'[r]
    BY <1>2, <1>5 DEF Late
  <2>1. stats'[a].count - 1 = d.count
    BY <1>1, <1>9, <1>10
  <2>2. CASE d.count = 0
    <3>1. maxRate * d.count = 0 /\ stats'[a].first = now
      BY <1>1, <1>9, <1>10, <2>2
    <3> QED BY <1>1, <1>8, <2>1, <3>1
  <2>3. CASE d.count # 0
    BY <1>1, <1>8, <1>9, <1>10, <1>12, <2>1, <2>3
  <2> QED BY <2>2, <2>3
<1>14. stats'[a].blackhole => stats'[a].count > maxRequests \/ ~Apart(a)'
  <2> SUFFICES ASSUME stats'[a].blackhole, Apart(a)' PROVE d.count + 1 > maxRequests
    BY <1>9, <1>10
  <2>1. CASE d.blackhole
    BY <1>1, <1>7, <1>11, <2>1 DEF ClientInv, d
  <2>2. CASE d.count >= 1 /\ now - d.first < maxRate * d.count
    <3>1. maxRate * d.count \in Int
      BY <1>1
    <3> QED BY <1>1, <1>12, <2>2, <3>1
  <2> QED BY <1>9, <1>10, <2>1, <2>2
<1>15. stats'[a].count = Cardinality(SentBy(a)')
  BY <1>6, <1>7, <1>9, <1>10 DEF ClientInv, d
<1> QED BY <1>2, <1>13, <1>14, <1>15 DEF ClientInv

LEMMA PoliteStep == ASSUME ShieldInv, PoliteInv, [Next]_vars PROVE PoliteInv'
<1>0. TypeOK /\ PlaceInv
  BY DEF ShieldInv
<1>1. ASSUME NEW r \in Req, takeRequest(r) PROVE PoliteInv'
  <2>1. /\ state[r] = "new" /\ UNCHANGED <<now, ip, closed>>
        /\ startTime' = [startTime EXCEPT ![r] = now]
        /\ stats' = [stats EXCEPT ![ip[r]] = record(stats[ip[r]])]
        /\ \A q \in Req : q # r => state'[q] = state[q]
        /\ state'[r] = "rejected" => record(stats[ip[r]]).blackhole
    BY <1>0, <1>1 DEF takeRequest, TypeOK, shouldReject
  <2>2. ASSUME NEW a \in IP PROVE ClientInv(a)'
    <3>1. CASE a = ip[r]
      <4>1. ClientInv(ip[r])'
        BY <1>1, OneMore
      <4> QED BY <2>1, <3>1, <4>1
    <3>2. CASE a # ip[r]
      <4>1. ClientInv(a)
        BY DEF PoliteInv
      <4>2. stats'[a] = stats[a]
        BY <1>0, <2>1, <3>2 DEF TypeOK
      <4>3. /\ \A q \in SentBy(a) : startTime'[q] = startTime[q]
            /\ \A q \in Req : ip[q] = a => state'[q] = state[q]
        BY <1>0, <2>1, <3>2 DEF SentBy, TypeOK
      <4> QED BY <2>1, <4>1, <4>2, <4>3, SameClient
    <3> QED BY <3>1, <3>2
  <2>3. ASSUME NEW q \in Req
        PROVE  /\ state'[q] # "new" => startTime'[q] <= now'
               /\ state'[q] = "rejected" /\ ~closed'[q] => stats'[ip'[q]].blackhole
    <3>1. \A a \in IP : stats[a].blackhole => stats'[a].blackhole
      BY <1>0, <2>1 DEF TypeOK, record
    <3>2. CASE q = r
      BY <1>0, <2>1, <3>2 DEF TypeOK
    <3>3. CASE q # r
      BY <1>0, <2>1, <3>1, <3>3 DEF TypeOK, PoliteInv
    <3> QED BY <3>2, <3>3
  <2> QED BY <2>2, <2>3 DEF PoliteInv
<1>2. ASSUME ip' = ip, stats' = stats, startTime' = startTime, now' \in Nat, now <= now',
             \A q \in Req : state'[q] = "new" <=> state[q] = "new",
             \A q \in Req : closed[q] => closed'[q],
             \A q \in Req : state'[q] = "rejected" /\ state[q] # "rejected" =>
                              closed'[q] \/ stats[ip[q]].blackhole
      PROVE  PoliteInv'
  <2>1. ASSUME NEW a \in IP PROVE ClientInv(a)'
    <3>1. ClientInv(a)
      BY DEF PoliteInv
    <3> QED BY <1>2, <3>1, SameClient
  <2>2. ASSUME NEW q \in Req
        PROVE  /\ state'[q] # "new" => startTime'[q] <= now'
               /\ state'[q] = "rejected" /\ ~closed'[q] => stats'[ip'[q]].blackhole
    BY <1>0, <1>2 DEF PoliteInv, TypeOK
  <2> QED BY <2>1, <2>2 DEF PoliteInv
<1>3. ASSUME NEW e \in Req, onEnd(e) PROVE PoliteInv'
  <2>1. UNCHANGED <<now, ip, startTime, closed, stats>> /\ state[e] = "proxied"
    BY <1>3 DEF onEnd
  <2>2. \A q \in Req :
          /\ state'[q] = "new" <=> state[q] = "new"
          /\ state'[q] = "rejected" /\ state[q] # "rejected" => q \in Requests \ Kept
    BY <1>0, <1>3, <2>1 DEF onEnd, tryProxyNext, TypeOK, Kept, Requests
  <2>3. \A q \in Requests \ Kept : closed[q] \/ stats[ip[q]].blackhole
    BY DEF Kept, shouldReject
  <2>4. now' \in Nat /\ now <= now'
    BY <1>0, <2>1 DEF TypeOK
  <2> QED BY <1>2, <2>1, <2>2, <2>3, <2>4
<1>4. ASSUME NEW r \in Req, onClose(r) \/ loseEnd(r) PROVE PoliteInv'
  <2>1. UNCHANGED <<now, ip, startTime, stats>> /\ now' \in Nat /\ now <= now'
    BY <1>0, <1>4 DEF onClose, loseEnd, TypeOK
  <2>2. \A q \in Req :
          /\ state'[q] = "new" <=> state[q] = "new"
          /\ state'[q] = "rejected" => state[q] = "rejected"
          /\ closed[q] => closed'[q]
    BY <1>0, <1>4 DEF onClose, loseEnd, TypeOK
  <2> QED BY <1>2, <2>1, <2>2
<1>5. CASE Tick \/ UNCHANGED vars
  <2>1. UNCHANGED <<state, ip, startTime, closed, stats>> /\ now' \in Nat /\ now <= now'
    BY <1>0, <1>5 DEF Tick, vars, TypeOK
  <2> QED BY <1>2, <2>1
<1> QED BY <1>1, <1>3, <1>4, <1>5 DEF Next

(***************************************************************************)
(* For any number of clients and requests and any values of PARAMS: who is *)
(* turned away without having hung up did send more than maxRequests       *)
(* requests, or two of them less than maxRate apart.  (ClientStats.record, *)
(* shouldReject, tryProxyNext)                                             *)
(***************************************************************************)
THEOREM ShieldPoliteNeverRejected == Spec => []PoliteNeverRejected
<1>1. Init => PoliteInv
  <2> SUFFICES ASSUME Init PROVE PoliteInv
    OBVIOUS
  <2>1. ASSUME NEW a \in IP PROVE ClientInv(a)
    <3>1. SentBy(a) = {} /\ stats[a] = NoStats
      BY DEF Init, SentBy
    <3> QED BY <3>1, FS_EmptySet DEF ClientInv, NoStats
  <2> QED BY <2>1 DEF PoliteInv, Init
<1>2. ShieldInv /\ PoliteInv => PoliteNeverRejected
  <2> SUFFICES ASSUME ShieldInv, PoliteInv, NEW r \in Req, state[r] = "rejected", ~closed[r]
               PROVE  \/ Cardinality(SentBy(ip[r])) > maxRequests
                      \/ \E s, t \in SentBy(ip[r]) :
                            s # t /\ startTime[s] <= startTime[t] /\ startTime[t] - startTime[s] < maxRate
    BY DEF PoliteNeverRejected
  <2>1. ip[r] \in IP /\ stats[ip[r]].blackhole
    BY DEF ShieldInv, TypeOK, PoliteInv
  <2>2. Cardinality(SentBy(ip[r])) > maxRequests \/ ~Apart(ip[r])
    BY <2>1 DEF PoliteInv, ClientInv
  <2>3. \A s \in SentBy(ip[r]) : startTime[s] \in Nat
    BY DEF ShieldInv, TypeOK, SentBy
  <2> QED BY <2>2, <2>3, ShieldAssumption DEF Apart
<1> QED BY <1>1, <1>2, PoliteStep, ShieldInvariant, PTL DEF Spec

\* Type correctness of the requests, the counters and the statistics.
THEOREM ShieldTypes == Spec => []TypeOK
<1>1. ShieldInv => TypeOK BY DEF ShieldInv
<1> QED BY <1>1, ShieldInvariant, PTL
=============================================================================
