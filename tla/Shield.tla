------------------------------- MODULE Shield -------------------------------
(***************************************************************************)
(* The reverse proxy of level2/shield: a queue in front of a few backends  *)
(* that may each have backendFlight requests in service and backendQueue   *)
(* more waiting, and statistics that blackhole greedy clients.             *)
(*                                                                         *)
(* Node runs one callback at a time, so every callback is one action: a    *)
(* request arrives, a backend ends a response, a client hangs up.  What is *)
(* hard is their order: a client may be blackholed, or hang up, while its  *)
(* earlier requests wait, and every decision uses counters maintained by   *)
(* callbacks.  The proxy library is not part of the repository; it is      *)
(* modelled from its use: proxyRequest() starts a request and the event    *)
(* 'end' reports its end, which a broken connection may suppress.          *)
(***************************************************************************)
EXTENDS Integers, FiniteSets

CONSTANTS Req,              \* the requests that may arrive
          IP,               \* the values of x-forwarded-for
          NProxies,         \* number of backends
          backendFlight, backendQueue, maxRequests, maxRate,    \* PARAMS
          reqTime, reqTimeout,                                  \* PARAMS
          countWeight,      \* the factor 100 in score()
          MaxTime,          \* bound: the clock, in units of the run's choice
          MaxLost           \* bound: requests whose 'end' never comes

ASSUME ShieldAssumption ==
    /\ IsFiniteSet(Req)
    /\ NProxies \in Nat \ {0}
    /\ backendFlight \in Nat \ {0} /\ backendQueue \in Nat
    /\ maxRequests \in Nat \ {0} /\ maxRate \in Nat
    /\ reqTime \in Nat /\ reqTimeout \in Nat /\ countWeight \in Nat
    /\ MaxTime \in Nat /\ MaxLost \in Nat

Proxies == 1 .. NProxies

VARIABLES
    now,          \* Date.now()
    state,        \* where each request is
    ip,           \* RequestData.ip
    startTime,    \* RequestData.startTime
    closed,       \* RequestData.closed
    proxyOf,      \* the backend that has a request, 0 if none
    inFlight,     \* QueueProxy.inFlight
    stats,        \* ClientStats.data
    lost,         \* per backend, requests that ended without an 'end'
    unready       \* was "Expected a proxy to be ready" ever reported?

vars == <<now, state, ip, startTime, closed, proxyOf, inFlight, stats, lost, unready>>

States == {"new", "queued", "proxied", "done", "rejected"}

\* Queue.requests.  Its order is only visible in ties of score, so the model
\* keeps the set.
Requests == {r \in Req : state[r] = "queued"}

(***************************************************************************)
(* ClientStats.  The mean distance of a client's requests telescopes to    *)
(* (last - first) / (count - 1), so the list `starts' is kept as its       *)
(* length and its first element.                                           *)
(***************************************************************************)
NoStats == [count |-> 0, first |-> 0, blackhole |-> FALSE]

\* Mutant of record: >= for >, one request too few.
RecordEarly(d) ==
    [count |-> d.count + 1,
     first |-> IF d.count = 0 THEN now ELSE d.first,
     blackhole |-> \/ d.blackhole
                   \/ d.count + 1 >= maxRequests
                   \/ d.count >= 1 /\ now - d.first < maxRate * d.count]

record(d) ==
    [count |-> d.count + 1,
     first |-> IF d.count = 0 THEN now ELSE d.first,
     blackhole |-> \/ d.blackhole
                   \/ d.count + 1 > maxRequests
                   \/ d.count >= 1 /\ now - d.first < maxRate * d.count]

\* timedOut reads reqData.start, a field that does not exist: the comparison
\* with NaN is false and only the blackhole counts.
shouldReject(d) == d.blackhole

\* Mutant of score: clients that have been queueing are not preferred.
ScoreCountOnly(r) == (maxRequests - stats[ip[r]].count) * countWeight

score(r) ==
    now - startTime[r] + (maxRequests - stats[ip[r]].count) * countWeight

-----------------------------------------------------------------------------
\* Mutant of full: > for >=.
FullLate(load, p) == load[p] > backendFlight + backendQueue

full(load, p) == load[p] >= backendFlight + backendQueue
waiting(load, p) == load[p] < backendFlight

\* _.min: the first of the proxies with the least load.  It is full only if
\* all are, and waiting if any is.
Least(load, p) ==
    \A q \in Proxies : load[p] < load[q] \/ (load[p] = load[q] /\ p <= q)

getAvailableProxy(load, p) == Least(load, p) /\ ~full(load, p)

NoneAvailable(load) == \A p \in Proxies : full(load, p)
NoneWaiting(load) == \A p \in Proxies : ~waiting(load, p)

push(load, p) == [load EXCEPT ![p] = @ + 1]

Init ==
    /\ now = 0
    /\ state = [r \in Req |-> "new"]
    /\ ip \in [Req -> IP]
    /\ startTime = [r \in Req |-> 0]
    /\ closed = [r \in Req |-> FALSE]
    /\ proxyOf = [r \in Req |-> 0]
    /\ inFlight = [p \in Proxies |-> 0]
    /\ stats = [a \in IP |-> NoStats]
    /\ lost = [p \in Proxies |-> 0]
    /\ unready = FALSE

\* takeRequest: statistics first, then reject, forward or queue.
takeRequest(r) ==
    LET d == record(stats[ip[r]])
    IN  /\ state[r] = "new"
        /\ startTime' = [startTime EXCEPT ![r] = now]
        /\ stats' = [stats EXCEPT ![ip[r]] = d]
        /\ \/ /\ shouldReject(d) /\ NoneWaiting(inFlight)
              /\ state' = [state EXCEPT ![r] = "rejected"]
              /\ UNCHANGED <<proxyOf, inFlight>>
           \/ \E p \in Proxies :
                /\ getAvailableProxy(inFlight, p)
                /\ waiting(inFlight, p) \/ ~shouldReject(d)
                /\ state' = [state EXCEPT ![r] = "proxied"]
                /\ proxyOf' = [proxyOf EXCEPT ![r] = p]
                /\ inFlight' = push(inFlight, p)
           \/ /\ NoneAvailable(inFlight) /\ ~shouldReject(d)
              /\ state' = [state EXCEPT ![r] = "queued"]
              /\ UNCHANGED <<proxyOf, inFlight>>
        /\ UNCHANGED <<now, ip, closed, lost, unready>>

\* The requests that survive the pruning in tryProxyNext.
Kept == {r \in Requests : ~closed[r] /\ ~shouldReject(stats[ip[r]])}

Best(r) == r \in Kept /\ \A s \in Kept : score(s) <= score(r)

\* The body of tryProxyNext, after request e ended and left the given load.
\* All queued requests that are not kept are rejected.
tryProxyNext(e, load) ==
    LET Settle(r) == IF r = e THEN "done"
                     ELSE IF r \in Requests \ Kept THEN "rejected" ELSE state[r]
    IN  \/ /\ Requests = {} \/ NoneAvailable(load)
           /\ state' = [state EXCEPT ![e] = "done"]
           /\ inFlight' = load /\ proxyOf' = [proxyOf EXCEPT ![e] = 0]
           /\ unready' = (unready \/ Requests # {})
        \/ /\ Requests # {} /\ ~NoneAvailable(load) /\ Kept = {}
           /\ state' = [r \in Req |-> Settle(r)]
           /\ inFlight' = load /\ proxyOf' = [proxyOf EXCEPT ![e] = 0]
           /\ UNCHANGED unready
        \/ \E s \in Kept, p \in Proxies :
             /\ Best(s) /\ getAvailableProxy(load, p)
             /\ state' = [r \in Req |-> IF r = s THEN "proxied" ELSE Settle(r)]
             /\ proxyOf' = [proxyOf EXCEPT ![s] = p, ![e] = 0]
             /\ inFlight' = push(load, p)
             /\ UNCHANGED unready

\* Mutant of onEnd: the slot is given back twice.
EndTwice(r) ==
    /\ state[r] = "proxied"
    /\ tryProxyNext(r, [inFlight EXCEPT ![proxyOf[r]] = @ - 2])
    /\ UNCHANGED <<now, ip, startTime, closed, stats, lost>>

\* Mutant of onEnd: onReady is not called.
EndWithoutNext(r) ==
    /\ state[r] = "proxied"
    /\ state' = [state EXCEPT ![r] = "done"]
    /\ inFlight' = [inFlight EXCEPT ![proxyOf[r]] = @ - 1]
    /\ proxyOf' = [proxyOf EXCEPT ![r] = 0]
    /\ UNCHANGED <<now, ip, startTime, closed, stats, lost, unready>>

\* proxy.on('end'): this.inFlight -= 1; onReady()
onEnd(r) ==
    /\ state[r] = "proxied"
    /\ tryProxyNext(r, [inFlight EXCEPT ![proxyOf[r]] = @ - 1])
    /\ UNCHANGED <<now, ip, startTime, closed, stats, lost>>

\* response.on('close').  The flag is only read of requests in the queue.
onClose(r) ==
    /\ state[r] = "queued" /\ ~closed[r]
    /\ closed' = [closed EXCEPT ![r] = TRUE]
    /\ UNCHANGED <<now, state, ip, startTime, proxyOf, inFlight, stats, lost, unready>>

\* The library drops a request and never emits 'end' for it.
loseEnd(r) ==
    /\ state[r] = "proxied"
    /\ \A p \in Proxies : lost[p] < MaxLost
    /\ state' = [state EXCEPT ![r] = "done"]
    /\ lost' = [lost EXCEPT ![proxyOf[r]] = @ + 1]
    /\ proxyOf' = [proxyOf EXCEPT ![r] = 0]
    /\ UNCHANGED <<now, ip, startTime, closed, inFlight, stats, unready>>

Tick ==
    /\ now < MaxTime /\ now' = now + 1
    /\ UNCHANGED <<state, ip, startTime, closed, proxyOf, inFlight, stats, lost, unready>>

Next ==
    \/ \E r \in Req : takeRequest(r) \/ onEnd(r) \/ onClose(r) \/ loseEnd(r)
    \/ Tick

Spec == Init /\ [][Next]_vars

\* The backends answer what they are given, apart from what is lost.
Fairness == WF_vars(\E r \in Req : onEnd(r))

FairSpec == Spec /\ Fairness

-----------------------------------------------------------------------------
StatsType == [count : Nat, first : Nat, blackhole : BOOLEAN]

\* Types of the requests, the counters and the statistics.
TypeOK ==
    /\ now \in Nat
    /\ state \in [Req -> States]
    /\ ip \in [Req -> IP]
    /\ startTime \in [Req -> Nat]
    /\ closed \in [Req -> BOOLEAN]
    /\ proxyOf \in [Req -> 0 .. NProxies]
    /\ inFlight \in [Proxies -> Nat]
    /\ stats \in [IP -> StatsType]
    /\ lost \in [Proxies -> Nat]
    /\ unready \in BOOLEAN

InService(p) == {r \in Req : proxyOf[r] = p}

(***************************************************************************)
(* inFlight counts what the backend really has, so no backend is ever      *)
(* given more than its service and queue slots, not even when 'end' events *)
(* get lost (a lost one costs a slot for good).                            *)
(***************************************************************************)
BackendBound ==
    \A p \in Proxies :
        /\ inFlight[p] = Cardinality(InService(p)) + lost[p]
        /\ inFlight[p] <= backendFlight + backendQueue

(***************************************************************************)
(* A request waits in the shield only while every backend is full: each    *)
(* 'end' that frees a slot refills it or empties the queue.                *)
(***************************************************************************)
WorkConserving == Requests # {} => NoneAvailable(inFlight)

(***************************************************************************)
(* "Expected a proxy to be ready but it wasn't!" (line 182) is never       *)
(* reported.                                                               *)
(***************************************************************************)
NeverUnready == ~unready

(***************************************************************************)
(* A later request overtakes a waiting one only within the window that the *)
(* request count is worth: (maxRequests - 1) * 100 ms in score().          *)
(***************************************************************************)
BoundedOvertaking ==
    [][\A r, s \in Requests :
         state'[r] = "queued" /\ state'[s] = "proxied" =>
           startTime[s] - startTime[r] <= (maxRequests - 1) * countWeight]_vars

SentBy(a) == {r \in Req : ip[r] = a /\ state[r] # "new"}

(***************************************************************************)
(* A polite client is never turned away: whoever gets a 400 without having *)
(* hung up sent more than maxRequests requests, or two of them less than   *)
(* maxRate apart.                                                          *)
(***************************************************************************)
PoliteNeverRejected ==
    \A r \in Req : state[r] = "rejected" /\ ~closed[r] =>
        \/ Cardinality(SentBy(ip[r])) > maxRequests
        \/ \E s, t \in SentBy(ip[r]) :
              s # t /\ startTime[s] <= startTime[t] /\ startTime[t] - startTime[s] < maxRate

(***************************************************************************)
(* What shouldReject's timedOut is for (lines 111-116): a request that can *)
(* no longer be answered within reqTimeout is turned away, not forwarded.  *)
(***************************************************************************)
ExpiredNotForwarded ==
    [][\A r \in Requests : state'[r] = "proxied" =>
         now + reqTime - startTime[r] <= reqTimeout]_vars

(***************************************************************************)
(* While the backends answer, no request waits for ever, unless lost 'end' *)
(* events have cost every backend all its slots: one slot left is enough   *)
(* to drain the queue.                                                     *)
(***************************************************************************)
QueueDrains ==
    []<>(Requests = {} \/ \A p \in Proxies : lost[p] >= backendFlight + backendQueue)
=============================================================================
