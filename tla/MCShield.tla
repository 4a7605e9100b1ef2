------------------------------ MODULE MCShield ------------------------------
(* The shield on small instances.  Requests and clients are model values;  *)
(* a request is only known by what the shield records of it, so they are   *)
(* named in the order in which they come: a behaviour that names them      *)
(* otherwise differs from one of these by a permutation only.              *)
EXTENDS Shield, Sequences, TLC

CONSTANTS Arrival,     \* the requests in the order of their arrival
          Clients      \* the clients in the order of their first request

ClientsInOrder ==
    \A i \in 1 .. Len(Arrival), k \in 2 .. Len(Clients) :
        ip[Arrival[i]] = Clients[k] => \E j \in 1 .. i - 1 : ip[Arrival[j]] = Clients[k - 1]

ArriveInOrder ==
    \A i, j \in 1 .. Len(Arrival) :
        i < j /\ state[Arrival[j]] # "new" => state[Arrival[i]] # "new"

OrderedInit == Init /\ ClientsInOrder
OrderedNext == Next /\ ArriveInOrder'
OrderedSpec == OrderedInit /\ [][OrderedNext]_vars /\ Fairness

CONSTANTS r1, r2, r3, r4, a, b, c
FourRequests == <<r1, r2, r3, r4>>
ThreeClients == <<a, b, c>>
TwoClients == <<a, b>>
=============================================================================
