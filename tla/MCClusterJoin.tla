--------------------------- MODULE MCClusterJoin ---------------------------
(* A cluster on Unix sockets and a TCP port, and one node whose path holds *)
(* a character that cannot be carried.                                     *)
EXTENDS ClusterJoin, TLC

CONSTANTS n1, n2, n3, n4, n5

Addresses ==
    n1 :> <<"/", "a">> @@ n2 :> <<".", "/", "b">> @@ n3 :> <<"h", ":", "1">>
    @@ n4 :> <<"/", "b", "/", "a">> @@ n5 :> <<"/", "a", "-", "b">>

\* Every valid address up to four characters is dialled as it was given.
Chars == {"a", "/", ".", ":"}
ASSUME \A len \in 1 .. 4 : \A addr \in [1 .. len -> Chars] :
    Encodable(addr, {"a"}) /\ (Unix(addr) \/ Contains(addr, ":")) => Dialled(addr) = addr
=============================================================================
