------------------------------ MODULE MCSearch ------------------------------
(* The code search with a file on each shard, whose hashes are negative,   *)
(* one the smallest there is, and a third file that is not text.           *)
EXTENDS Search, TLC

CONSTANTS f1, f2, f3, i1, i2, p1, q1

Plain(h) == [hash |-> h, hidden |-> FALSE, regular |-> TRUE, small |-> TRUE, utf8 |-> TRUE]

Attrs == f1 :> Plain(MinInt) @@ f2 :> Plain(-7) @@ f3 :> [Plain(0) EXCEPT !.utf8 = FALSE]

Lines == f1 :> <<{"a"}>> @@ f2 :> <<{}, {"a"}>> @@ f3 :> <<{"a"}>>

\* With the three shards of the code, every hash has its shard.
ASSUME \A h \in {MinInt, MinInt + 1, 2147483647} \cup -4 .. 4 : MathAbs(Rem(h, 3)) \in 0 .. 2

Ops == i1 :> [kind |-> "index"] @@ i2 :> [kind |-> "index"]
       @@ p1 :> [kind |-> "isIndexed"]
       @@ q1 :> [kind |-> "query", needle |-> "a"]

\* One client indexes, polls and queries; another indexes as well.
Clients == {<<i1, p1>>, <<p1, q1>>}
=============================================================================
