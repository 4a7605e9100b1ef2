---------------------------- MODULE MCSqlCluster ----------------------------
(* The replicated table with a handful of requests.                        *)
EXTENDS SqlCluster, TLC

CONSTANTS q1, q2

Update(r, ds, w, l) ==
    [kind |-> "update", row |-> r, digits |-> ds, word |-> w, len |-> l]
Insert == [kind |-> "insert", row |-> "gdb", digits |-> <<0>>, word |-> "", len |-> 0]

\* An update, of 8 (octal) and with a word longer than its length byte can say,
\* and an INSERT.
Mixed == q1 :> Update("gdb", <<0, 1, 0>>, "ab", 300) @@ q2 :> Insert

\* The statements no handler accepts: the row must be known, the digits be
\* digits of their base and the increment fit a uint8.
ASSUME Refusals ==
    /\ \A ds \in {<<0>>, <<0, 1, 0>>, <<2, 5, 5>>, <<0, 3, 7, 7>>} :
         Accepted(Update("gdb", ds, "ab", 2))
    /\ \A ds \in {<<2, 5, 6>>, <<0, 4, 0, 0>>, <<0, 8>>} : ~Accepted(Update("gdb", ds, "ab", 2))
    /\ ~Accepted(Update("bob", <<1>>, "ab", 2))
    /\ ~Accepted([kind |-> "other"])

\* A word of 256 letters.
LongWords == q1 :> Update("gdb", <<1>>, "ab", 256) @@ q2 :> Update("gdb", <<1>>, "cd", 2)

Symmetry == Permutations(Node)
=============================================================================
