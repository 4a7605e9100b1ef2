------------------------------ MODULE MCSpell ------------------------------
(* The spell filter on every short text over a small alphabet.             *)
EXTENDS Spell, TLC

CONSTANT MaxInput     \* bound: length of the input

Letters == {"a", "A", "b", " "}
Texts == UNION {[1 .. n -> Letters] : n \in 0 .. MaxInput}
LowerCase == ("a" :> "a") @@ ("A" :> "a") @@ ("b" :> "b")
Lines == <<<<"a", "b">>, <<"A", "b", "a">>, <<"a">>>>

\* A stand-in for hash.c: two bits, from the letters and from the length.
Code(c) == IF c = "a" THEN 1 ELSE IF c = "b" THEN 2 ELSE 4
TwoBits(w) == {FoldLeft(LAMBDA h, c : (2 * h + Code(c)) % 7, 3, w), 7 + (Len(w) % 2)}
=============================================================================
