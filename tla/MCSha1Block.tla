----------------------------- MODULE MCSha1Block -----------------------------
(***************************************************************************)
(* Blocks of the two example messages of FIPS 180, "abc" and the 448-bit   *)
(* message "abcdbcde...nopq", and the latter's first block under other     *)
(* nonces.                                                                 *)
(***************************************************************************)
EXTENDS Sha1Block

Zero == {}
Words(pairs) == [j \in 1 .. Len(pairs) |-> Hex(pairs[j][1], pairs[j][2])]
Zeros(k) == [j \in 1 .. k |-> Zero]

InitialHash == Words(<< <<26437, 8961>>, <<61389, 43913>>, <<39098, 56574>>,
                        <<4146, 21622>>, <<50130, 57840>> >>)
MiddleHash == Words(<< <<62504, 26648>>, <<50043, 10158>>, <<1032, 62849>>,
                       <<33895, 29000>>, <<19030, 25970>> >>)

\* Words of the first block of the long message; in place of words 11 and 12
\* the filler 0x01010101 of level1.c.
LongBlock == Words(
    << <<24930, 25444>>, <<25187, 25701>>, <<25444, 25958>>, <<25701, 26215>>,
       <<25958, 26472>>, <<26215, 26729>>, <<26472, 26986>>, <<26729, 27243>>,
       <<26986, 27500>>, <<27243, 27757>>, <<27500, 28014>>, <<257, 257>>,
       <<257, 257>>, <<28271, 28785>>, <<32768, 0>>, <<0, 0>> >>)

Call(in, h, idx, id) == [in |-> in, h |-> h, idx |-> idx, id |-> id]

Abc == Call(<<Hex(24930, 25472)>> \o Zeros(14) \o <<Hex(0, 24)>>, InitialHash, Zero, Zero)
Long1 == Call(LongBlock, InitialHash, Hex(27757, 28271), Hex(28014, 28528))
Long2 == Call(Zeros(15) \o <<Hex(0, 448)>>, MiddleHash, Zero, Zero)

Nonces == {Zero, Hex(255, 65535), Hex(65535, 65535)}

Calls == {Abc, Long1, Long2} \cup
         {Call(LongBlock, MiddleHash, idx, id) : idx \in Nonces, id \in Nonces}

\* The reference gives the examples of FIPS 180: a9993e36 4706816a for "abc",
\* f4286818 c37b27ae after the first block of the long message and
\* 84983e44 1c3bd26e after the second.
ASSUME KnownAnswers ==
    /\ SubSeq(Sha1(Abc), 1, 2) = Words(<< <<43417, 15926>>, <<18182, 33130>> >>)
    /\ SubSeq(Sha1(Long1), 1, 2) = Words(<< <<62504, 26648>>, <<50043, 10158>> >>)
    /\ SubSeq(Sha1(Long2), 1, 2) = Words(<< <<33944, 15940>>, <<7227, 53870>> >>)
=============================================================================
