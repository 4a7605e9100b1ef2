------------------------------ MODULE Sha1Block ------------------------------
(***************************************************************************)
(* computeSHA1Block of sha1.cu: the last block of SHA-1, as every thread   *)
(* of the kernel runs it.  The code is unrolled by hand into 80 rounds on  *)
(* a window of 16 words that is overwritten in place; a step here is one   *)
(* of those rounds, and the action of a range of rounds has the range's f  *)
(* and k.  A uint32_t is the set of the places of its ones.                *)
(***************************************************************************)
EXTENDS Integers, Sequences

CONSTANT Inputs     \* of the calls: records [in, h, idx, id]

Bit == 0 .. 31
Word == SUBSET Bit

ASSUME BlockAssumption ==
    Inputs \subseteq [in : [1 .. 16 -> Word], h : [1 .. 5 -> Word], idx : Word, id : Word]

VARIABLES input,    \* the arguments
          n,        \* rounds done; -1 before the block is loaded, 81 at the end
          w,        \* the window w[0] .. w[15], here w[1] .. w[16]
          regs,     \* a, b, c, d, e
          res       \* the two words returned

vars == <<input, n, w, regs, res>>

-----------------------------------------------------------------------------
(***************************************************************************)
(* Arithmetic on words.                                                    *)
(***************************************************************************)
\* The number high * 2^16 + low.
Hex(high, low) ==
    {b \in Bit : ((IF b < 16 THEN low ELSE high) \div 2 ^ (b % 16)) % 2 = 1}

\* x + y of two uint32_t: a carry comes into place b from the last place below
\* where x and y do not differ, if both have a one there.
Carry(x, y, b) ==
    \E k \in 0 .. b - 1 : k \in x \cap y /\ \A j \in k + 1 .. b - 1 : j \in x \cup y
Add(x, y) == {b \in Bit : ((b \in x) # (b \in y)) # Carry(x, y, b)}

BitAnd(x, y) == x \cap y
BitOr(x, y) == x \cup y
BitXor(x, y) == (x \ y) \cup (y \ x)
Complement(x) == Bit \ x

\* x << s | x >> (32 - s)
Rotl(x, s) == {(b + s) % 32 : b \in x}

f1(b, c, d) == BitOr(BitAnd(b, c), BitAnd(Complement(b), d))
Parity(b, c, d) == BitXor(BitXor(b, c), d)

Majority(b, c, d) == BitOr(BitOr(BitAnd(b, c), BitAnd(b, d)), BitAnd(c, d))

-----------------------------------------------------------------------------
Init ==
    /\ input \in Inputs /\ n = -1
    /\ w = [j \in 1 .. 16 |-> {}]
    /\ regs = [j \in 1 .. 5 |-> {}]
    /\ res = <<>>

\* The registers start as h, and the nonce words replace words 11 and 12.
Load ==
    /\ n = -1 /\ n' = 0
    /\ w' = [input.in EXCEPT ![12] = input.idx, ![13] = input.id]
    /\ regs' = input.h
    /\ UNCHANGED <<input, res>>

\* The index in w of word j of the code, modulo 16.
At(j) == (j % 16) + 1

\* Mutant of Round: the last sum is kept in a wider word.
RoundWide(f, k) ==
    LET a == regs[1]  b == regs[2]  c == regs[3]  d == regs[4]  e == regs[5]
        temp == Add(Add(Add(Rotl(a, 5), f), e), k)
        over == IF Carry(temp, w[At(n)], 32) THEN {32} ELSE {}
    IN  regs' = <<Add(temp, w[At(n)]) \cup over, a, Rotl(b, 30), c, d>>

\* temp = rotl(a, 5) + f + e + k + w[n % 16]; e = d; d = c; ...; a = temp
Round(f, k) ==
    LET a == regs[1]  b == regs[2]  c == regs[3]  d == regs[4]  e == regs[5]
        temp == Add(Add(Add(Add(Rotl(a, 5), f), e), k), w[At(n)])
    IN  regs' = <<temp, a, Rotl(b, 30), c, d>>

\* Mutant of Schedule: w[n] is overwritten from w[n - 2], not w[n - 3].
ScheduleOff ==
    w' = [w EXCEPT ![At(n)] =
            Rotl(BitXor(BitXor(BitXor(w[At(n + 14)], w[At(n + 8)]), w[At(n + 2)]), @), 1)]

\* The word that round n has used makes place for the word of round n + 16.
Schedule ==
    w' = [w EXCEPT ![At(n)] =
            Rotl(BitXor(BitXor(BitXor(w[At(n + 13)], w[At(n + 8)]), w[At(n + 2)]), @), 1)]

Rounds(first, last) == n \in first .. last /\ n' = n + 1 /\ UNCHANGED <<input, res>>

\* 0x5A827999
Rounds0To19 ==
    /\ Rounds(0, 19) /\ Schedule
    /\ Round(f1(regs[2], regs[3], regs[4]), Hex(23170, 31129))

\* 0x6ED9EBA1
Rounds20To39 ==
    /\ Rounds(20, 39) /\ Schedule
    /\ Round(Parity(regs[2], regs[3], regs[4]), Hex(28377, 60321))

\* 0x8F1BBCDC
Rounds40To59 ==
    /\ Rounds(40, 59) /\ Schedule
    /\ Round(Majority(regs[2], regs[3], regs[4]), Hex(36635, 48348))

\* 0xCA62C1D6
Rounds60To63 ==
    /\ Rounds(60, 63) /\ Schedule
    /\ Round(Parity(regs[2], regs[3], regs[4]), Hex(51810, 49622))

\* The last sixteen rounds use up the window.
Rounds64To79 ==
    /\ Rounds(64, 79) /\ UNCHANGED w
    /\ Round(Parity(regs[2], regs[3], regs[4]), Hex(51810, 49622))

\* return (h0 + a) << 32 | (h1 + b)
Return ==
    /\ n = 80 /\ n' = 81
    /\ res' = <<Add(input.h[1], regs[1]), Add(input.h[2], regs[2])>>
    /\ UNCHANGED <<input, w, regs>>

Done == n = 81 /\ UNCHANGED vars

Next ==
    \/ Load \/ Rounds0To19 \/ Rounds20To39 \/ Rounds40To59 \/ Rounds60To63
    \/ Rounds64To79 \/ Return \/ Done

Spec == Init /\ [][Next]_vars

-----------------------------------------------------------------------------
(***************************************************************************)
(* Reference: the hash computation of FIPS 180, with its message schedule  *)
(* of 80 words and its own forms of the functions.                         *)
(***************************************************************************)
Block(call) == [call.in EXCEPT ![12] = call.idx, ![13] = call.id]

\* The word at place t of the message schedule, from the words before it; the
\* first t words of the schedule, for each t.
NextWord(s, t) == Rotl(BitXor(BitXor(BitXor(s[t - 3], s[t - 8]), s[t - 14]), s[t - 16]), 1)
MessageSchedule(call) ==
    LET first[t \in 16 .. 80] ==
          IF t = 16 THEN Block(call)
          ELSE LET s == first[t - 1] IN Append(s, NextWord(s, t))
    IN  first

Ch(x, y, z) == BitXor(BitAnd(x, y), BitAnd(Complement(x), z))
Maj(x, y, z) == BitXor(BitXor(BitAnd(x, y), BitAnd(x, z)), BitAnd(y, z))
F(t, x, y, z) == CASE t < 20 -> Ch(x, y, z)
                   [] t \in 40 .. 59 -> Maj(x, y, z)
                   [] OTHER -> BitXor(BitXor(x, y), z)
K(t) == CASE t < 20 -> Hex(23170, 31129)
          [] t \in 20 .. 39 -> Hex(28377, 60321)
          [] t \in 40 .. 59 -> Hex(36635, 48348)
          [] OTHER -> Hex(51810, 49622)

\* The working variables after a round t that finds them as v and uses the word
\* x of the schedule; and before each of the first t rounds and after them.
RoundOf(t, v, x) ==
    << Add(Add(Add(Add(Rotl(v[1], 5), F(t, v[2], v[3], v[4])), v[5]), K(t)), x),
       v[1], Rotl(v[2], 30), v[3], v[4] >>
Working(h, s) ==
    LET first[t \in 0 .. 80] ==
          IF t = 0 THEN <<h>>
          ELSE LET v == first[t - 1] IN Append(v, RoundOf(t - 1, v[t], s[t]))
    IN  first

Sha1(call) ==
    LET v == Working(call.h, MessageSchedule(call)[80])[80]
    IN  [j \in 1 .. 5 |-> Add(call.h[j], v[81][j])]

-----------------------------------------------------------------------------
\* Types of the window, the registers and the result: words of 32 bits.
TypeOK ==
    /\ input \in Inputs /\ n \in -1 .. 81
    /\ w \in [1 .. 16 -> Word] /\ regs \in [1 .. 5 -> Word]
    /\ res \in {<<>>} \cup [1 .. 2 -> Word]

(***************************************************************************)
(* The two words returned are the first two of the SHA-1 hash value of the *)
(* block with the nonce words idx and id in place: no round of the window  *)
(* that is overwritten in place reads a word that was overwritten too      *)
(* early or too late.                                                      *)
(***************************************************************************)
ReturnsSha1 == n = 81 => res = SubSeq(Sha1(input), 1, 2)
=============================================================================
