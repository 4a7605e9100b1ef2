--------------------------- MODULE Sha1BlockProofs ---------------------------
(***************************************************************************)
(* Proofs about the SHA-1 block function of the kernel, for every block,   *)
(* every chaining value and every nonce: TLC runs a dozen of the calls.    *)
(***************************************************************************)
EXTENDS Sha1Block, SequenceTheorems, WellFoundedInduction, TLAPS

Regs == [1 .. 5 -> Word]

\* Every nonempty set of natural numbers has a least element, and induction up
\* to a bound, over a set.
LEMMA Least ==
    ASSUME NEW T \in SUBSET Nat, T # {}
    PROVE  \E x \in T : \A y \in T : x <= y
<1> DEFINE R == OpToRel(<, Nat)
<1>1. \E x \in T : \A y \in T : ~(<<y, x>> \in R)
  <2>1. IsWellFoundedOn(R, Nat)
    BY NatLessThanWellFounded, Zenon
  <2> HIDE DEF R
  <2> QED BY <2>1, WFMin
<1>2. PICK x \in T : \A y \in T : ~(<<y, x>> \in R)
  BY <1>1, Zenon
<1>3. \A y \in T : ~(y < x)
  BY <1>2 DEF OpToRel
<1> QED BY <1>3

LEMMA CountUp ==
    ASSUME NEW m \in Nat, NEW S, 0 \in S, \A i \in 0 .. m - 1 : i \in S => i + 1 \in S
    PROVE  0 .. m \subseteq S
<1> SUFFICES ASSUME (0 .. m) \ S # {} PROVE FALSE
  OBVIOUS
<1> DEFINE T == (0 .. m) \ S
<1>0. T \in SUBSET Nat /\ T # {}
  OBVIOUS
<1>1. PICK x \in T : \A y \in T : x <= y
  <2> HIDE DEF T
  <2> QED BY <1>0, Least
<1>2. x # 0 /\ x - 1 \in 0 .. m - 1 /\ x - 1 \in S
  BY <1>1
<1> QED BY <1>1, <1>2

-----------------------------------------------------------------------------
(***************************************************************************)
(* Words.                                                                  *)
(***************************************************************************)
LEMMA AddType == ASSUME NEW x, NEW y PROVE Add(x, y) \in Word
BY DEF Add, Word

LEMMA RotlType == ASSUME NEW x \in Word, NEW s \in Nat PROVE Rotl(x, s) \in Word
<1>1. \A b \in x : b \in Nat
  BY DEF Word, Bit
<1>2. \A b \in x : (b + s) % 32 \in Bit
  BY <1>1 DEF Bit
<1> QED BY <1>2 DEF Rotl, Word

LEMMA XorType == ASSUME NEW x \in Word, NEW y \in Word PROVE BitXor(x, y) \in Word
BY DEF BitXor, Word

\* The kernel's form of Ch and of Maj.
LEMMA ChIsF1 == ASSUME NEW x, NEW y, NEW z PROVE f1(x, y, z) = Ch(x, y, z)
BY DEF f1, Ch, BitOr, BitAnd, BitXor, Complement

LEMMA MajIsMajority == ASSUME NEW x, NEW y, NEW z PROVE Majority(x, y, z) = Maj(x, y, z)
BY DEF Majority, Maj, BitOr, BitAnd, BitXor

LEMMA NextWordType ==
    ASSUME NEW s \in Seq(Word), NEW t \in 17 .. Len(s) + 1
    PROVE  NextWord(s, t) \in Word
<1>1. s[t - 3] \in Word /\ s[t - 8] \in Word /\ s[t - 14] \in Word /\ s[t - 16] \in Word
  BY LenProperties
<1> QED BY <1>1, XorType, RotlType DEF NextWord

\* A round keeps to words.
LEMMA RoundType ==
    ASSUME NEW v \in Regs, NEW t, NEW x
    PROVE  RoundOf(t, v, x) \in Regs
<1>1. v[1] \in Word /\ v[2] \in Word /\ v[3] \in Word /\ v[4] \in Word
  BY DEF Regs
<1>2. Rotl(v[2], 30) \in Word
  BY <1>1, RotlType
<1>3. Add(Add(Add(Add(Rotl(v[1], 5), F(t, v[2], v[3], v[4])), v[5]), K(t)), x) \in Word
  BY AddType
<1> QED BY <1>1, <1>2, <1>3 DEF RoundOf, Regs

-----------------------------------------------------------------------------
(***************************************************************************)
(* The message schedule.                                                   *)
(***************************************************************************)
Schedules(f, call, m) ==
    /\ f \in [16 .. m -> Seq(Word)] /\ f[16] = Block(call)
    /\ \A t \in 16 .. m : Len(f[t]) = t
    /\ \A t \in 17 .. m : f[t] = Append(f[t - 1], NextWord(f[t - 1], t))

LEMMA BlockType ==
    ASSUME NEW call \in Inputs
    PROVE  Block(call) \in [1 .. 16 -> Word] /\ Block(call) \in Seq(Word) /\ Len(Block(call)) = 16
<1>1. Block(call) \in [1 .. 16 -> Word]
  BY BlockAssumption DEF Block
<1>2. Block(call) \in Seq(Word)
  BY <1>1, SeqDef
<1>3. DOMAIN Block(call) = 1 .. 16
  BY <1>1
<1>4. Len(Block(call)) = 16
  <2>1. Len(Block(call)) \in Nat /\ 1 .. Len(Block(call)) = 1 .. 16
    BY <1>2, <1>3, LenProperties
  <2> DEFINE L == Len(Block(call))
  <2>2. L \in Nat /\ 1 .. L = 1 .. 16
    BY <2>1
  <2> HIDE DEF L
  <2>3. 16 \in 1 .. L
    BY <2>2
  <2>4. L \in 1 .. L
    BY <2>2, <2>3
  <2>5. L \in 1 .. 16
    BY <2>2, <2>4
  <2>6. L = 16
    BY <2>2, <2>3, <2>5
  <2> QED BY <2>6 DEF L
<1> QED BY <1>1, <1>2, <1>4

LEMMA SchedulesExists ==
    ASSUME NEW call \in Inputs PROVE \E f : Schedules(f, call, 80)
<1> DEFINE S == {k \in 0 .. 64 : \E f : Schedules(f, call, 16 + k)}
<1>1. 0 \in S
  <2> DEFINE g == [t \in 16 .. 16 |-> Block(call)]
  <2>1. Schedules(g, call, 16)
    BY BlockType DEF Schedules
  <2> HIDE DEF g
  <2>2. 16 + 0 = 16
    OBVIOUS
  <2> QED BY <2>1, <2>2
<1>2. ASSUME NEW k \in 0 .. 63, k \in S PROVE k + 1 \in S
  <2> DEFINE m == 16 + k
  <2>1. PICK f : Schedules(f, call, m)
    BY <1>2
  <2>2. m \in 16 .. 79 /\ m \in Nat
    OBVIOUS
  <2> HIDE DEF m
  <2> DEFINE e == Append(f[m], NextWord(f[m], m + 1))
             g == [t \in 16 .. m + 1 |-> IF t = m + 1 THEN e ELSE f[t]]
  <2>3. f[m] \in Seq(Word) /\ Len(f[m]) = m
    BY <2>1, <2>2 DEF Schedules
  <2>4. NextWord(f[m], m + 1) \in Word
    BY <2>2, <2>3, NextWordType
  <2>5. e \in Seq(Word) /\ Len(e) = m + 1
    BY <2>2, <2>3, <2>4, AppendProperties
  <2>6. /\ g \in [16 .. m + 1 -> Seq(Word)] /\ g[16] = Block(call)
        /\ \A t \in 16 .. m + 1 : Len(g[t]) = t
    <3> HIDE DEF e
    <3> QED BY <2>1, <2>2, <2>5 DEF Schedules
  <2>7. ASSUME NEW t \in 17 .. m + 1 PROVE g[t] = Append(g[t - 1], NextWord(g[t - 1], t))
    <3>1. CASE t = m + 1
      <4>1. g[t] = e /\ g[t - 1] = f[m]
        BY <2>2, <3>1
      <4> HIDE DEF g
      <4> QED BY <3>1, <4>1
    <3>2. CASE t # m + 1
      <4>1. g[t] = f[t] /\ g[t - 1] = f[t - 1] /\ t \in 17 .. m
        BY <2>2, <3>2
      <4> HIDE DEF g
      <4> QED BY <2>1, <4>1 DEF Schedules
    <3> QED BY <3>1, <3>2
  <2>8. Schedules(g, call, m + 1)
    <3> HIDE DEF g
    <3> QED BY <2>6, <2>7 DEF Schedules
  <2>9. m + 1 = 16 + (k + 1) /\ k + 1 \in 0 .. 64
    BY DEF m
  <2> HIDE DEF g
  <2> QED BY <2>8, <2>9
<1>3. 0 .. 64 \subseteq S
  <2> HIDE DEF S
  <2> QED BY <1>1, <1>2, CountUp
<1>4. 64 \in S /\ 16 + 64 = 80
  <2> HIDE DEF S
  <2> QED BY <1>3
<1> QED BY <1>4

\* MessageSchedule is such a function.
LEMMA ScheduleIs ==
    ASSUME NEW call \in Inputs PROVE Schedules(MessageSchedule(call), call, 80)
<1> DEFINE B(f, t) == IF t = 16 THEN Block(call) ELSE Append(f[t - 1], NextWord(f[t - 1], t))
           D(f) == f = [t \in 16 .. 80 |-> B(f, t)]
           c == CHOOSE f : D(f)
<1>1. PICK f : Schedules(f, call, 80)
  BY SchedulesExists
<1>2. D(f)
  <2>1. ASSUME NEW t \in 16 .. 80 PROVE f[t] = B(f, t)
    <3>1. CASE t = 16
      BY <1>1, <3>1 DEF Schedules
    <3>2. CASE t # 16
      <4>1. \A u \in 17 .. 80 : f[u] = Append(f[u - 1], NextWord(f[u - 1], u))
        BY <1>1, Zenon DEF Schedules
      <4>2. t \in 17 .. 80
        BY <3>2
      <4>3. f[t] = Append(f[t - 1], NextWord(f[t - 1], t))
        BY <4>1, <4>2, Zenon
      <4> QED BY <3>2, <4>3
    <3> QED BY <3>1, <3>2
  <2>2. f \in [16 .. 80 -> Seq(Word)]
    BY <1>1, Zenon DEF Schedules
  <2> HIDE DEF B
  <2> QED BY <2>1, <2>2
<1>3. D(c)
  <2> HIDE DEF D
  <2> QED BY <1>2
<1>4. MessageSchedule(call) = c
  BY DEF MessageSchedule
<1> HIDE DEF c
<1> HIDE DEF B
<1>5. \A t \in 16 .. 80 : c[t] = B(c, t)
  BY <1>3
<1>0. c = [t \in 16 .. 80 |-> c[t]]
  BY <1>3
<1>6. ASSUME NEW t \in 17 .. 80 PROVE c[t] = Append(c[t - 1], NextWord(c[t - 1], t))
  <2>1. c[t] = B(c, t) /\ t # 16
    BY <1>5
  <2> QED BY <2>1 DEF B
<1>7. c[16] = Block(call)
  <2>1. c[16] = B(c, 16)
    BY <1>5
  <2> QED BY <2>1 DEF B
<1> DEFINE S == {k \in 0 .. 64 : c[16 + k] \in Seq(Word) /\ Len(c[16 + k]) = 16 + k}
<1>8. 0 .. 64 \subseteq S
  <2>1. 0 \in S
    BY <1>7, BlockType
  <2>2. ASSUME NEW k \in 0 .. 63, k \in S PROVE k + 1 \in S
    <3> DEFINE m == 16 + k
    <3>1. m \in 16 .. 79 /\ c[m] \in Seq(Word) /\ Len(c[m]) = m /\ (m + 1) - 1 = m
          /\ m + 1 \in 17 .. 80 /\ m + 1 = 16 + (k + 1) /\ k + 1 \in 0 .. 64
      BY <2>2
    <3> HIDE DEF m
    <3>2. c[m + 1] = Append(c[m], NextWord(c[m], m + 1))
      BY <1>6, <3>1, Zenon
    <3>3. NextWord(c[m], m + 1) \in Word
      BY <3>1, NextWordType
    <3>4. c[m + 1] \in Seq(Word) /\ Len(c[m + 1]) = m + 1
      BY <3>1, <3>2, <3>3, AppendProperties
    <3> QED BY <3>1, <3>4
  <2> HIDE DEF S
  <2> QED BY <2>1, <2>2, CountUp
<1>9. \A t \in 16 .. 80 : c[t] \in Seq(Word) /\ Len(c[t]) = t
  <2> SUFFICES ASSUME NEW t \in 16 .. 80 PROVE c[t] \in Seq(Word) /\ Len(c[t]) = t
    OBVIOUS
  <2>1. t - 16 \in S /\ 16 + (t - 16) = t
    <3> HIDE DEF S
    <3> QED BY <1>8
  <2> QED BY <2>1
<1>10. c \in [16 .. 80 -> Seq(Word)]
  BY <1>0, <1>9
<1> QED BY <1>4, <1>6, <1>7, <1>9, <1>10, Zenon DEF Schedules

\* The first sixteen words of the schedule are the block, each other one is the
\* next word after those before it.
IsSchedule(s, call) ==
    /\ \A j \in 1 .. 16 : s[j] = Block(call)[j]
    /\ \A t \in 17 .. 80 : s[t] = NextWord(s, t)

LEMMA ScheduleFacts ==
    ASSUME NEW call \in Inputs PROVE IsSchedule(MessageSchedule(call)[80], call)
<1> DEFINE f == MessageSchedule(call)
           s == f[80]
<1>1. /\ f \in [16 .. 80 -> Seq(Word)] /\ f[16] = Block(call)
      /\ \A t \in 16 .. 80 : Len(f[t]) = t
      /\ \A t \in 17 .. 80 : f[t] = Append(f[t - 1], NextWord(f[t - 1], t))
  BY ScheduleIs, Zenon DEF Schedules
<1>2. s = f[80]
  OBVIOUS
<1> HIDE DEF f, s
<1>3. \A t \in 17 .. 80 : NextWord(f[t - 1], t) \in Word
  <2> SUFFICES ASSUME NEW t \in 17 .. 80 PROVE NextWord(f[t - 1], t) \in Word
    OBVIOUS
  <2>1. t - 1 \in 16 .. 80
    OBVIOUS
  <2>2. f[t - 1] \in Seq(Word) /\ Len(f[t - 1]) = t - 1
    BY <1>1, <2>1, Zenon
  <2> QED BY <2>2, NextWordType
<1> DEFINE S == {k \in 0 .. 64 : \A i \in 1 .. 80 - k : f[80 - k][i] = s[i]}
<1>4. 0 .. 64 \subseteq S
  <2>1. 0 \in S
    BY <1>2
  <2>2. ASSUME NEW k \in 0 .. 63, k \in S PROVE k + 1 \in S
    <3> DEFINE t == 80 - k
    <3>1. t \in 17 .. 80 /\ t - 1 = 80 - (k + 1) /\ t - 1 \in 16 .. 80 /\ k + 1 \in 0 .. 64
      OBVIOUS
    <3>2. \A i \in 1 .. t : f[t][i] = s[i]
      BY <2>2
    <3> HIDE DEF t
    <3>3. f[t] = Append(f[t - 1], NextWord(f[t - 1], t)) /\ f[t - 1] \in Seq(Word) /\ Len(f[t - 1]) = t - 1
      <4>1. f[t] = Append(f[t - 1], NextWord(f[t - 1], t))
        BY <1>1, <3>1, Zenon
      <4>2. f[t - 1] \in Seq(Word)
        BY <1>1, <3>1, Zenon
      <4>3. Len(f[t - 1]) = t - 1
        BY <1>1, <3>1, Zenon
      <4> QED BY <4>1, <4>2, <4>3, Zenon
    <3>4. \A i \in 1 .. t - 1 : f[t][i] = f[t - 1][i]
      <4>1. NextWord(f[t - 1], t) \in Word
        BY <1>3, <3>1
      <4> QED BY <3>1, <3>3, <4>1, AppendProperties
    <3>5. \A i \in 1 .. t - 1 : f[t - 1][i] = s[i]
      BY <3>1, <3>2, <3>4
    <3> QED BY <3>1, <3>5
  <2> HIDE DEF S
  <2> QED BY <2>1, <2>2, CountUp
<1>5. ASSUME NEW t \in 16 .. 80 PROVE \A i \in 1 .. t : f[t][i] = s[i]
  <2>1. 80 - t \in S /\ 80 - (80 - t) = t
    <3> HIDE DEF S
    <3> QED BY <1>4
  <2> QED BY <2>1
<1>6. \A j \in 1 .. 16 : s[j] = Block(call)[j]
  <2>1. 16 \in 16 .. 80
    OBVIOUS
  <2>2. \A i \in 1 .. 16 : f[16][i] = s[i]
    BY <1>5, <2>1, Zenon
  <2> QED BY <1>1, <2>2, Zenon
<1>7. ASSUME NEW t \in 17 .. 80 PROVE s[t] = NextWord(s, t)
  <2>1. /\ f[t] = Append(f[t - 1], NextWord(f[t - 1], t)) /\ f[t - 1] \in Seq(Word)
        /\ Len(f[t - 1]) = t - 1 /\ NextWord(f[t - 1], t) \in Word
    <3>1. t - 1 \in 16 .. 80
      OBVIOUS
    <3> QED BY <1>1, <1>3, <3>1, Zenon
  <2>2. f[t][t] = NextWord(f[t - 1], t)
    <3>1. Append(f[t - 1], NextWord(f[t - 1], t))[Len(f[t - 1]) + 1] = NextWord(f[t - 1], t)
      BY <2>1, AppendProperties
    <3>2. Len(f[t - 1]) + 1 = t
      BY <2>1
    <3> QED BY <2>1, <3>1, <3>2
  <2>3. f[t][t] = s[t]
    <3>1. t \in 16 .. 80 /\ t \in 1 .. t
      OBVIOUS
    <3>2. \A i \in 1 .. t : f[t][i] = s[i]
      BY <1>5, <3>1, Zenon
    <3> QED BY <3>1, <3>2
  <2>4. NextWord(f[t - 1], t) = NextWord(s, t)
    <3>1. t - 1 \in 16 .. 80 /\ t - 3 \in 1 .. t - 1 /\ t - 8 \in 1 .. t - 1
          /\ t - 14 \in 1 .. t - 1 /\ t - 16 \in 1 .. t - 1
      OBVIOUS
    <3>2. \A i \in 1 .. t - 1 : f[t - 1][i] = s[i]
      BY <1>5, <3>1, Zenon
    <3> QED BY <3>1, <3>2 DEF NextWord
  <2> QED BY <2>2, <2>3, <2>4
<1> QED BY <1>6, <1>7 DEF IsSchedule, f, s

-----------------------------------------------------------------------------
(***************************************************************************)
(* The working variables.                                                  *)
(***************************************************************************)
Works(f, h, s, m) ==
    /\ f \in [0 .. m -> Seq(Regs)] /\ f[0] = <<h>>
    /\ \A t \in 0 .. m : Len(f[t]) = t + 1
    /\ \A t \in 1 .. m : f[t] = Append(f[t - 1], RoundOf(t - 1, f[t - 1][t], s[t]))

LEMMA WorksExists ==
    ASSUME NEW h \in Regs, NEW s PROVE \E f : Works(f, h, s, 80)
<1> DEFINE S == {k \in 0 .. 80 : \E f : Works(f, h, s, k)}
<1>1. 0 \in S
  <2> DEFINE g == [t \in 0 .. 0 |-> <<h>>]
  <2>1. <<h>> \in Seq(Regs) /\ Len(<<h>>) = 1
    OBVIOUS
  <2>2. Works(g, h, s, 0)
    BY <2>1 DEF Works
  <2> HIDE DEF g
  <2> QED BY <2>2
<1>2. ASSUME NEW m \in 0 .. 79, m \in S PROVE m + 1 \in S
  <2>1. PICK f : Works(f, h, s, m)
    BY <1>2
  <2> DEFINE e == Append(f[m], RoundOf(m, f[m][m + 1], s[m + 1]))
             g == [t \in 0 .. m + 1 |-> IF t = m + 1 THEN e ELSE f[t]]
  <2>3. f[m] \in Seq(Regs) /\ Len(f[m]) = m + 1
    BY <2>1 DEF Works
  <2>4. RoundOf(m, f[m][m + 1], s[m + 1]) \in Regs
    <3>1. f[m][m + 1] \in Regs
      BY <2>3, ElementOfSeq
    <3> QED BY <3>1, RoundType
  <2>5. e \in Seq(Regs) /\ Len(e) = (m + 1) + 1
    BY <2>3, <2>4, AppendProperties
  <2>6. /\ g \in [0 .. m + 1 -> Seq(Regs)] /\ g[0] = <<h>>
        /\ \A t \in 0 .. m + 1 : Len(g[t]) = t + 1
    <3> HIDE DEF e
    <3>1. ASSUME NEW t \in 0 .. m + 1 PROVE g[t] \in Seq(Regs) /\ Len(g[t]) = t + 1
      <4>1. CASE t = m + 1
        BY <2>5, <4>1
      <4>2. CASE t # m + 1
        <5>1. t \in 0 .. m /\ g[t] = f[t]
          BY <4>2
        <5> QED BY <2>1, <5>1 DEF Works
      <4> QED BY <4>1, <4>2
    <3>2. g[0] = f[0] /\ f[0] = <<h>>
      BY <2>1 DEF Works
    <3>3. g = [t \in 0 .. m + 1 |-> g[t]]
      OBVIOUS
    <3> HIDE DEF g
    <3> QED BY <3>1, <3>2, <3>3
  <2>7. ASSUME NEW t \in 1 .. m + 1
        PROVE  g[t] = Append(g[t - 1], RoundOf(t - 1, g[t - 1][t], s[t]))
    <3>1. CASE t = m + 1
      <4>1. g[t] = e /\ g[t - 1] = f[m] /\ t - 1 = m
        BY <3>1
      <4> HIDE DEF g
      <4> QED BY <3>1, <4>1
    <3>2. CASE t # m + 1
      <4>1. g[t] = f[t] /\ g[t - 1] = f[t - 1] /\ t \in 1 .. m
        BY <3>2
      <4> HIDE DEF g
      <4> QED BY <2>1, <4>1 DEF Works
    <3> QED BY <3>1, <3>2
  <2>8. Works(g, h, s, m + 1)
    <3> HIDE DEF g
    <3> QED BY <2>6, <2>7 DEF Works
  <2> HIDE DEF g
  <2> QED BY <2>8
<1>3. 0 .. 80 \subseteq S
  <2> HIDE DEF S
  <2> QED BY <1>1, <1>2, CountUp
<1>4. 80 \in S
  <2> HIDE DEF S
  <2> QED BY <1>3
<1> QED BY <1>4

\* Working is such a function.
LEMMA WorkingIs ==
    ASSUME NEW h \in Regs, NEW s PROVE Works(Working(h, s), h, s, 80)
<1> DEFINE B(f, t) == IF t = 0 THEN <<h>> ELSE Append(f[t - 1], RoundOf(t - 1, f[t - 1][t], s[t]))
           D(f) == f = [t \in 0 .. 80 |-> B(f, t)]
           c == CHOOSE f : D(f)
<1>1. PICK f : Works(f, h, s, 80)
  BY WorksExists
<1>2. D(f)
  <2>1. ASSUME NEW t \in 0 .. 80 PROVE f[t] = B(f, t)
    <3>1. CASE t = 0
      BY <1>1, <3>1, Zenon DEF Works
    <3>2. CASE t # 0
      <4>1. \A u \in 1 .. 80 : f[u] = Append(f[u - 1], RoundOf(u - 1, f[u - 1][u], s[u]))
        BY <1>1, Zenon DEF Works
      <4>2. t \in 1 .. 80
        BY <3>2
      <4>3. f[t] = Append(f[t - 1], RoundOf(t - 1, f[t - 1][t], s[t]))
        BY <4>1, <4>2, Zenon
      <4> QED BY <3>2, <4>3
    <3> QED BY <3>1, <3>2
  <2>2. f \in [0 .. 80 -> Seq(Regs)]
    BY <1>1, Zenon DEF Works
  <2> HIDE DEF B
  <2> QED BY <2>1, <2>2
<1>3. D(c)
  <2> HIDE DEF D
  <2> QED BY <1>2
<1>4. Working(h, s) = c
  BY DEF Working
<1> HIDE DEF c
<1> HIDE DEF B
<1>5. \A t \in 0 .. 80 : c[t] = B(c, t)
  BY <1>3
<1>0. c = [t \in 0 .. 80 |-> c[t]]
  BY <1>3
<1>6. ASSUME NEW t \in 1 .. 80 PROVE c[t] = Append(c[t - 1], RoundOf(t - 1, c[t - 1][t], s[t]))
  <2>1. c[t] = B(c, t) /\ t # 0
    BY <1>5
  <2> QED BY <2>1 DEF B
<1>7. c[0] = <<h>>
  <2>1. c[0] = B(c, 0)
    BY <1>5
  <2> QED BY <2>1 DEF B
<1> DEFINE S == {m \in 0 .. 80 : c[m] \in Seq(Regs) /\ Len(c[m]) = m + 1}
<1>8. 0 .. 80 \subseteq S
  <2>1. 0 \in S
    <3>1. <<h>> \in Seq(Regs) /\ Len(<<h>>) = 0 + 1
      OBVIOUS
    <3>2. c[0] \in Seq(Regs) /\ Len(c[0]) = 0 + 1
      BY <1>7, <3>1
    <3> QED BY <3>2
  <2>2. ASSUME NEW m \in 0 .. 79, m \in S PROVE m + 1 \in S
    <3>1. c[m] \in Seq(Regs) /\ Len(c[m]) = m + 1 /\ (m + 1) - 1 = m /\ m + 1 \in 1 .. 80
      BY <2>2
    <3>2. c[m + 1] = Append(c[m], RoundOf(m, c[m][m + 1], s[m + 1]))
      BY <1>6, <3>1, Zenon
    <3>3. c[m][m + 1] \in Regs
      BY <3>1, ElementOfSeq
    <3>4. RoundOf(m, c[m][m + 1], s[m + 1]) \in Regs
      BY <3>3, RoundType
    <3>5. c[m + 1] \in Seq(Regs) /\ Len(c[m + 1]) = (m + 1) + 1
      BY <3>1, <3>2, <3>4, AppendProperties
    <3> QED BY <3>1, <3>5
  <2> HIDE DEF S
  <2> QED BY <2>1, <2>2, CountUp
<1>9. \A t \in 0 .. 80 : c[t] \in Seq(Regs) /\ Len(c[t]) = t + 1
  BY <1>8
<1>10. c \in [0 .. 80 -> Seq(Regs)]
  BY <1>0, <1>9
<1> QED BY <1>4, <1>6, <1>7, <1>9, <1>10, Zenon DEF Works

\* The working variables start as h, and each round makes the next ones.
IsWorking(v, h, s) ==
    /\ v[1] = h
    /\ \A t \in 0 .. 79 : v[t + 2] = RoundOf(t, v[t + 1], s[t + 1])

LEMMA WorkingFacts ==
    ASSUME NEW h \in Regs, NEW s PROVE IsWorking(Working(h, s)[80], h, s)
<1> DEFINE f == Working(h, s)
           v == f[80]
<1>1. /\ f \in [0 .. 80 -> Seq(Regs)] /\ f[0] = <<h>>
      /\ \A t \in 0 .. 80 : Len(f[t]) = t + 1
      /\ \A t \in 1 .. 80 : f[t] = Append(f[t - 1], RoundOf(t - 1, f[t - 1][t], s[t]))
  BY WorkingIs, Zenon DEF Works
<1>2. v = f[80]
  OBVIOUS
<1> HIDE DEF f, v
<1> DEFINE r(t) == RoundOf(t - 1, f[t - 1][t], s[t])
<1>3. ASSUME NEW t \in 1 .. 80
      PROVE  /\ f[t] = Append(f[t - 1], r(t)) /\ r(t) \in Regs
             /\ f[t - 1] \in Seq(Regs) /\ Len(f[t - 1]) = t
  <2>1. t - 1 \in 0 .. 80 /\ (t - 1) + 1 = t
    OBVIOUS
  <2>2. f[t - 1] \in Seq(Regs) /\ Len(f[t - 1]) = t
    BY <1>1, <2>1, Zenon
  <2>3. f[t - 1][t] \in Regs
    <3>1. t \in 1 .. Len(f[t - 1])
      BY <2>2
    <3> QED BY <2>2, <3>1, ElementOfSeq
  <2>4. r(t) \in Regs
    BY <2>3, RoundType
  <2> QED BY <1>1, <2>2, <2>4, Zenon
<1> HIDE DEF r
<1> DEFINE S == {k \in 0 .. 80 : \A i \in 1 .. 81 - k : f[80 - k][i] = v[i]}
<1>4. 0 .. 80 \subseteq S
  <2>1. 0 \in S
    BY <1>2
  <2>2. ASSUME NEW k \in 0 .. 79, k \in S PROVE k + 1 \in S
    <3> DEFINE t == 80 - k
    <3>1. t \in 1 .. 80 /\ t - 1 = 80 - (k + 1) /\ t = 81 - (k + 1) /\ k + 1 \in 0 .. 80
      OBVIOUS
    <3>2. \A i \in 1 .. t + 1 : f[t][i] = v[i]
      BY <2>2
    <3> HIDE DEF t
    <3>3. f[t] = Append(f[t - 1], r(t)) /\ f[t - 1] \in Seq(Regs) /\ Len(f[t - 1]) = t /\ r(t) \in Regs
      BY <1>3, <3>1, Zenon
    <3>4. \A i \in 1 .. t : f[t][i] = f[t - 1][i]
      BY <3>1, <3>3, AppendProperties
    <3>5. \A i \in 1 .. t : f[t - 1][i] = v[i]
      BY <3>1, <3>2, <3>4
    <3> QED BY <3>1, <3>5
  <2> HIDE DEF S
  <2> QED BY <2>1, <2>2, CountUp
<1>5. ASSUME NEW t \in 0 .. 80 PROVE \A i \in 1 .. t + 1 : f[t][i] = v[i]
  <2>1. 80 - t \in S /\ 80 - (80 - t) = t /\ 81 - (80 - t) = t + 1
    <3> HIDE DEF S
    <3> QED BY <1>4
  <2> QED BY <2>1
<1>6. v[1] = h
  <2>1. 0 \in 0 .. 80 /\ 1 \in 1 .. 0 + 1
    OBVIOUS
  <2>2. f[0][1] = v[1]
    BY <1>5, <2>1, Zenon
  <2>3. f[0] = <<h>>
    BY <1>1, Zenon
  <2>4. <<h>>[1] = h
    OBVIOUS
  <2> QED BY <2>2, <2>3, <2>4
<1>7. ASSUME NEW u \in 0 .. 79 PROVE v[u + 2] = RoundOf(u, v[u + 1], s[u + 1])
  <2> DEFINE t == u + 1
  <2>1. t \in 1 .. 80 /\ t - 1 = u /\ t \in 0 .. 80 /\ u \in 0 .. 80 /\ t + 1 = u + 2 /\ t \in Nat
    OBVIOUS
  <2> HIDE DEF t
  <2>2. f[t][t + 1] = r(t)
    <3>1. /\ f[t] = Append(f[t - 1], r(t)) /\ r(t) \in Regs
          /\ f[t - 1] \in Seq(Regs) /\ Len(f[t - 1]) = t
      BY <1>3, <2>1, Zenon
    <3>2. Append(f[t - 1], r(t))[Len(f[t - 1]) + 1] = r(t)
      BY <3>1, AppendProperties
    <3> QED BY <3>1, <3>2
  <2>3. f[t][t + 1] = v[t + 1]
    <3>1. t + 1 \in 1 .. t + 1
      BY <2>1
    <3> QED BY <1>5, <2>1, <3>1, Zenon
  <2>4. r(t) = RoundOf(u, v[u + 1], s[u + 1])
    <3>1. t = u + 1 /\ u + 1 \in 1 .. u + 1
      BY DEF t
    <3>2. f[u][u + 1] = v[u + 1]
      BY <1>5, <2>1, <3>1, Zenon
    <3> QED BY <2>1, <3>1, <3>2 DEF r
  <2> QED BY <2>1, <2>2, <2>3, <2>4
<1> QED BY <1>6, <1>7 DEF IsWorking, f, v

-----------------------------------------------------------------------------
(***************************************************************************)
(* The inductive invariant: before round n the registers are the working   *)
(* variables of the standard, and the window holds words n to n + 15 of    *)
(* the message schedule, each at its place modulo 16, as far as there are  *)
(* any.                                                                    *)
(***************************************************************************)
Sched == MessageSchedule(input)[80]
Vars81 == Working(input.h, Sched)[80]

WindowInv == n \in 0 .. 80 => \A j \in n .. n + 15 : j <= 79 => w[At(j)] = Sched[j + 1]
RegsInv == n \in 0 .. 80 => regs = Vars81[n + 1]
Sha1Inv == TypeOK /\ WindowInv /\ RegsInv /\ ReturnsSha1

LEMMA AtFacts ==
    ASSUME NEW i \in Nat
    PROVE  /\ At(i) \in 1 .. 16 /\ At(i + 16) = At(i)
           /\ \A j \in i + 1 .. i + 15 : At(j) \in 1 .. 16 /\ At(j) # At(i)
<1>1. i % 16 \in 0 .. 15 /\ (i + 16) % 16 = i % 16
  OBVIOUS
<1>2. \A j \in i + 1 .. i + 15 : j % 16 \in 0 .. 15 /\ j % 16 # i % 16
  OBVIOUS
<1> QED BY <1>1, <1>2 DEF At

LEMMA InputFacts ==
    ASSUME input \in Inputs
    PROVE  /\ input.in \in [1 .. 16 -> Word] /\ input.h \in Regs
           /\ input.idx \in Word /\ input.id \in Word
BY BlockAssumption DEF Regs

\* The standard's facts about the words and the variables of this call.
LEMMA Standard ==
    ASSUME input \in Inputs
    PROVE  /\ \A j \in 1 .. 16 : Sched[j] = Block(input)[j]
           /\ \A t \in 17 .. 80 : Sched[t] = NextWord(Sched, t)
           /\ Vars81[1] = input.h
           /\ \A t \in 0 .. 79 : Vars81[t + 2] = RoundOf(t, Vars81[t + 1], Sched[t + 1])
<1>1. IsSchedule(Sched, input)
  BY ScheduleFacts DEF Sched
<1>2. IsWorking(Vars81, input.h, Sched)
  BY InputFacts, WorkingFacts DEF Vars81
<1>3. /\ \A j \in 1 .. 16 : Sched[j] = Block(input)[j]
      /\ \A t \in 17 .. 80 : Sched[t] = NextWord(Sched, t)
  BY <1>1 DEF IsSchedule
<1>4. /\ Vars81[1] = input.h
      /\ \A t \in 0 .. 79 : Vars81[t + 2] = RoundOf(t, Vars81[t + 1], Sched[t + 1])
  BY <1>2 DEF IsWorking
<1> QED BY <1>3, <1>4

\* A round makes the registers the standard's next working variables.
LEMMA RegsStep ==
    ASSUME Sha1Inv, NEW f, NEW k, n \in 0 .. 79, n' = n + 1, input' = input, Round(f, k),
           f = F(n, regs[2], regs[3], regs[4]), k = K(n)
    PROVE  RegsInv' /\ regs' \in [1 .. 5 -> Word]
<1>1. regs = Vars81[n + 1] /\ regs \in Regs
  BY DEF Sha1Inv, RegsInv, TypeOK, Regs
<1>2. w[At(n)] = Sched[n + 1]
  <2>1. n \in n .. n + 15 /\ n <= 79
    OBVIOUS
  <2> QED BY <2>1 DEF Sha1Inv, WindowInv
<1>3. regs' = RoundOf(n, regs, w[At(n)])
  BY DEF Round, RoundOf
<1>4. Vars81[n + 2] = RoundOf(n, Vars81[n + 1], Sched[n + 1])
  BY Standard DEF Sha1Inv, TypeOK
<1>5. regs' = Vars81[n + 2]
  BY <1>1, <1>2, <1>3, <1>4
<1>6. Vars81' = Vars81 /\ n' + 1 = n + 2
  BY DEF Vars81, Sched
<1>7. RegsInv'
  BY <1>5, <1>6 DEF RegsInv
<1>8. RoundOf(n, regs, w[At(n)]) \in Regs
  BY <1>1, RoundType
<1> QED BY <1>3, <1>7, <1>8 DEF Regs

\* The word written in place is the one sixteen rounds later of the schedule.
LEMMA WindowStep ==
    ASSUME Sha1Inv, n \in 0 .. 63, n' = n + 1, input' = input, Schedule
    PROVE  WindowInv' /\ w' \in [1 .. 16 -> Word]
<1>1. w \in [1 .. 16 -> Word] /\ input \in Inputs
  BY DEF Sha1Inv, TypeOK
<1>2. \A j \in n .. n + 15 : w[At(j)] = Sched[j + 1]
  BY DEF Sha1Inv, WindowInv
<1> DEFINE x == Rotl(BitXor(BitXor(BitXor(w[At(n + 13)], w[At(n + 8)]), w[At(n + 2)]), w[At(n)]), 1)
<1>3. At(n) \in 1 .. 16 /\ At(n + 16) = At(n)
      /\ \A j \in n + 1 .. n + 15 : At(j) \in 1 .. 16 /\ At(j) # At(n)
  BY AtFacts
<1>4. w' = [w EXCEPT ![At(n)] = x]
  BY DEF Schedule
<1>5. x \in Word
  <2>1. w[At(n + 13)] \in Word /\ w[At(n + 8)] \in Word /\ w[At(n + 2)] \in Word /\ w[At(n)] \in Word
    <3>1. n + 13 \in n + 1 .. n + 15 /\ n + 8 \in n + 1 .. n + 15 /\ n + 2 \in n + 1 .. n + 15
      OBVIOUS
    <3> QED BY <1>1, <1>3, <3>1
  <2> QED BY <2>1, XorType, RotlType
<1>6. x = Sched[n + 17]
  <2>1. /\ w[At(n + 13)] = Sched[n + 14] /\ w[At(n + 8)] = Sched[n + 9]
        /\ w[At(n + 2)] = Sched[n + 3] /\ w[At(n)] = Sched[n + 1]
    <3>1. /\ n + 13 \in n .. n + 15 /\ n + 8 \in n .. n + 15 /\ n + 2 \in n .. n + 15
          /\ n \in n .. n + 15 /\ (n + 13) + 1 = n + 14 /\ (n + 8) + 1 = n + 9 /\ (n + 2) + 1 = n + 3
      OBVIOUS
    <3> QED BY <1>2, <3>1
  <2>2. Sched[n + 17] = NextWord(Sched, n + 17)
    <3>1. n + 17 \in 17 .. 80
      OBVIOUS
    <3> QED BY <1>1, <3>1, Standard
  <2>3. /\ (n + 17) - 3 = n + 14 /\ (n + 17) - 8 = n + 9 /\ (n + 17) - 14 = n + 3
        /\ (n + 17) - 16 = n + 1
    OBVIOUS
  <2> QED BY <2>1, <2>2, <2>3 DEF NextWord
<1> HIDE DEF x
<1>7. w' \in [1 .. 16 -> Word] /\ w'[At(n)] = x
      /\ \A j \in n + 1 .. n + 15 : w'[At(j)] = w[At(j)]
  BY <1>1, <1>3, <1>4, <1>5
<1>8. ASSUME NEW j \in n + 1 .. n + 16 PROVE w'[At(j)] = Sched[j + 1]
  <2>1. CASE j = n + 16
    <3>1. At(j) = At(n) /\ j + 1 = n + 17
      BY <1>3, <2>1
    <3> QED BY <1>6, <1>7, <3>1
  <2>2. CASE j # n + 16
    <3>1. j \in n + 1 .. n + 15 /\ j \in n .. n + 15
      BY <2>2
    <3> QED BY <1>2, <1>7, <3>1
  <2> QED BY <2>1, <2>2
<1>9. Sched' = Sched /\ n' .. n' + 15 = n + 1 .. n + 16
  BY DEF Sched
<1> QED BY <1>7, <1>8, <1>9 DEF WindowInv, At

\* The last rounds only use the window up.
LEMMA WindowKept ==
    ASSUME Sha1Inv, n \in 64 .. 79, n' = n + 1, input' = input, UNCHANGED w
    PROVE  WindowInv' /\ w' \in [1 .. 16 -> Word]
<1>1. w \in [1 .. 16 -> Word]
  BY DEF Sha1Inv, TypeOK
<1>2. \A j \in n .. n + 15 : j <= 79 => w[At(j)] = Sched[j + 1]
  BY DEF Sha1Inv, WindowInv
<1>3. Sched' = Sched
  BY DEF Sched
<1>4. ASSUME NEW j \in n' .. n' + 15, j <= 79 PROVE w[At(j)] = Sched[j + 1]
  <2>1. j \in n .. n + 15
    BY <1>4
  <2> QED BY <1>2, <1>4, <2>1
<1> QED BY <1>1, <1>3, <1>4 DEF WindowInv, At

LEMMA StartsRight == Init => Sha1Inv
<1> SUFFICES ASSUME Init PROVE Sha1Inv
  OBVIOUS
<1>1. n = -1 /\ input \in Inputs /\ res = <<>>
  BY DEF Init
<1>2. w \in [1 .. 16 -> Word] /\ regs \in [1 .. 5 -> Word]
  BY DEF Init, Word
<1> QED BY <1>1, <1>2 DEF Sha1Inv, TypeOK, WindowInv, RegsInv, ReturnsSha1

LEMMA LoadStep == Sha1Inv /\ Load => Sha1Inv'
<1> SUFFICES ASSUME Sha1Inv, Load PROVE Sha1Inv'
  OBVIOUS
<1>1. /\ input \in Inputs /\ n' = 0 /\ w' = Block(input) /\ regs' = input.h
      /\ input' = input /\ res' = res /\ res \in {<<>>} \cup [1 .. 2 -> Word]
  BY DEF Sha1Inv, TypeOK, Load, Block
<1>2. w' \in [1 .. 16 -> Word] /\ regs' \in [1 .. 5 -> Word]
  BY <1>1, BlockType, InputFacts DEF Regs
<1>3. TypeOK'
  BY <1>1, <1>2 DEF TypeOK
<1>4. WindowInv'
  <2>1. Sched' = Sched
    BY <1>1 DEF Sched
  <2>2. ASSUME NEW j \in 0 .. 15 PROVE w'[At(j)] = Sched[j + 1]
    <3>1. At(j) = j + 1 /\ j + 1 \in 1 .. 16
      BY DEF At
    <3> QED BY <1>1, <3>1, Standard
  <2>3. n' .. n' + 15 = 0 .. 15
    BY <1>1
  <2> QED BY <2>1, <2>2, <2>3 DEF WindowInv, At
<1>5. RegsInv'
  <2>1. Vars81' = Vars81
    BY <1>1 DEF Vars81, Sched
  <2>2. Vars81[1] = input.h /\ n' + 1 = 1
    BY <1>1, Standard
  <2> QED BY <1>1, <2>1, <2>2 DEF RegsInv
<1>6. ReturnsSha1'
  BY <1>1 DEF ReturnsSha1
<1> QED BY <1>3, <1>4, <1>5, <1>6 DEF Sha1Inv

\* What a round has to show: the window, the registers, and that there is no
\* result yet.
LEMMA RoundStep ==
    ASSUME Sha1Inv, n \in 0 .. 79, n' = n + 1, UNCHANGED <<input, res>>,
           WindowInv', w' \in [1 .. 16 -> Word], RegsInv', regs' \in [1 .. 5 -> Word]
    PROVE  Sha1Inv'
<1>1. TypeOK'
  BY DEF Sha1Inv, TypeOK
<1>2. ReturnsSha1'
  BY DEF ReturnsSha1
<1> QED BY <1>1, <1>2 DEF Sha1Inv

LEMMA RoundsStep ==
    Sha1Inv /\ (Rounds0To19 \/ Rounds20To39 \/ Rounds40To59 \/ Rounds60To63 \/ Rounds64To79)
      => Sha1Inv'
<1> SUFFICES ASSUME Sha1Inv,
                    Rounds0To19 \/ Rounds20To39 \/ Rounds40To59 \/ Rounds60To63 \/ Rounds64To79
             PROVE  Sha1Inv'
  OBVIOUS
<1> DEFINE b == regs[2]  c == regs[3]  d == regs[4]
<1>1. CASE Rounds0To19
  <2>1. n \in 0 .. 19 /\ n' = n + 1 /\ UNCHANGED <<input, res>> /\ Schedule
    BY <1>1 DEF Rounds0To19, Rounds
  <2>2. Round(f1(b, c, d), Hex(23170, 31129))
    BY <1>1 DEF Rounds0To19
  <2>3. f1(b, c, d) = F(n, b, c, d) /\ Hex(23170, 31129) = K(n)
    BY <2>1, ChIsF1 DEF F, K
  <2>4. RegsInv' /\ regs' \in [1 .. 5 -> Word]
    BY <2>1, <2>2, <2>3, RegsStep
  <2>5. WindowInv' /\ w' \in [1 .. 16 -> Word]
    BY <2>1, WindowStep
  <2> QED BY <2>1, <2>4, <2>5, RoundStep
<1>2. CASE Rounds20To39
  <2>1. n \in 20 .. 39 /\ n' = n + 1 /\ UNCHANGED <<input, res>> /\ Schedule
    BY <1>2 DEF Rounds20To39, Rounds
  <2>2. Round(Parity(b, c, d), Hex(28377, 60321))
    BY <1>2 DEF Rounds20To39
  <2>3. Parity(b, c, d) = F(n, b, c, d) /\ Hex(28377, 60321) = K(n)
    BY <2>1 DEF F, K, Parity
  <2>4. RegsInv' /\ regs' \in [1 .. 5 -> Word]
    BY <2>1, <2>2, <2>3, RegsStep
  <2>5. WindowInv' /\ w' \in [1 .. 16 -> Word]
    BY <2>1, WindowStep
  <2> QED BY <2>1, <2>4, <2>5, RoundStep
<1>3. CASE Rounds40To59
  <2>1. n \in 40 .. 59 /\ n' = n + 1 /\ UNCHANGED <<input, res>> /\ Schedule
    BY <1>3 DEF Rounds40To59, Rounds
  <2>2. Round(Majority(b, c, d), Hex(36635, 48348))
    BY <1>3 DEF Rounds40To59
  <2>3. Majority(b, c, d) = F(n, b, c, d) /\ Hex(36635, 48348) = K(n)
    BY <2>1, MajIsMajority DEF F, K
  <2>4. RegsInv' /\ regs' \in [1 .. 5 -> Word]
    BY <2>1, <2>2, <2>3, RegsStep
  <2>5. WindowInv' /\ w' \in [1 .. 16 -> Word]
    BY <2>1, WindowStep
  <2> QED BY <2>1, <2>4, <2>5, RoundStep
<1>4. CASE Rounds60To63
  <2>1. n \in 60 .. 63 /\ n' = n + 1 /\ UNCHANGED <<input, res>> /\ Schedule
    BY <1>4 DEF Rounds60To63, Rounds
  <2>2. Round(Parity(b, c, d), Hex(51810, 49622))
    BY <1>4 DEF Rounds60To63
  <2>3. Parity(b, c, d) = F(n, b, c, d) /\ Hex(51810, 49622) = K(n)
    BY <2>1 DEF F, K, Parity
  <2>4. RegsInv' /\ regs' \in [1 .. 5 -> Word]
    BY <2>1, <2>2, <2>3, RegsStep
  <2>5. WindowInv' /\ w' \in [1 .. 16 -> Word]
    BY <2>1, WindowStep
  <2> QED BY <2>1, <2>4, <2>5, RoundStep
<1>5. CASE Rounds64To79
  <2>1. n \in 64 .. 79 /\ n' = n + 1 /\ UNCHANGED <<input, res>> /\ UNCHANGED w
    BY <1>5 DEF Rounds64To79, Rounds
  <2>2. Round(Parity(b, c, d), Hex(51810, 49622))
    BY <1>5 DEF Rounds64To79
  <2>3. Parity(b, c, d) = F(n, b, c, d) /\ Hex(51810, 49622) = K(n)
    BY <2>1 DEF F, K, Parity
  <2>4. RegsInv' /\ regs' \in [1 .. 5 -> Word]
    BY <2>1, <2>2, <2>3, RegsStep
  <2>5. WindowInv' /\ w' \in [1 .. 16 -> Word]
    BY <2>1, WindowKept
  <2> QED BY <2>1, <2>4, <2>5, RoundStep
<1> QED BY <1>1, <1>2, <1>3, <1>4, <1>5

LEMMA ReturnStep == Sha1Inv /\ Return => Sha1Inv'
<1> SUFFICES ASSUME Sha1Inv, Return PROVE Sha1Inv'
  OBVIOUS
<1> DEFINE hash == Sha1(input)  h == input.h
<1>1. /\ n = 80 /\ n' = 81 /\ UNCHANGED <<input, w, regs>>
      /\ res' = <<Add(h[1], regs[1]), Add(h[2], regs[2])>>
      /\ input \in Inputs /\ regs = Vars81[81]
  BY DEF Sha1Inv, TypeOK, RegsInv, Return
<1>2. hash = [j \in 1 .. 5 |-> Add(h[j], regs[j])]
  BY <1>1 DEF Sha1, Vars81, Sched
<1>3. hash[1] = Add(h[1], regs[1]) /\ hash[2] = Add(h[2], regs[2])
  BY <1>2
<1> HIDE DEF hash
<1>4. res' \in Seq(Word) /\ Len(res') = 2 /\ res'[1] = hash[1] /\ res'[2] = hash[2]
      /\ res' \in [1 .. 2 -> Word]
  BY <1>1, <1>3, AddType
<1>5. res' = SubSeq(hash, 1, 2)
  <2>1. hash[1] \in Word /\ hash[2] \in Word
    BY <1>3, AddType
  <2>2. \A i \in 1 .. 2 : hash[i] \in Word
    BY <2>1
  <2>3. SubSeq(hash, 1, 2) \in Seq(Word) /\ Len(SubSeq(hash, 1, 2)) = 2
        /\ \A i \in 1 .. 2 : SubSeq(hash, 1, 2)[i] = hash[i]
    <3>1. /\ SubSeq(hash, 1, 2) \in Seq(Word)
          /\ Len(SubSeq(hash, 1, 2)) = IF 1 <= 2 THEN 2 - 1 + 1 ELSE 0
          /\ \A i \in 1 .. 2 - 1 + 1 : SubSeq(hash, 1, 2)[i] = hash[1 + i - 1]
      BY <2>2, SubSeqProperties
    <3>2. 2 - 1 + 1 = 2 /\ 1 <= 2 /\ \A i \in 1 .. 2 : 1 + i - 1 = i
      OBVIOUS
    <3> QED BY <3>1, <3>2
  <2>4. \A i \in 1 .. 2 : res'[i] = SubSeq(hash, 1, 2)[i]
    BY <1>4, <2>3
  <2> DEFINE q == SubSeq(hash, 1, 2)
  <2> HIDE DEF q
  <2>5. q \in Seq(Word) /\ Len(q) = 2 /\ \A i \in 1 .. 2 : res'[i] = q[i]
    BY <2>3, <2>4 DEF q
  <2>6. res' = q
    BY <1>4, <2>5, SeqEqual
  <2> QED BY <2>6 DEF q
<1>6. ReturnsSha1'
  <2>1. (SubSeq(Sha1(input), 1, 2))' = SubSeq(hash, 1, 2)
    BY <1>1 DEF hash
  <2> QED BY <1>5, <2>1 DEF ReturnsSha1
<1>7. TypeOK'
  <2>1. input' \in Inputs /\ n' \in -1 .. 81 /\ w' \in [1 .. 16 -> Word] /\ regs' \in [1 .. 5 -> Word]
    BY <1>1 DEF Sha1Inv, TypeOK
  <2> QED BY <1>4, <2>1 DEF TypeOK
<1>8. WindowInv' /\ RegsInv'
  BY <1>1 DEF WindowInv, RegsInv
<1> QED BY <1>6, <1>7, <1>8 DEF Sha1Inv

LEMMA StutterStep == Sha1Inv /\ UNCHANGED vars => Sha1Inv'
BY DEF Sha1Inv, vars, TypeOK, WindowInv, RegsInv, ReturnsSha1, Sched, Vars81, At

-----------------------------------------------------------------------------
(***************************************************************************)
(* Before every round the kernel's registers and its window of 16 words    *)
(* are the working variables and the words n to n + 15 of the standard's   *)
(* message schedule.                                                       *)
(***************************************************************************)
THEOREM Sha1Invariant == Spec => []Sha1Inv
<1>1. Init => Sha1Inv
  BY StartsRight
<1>2. Sha1Inv /\ [Next]_vars => Sha1Inv'
  <2> SUFFICES ASSUME Sha1Inv, [Next]_vars PROVE Sha1Inv'
    OBVIOUS
  <2>1. CASE Load
    BY <2>1, LoadStep
  <2>2. CASE Rounds0To19 \/ Rounds20To39 \/ Rounds40To59 \/ Rounds60To63 \/ Rounds64To79
    BY <2>2, RoundsStep
  <2>3. CASE Return
    BY <2>3, ReturnStep
  <2>4. CASE Done
    BY <2>4, StutterStep DEF Done
  <2>5. CASE UNCHANGED vars
    BY <2>5, StutterStep
  <2> QED BY <2>1, <2>2, <2>3, <2>4, <2>5 DEF Next
<1> QED BY <1>1, <1>2, PTL DEF Spec

\* The window, the registers and the result of computeSHA1Block stay words of
\* 32 bits, whatever the block.
THEOREM Sha1Types == Spec => []TypeOK
<1>1. Sha1Inv => TypeOK
  BY DEF Sha1Inv
<1> QED BY <1>1, Sha1Invariant, PTL

\* For every block, chaining value and nonce computeSHA1Block returns the first
\* two words of the hash value that the standard defines.
THEOREM Sha1Correct == Spec => []ReturnsSha1
<1>1. Sha1Inv => ReturnsSha1
  BY DEF Sha1Inv
<1> QED BY <1>1, Sha1Invariant, PTL
=============================================================================
