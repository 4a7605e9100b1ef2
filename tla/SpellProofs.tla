----------------------------- MODULE SpellProofs -----------------------------
(***************************************************************************)
(* Proofs about the spell filter of level0, for every dictionary, every    *)
(* input, every way it arrives, every hash function and any sizes of the   *)
(* buffers.                                                                *)
(***************************************************************************)
EXTENDS Spell, SequenceTheorems, FiniteSetTheorems, WellFoundedInduction, TLAPS

Out == Char \cup {"<", ">"}

\* The bits of every line that has been read and counts are set.
BuildInv ==
    /\ \A i \in 1 .. line : ~Capital(i) => HashOf(Stored(i)) \subseteq data
    /\ pc = "build" => pos = 0 /\ end = 0
    /\ pc # "build" => line = Len(Dictionary)

\* The word holds what has been scanned since the last separator, however many
\* reads ago that was.
WordInv == \E k \in 1 .. pos + 1 : Begins(input, k, pos) /\ word = SubSeq(input, k, pos)

\* What has been written and what the buffer holds is the filtered form of
\* what has been scanned.
StreamInv ==
    /\ ~shared => written \o output = Filtered(data, input)[pos]
    /\ pc = "exit" /\ ~early => end = Len(input)

\* How full the output buffer is.  Of the characters from place b + 1 on, which
\* the last read returned, and of the word from place k on that was open then,
\* all up to the last separator is in it, with two more characters for every
\* unknown word.
Holds(b, k, m) ==
    /\ Begins(input, k, b) /\ Begins(input, m, pos) /\ end - b <= READ_BUFFER
    /\ Len(output) = m - k + 2 * Cardinality(Marked(data, input, b + 1, pos))
RoomInv ==
    pc = "scan" => \E b \in 0 .. pos : \E k \in 1 .. b + 1, m \in 1 .. pos + 1 : Holds(b, k, m)

SpellInv ==
    TypeOK /\ BuildInv /\ WordInv /\ StreamInv /\ RoomInv /\ TameInputStaysInBuffers

-----------------------------------------------------------------------------
(***************************************************************************)
(* Natural numbers: a least element, and induction up to a bound, as facts *)
(* about sets.                                                             *)
(***************************************************************************)
LEMMA LeastOf ==
    ASSUME NEW T \in SUBSET Nat, T # {}
    PROVE  \E x \in T : \A y \in T : x <= y
<1> DEFINE R == OpToRel(<, Nat)
<1>1. \E x \in T : \A y \in T : ~(<<y, x>> \in R)
  <2>1. IsWellFoundedOn(R, Nat)
    BY NatLessThanWellFounded
  <2> HIDE DEF R
  <2> QED BY <2>1, WFMin
<1>2. PICK x \in T : \A y \in T : ~(<<y, x>> \in R)
  BY <1>1
<1>3. \A y \in T : ~(y < x)
  BY <1>2 DEF OpToRel
<1> QED BY <1>3

LEMMA AllUpTo ==
    ASSUME NEW n \in Nat, NEW S, 0 \in S, \A i \in 0 .. n - 1 : i \in S => i + 1 \in S
    PROVE  0 .. n \subseteq S
<1> SUFFICES ASSUME (0 .. n) \ S # {} PROVE FALSE
  OBVIOUS
<1> DEFINE T == (0 .. n) \ S
<1>0. T \in SUBSET Nat /\ T # {}
  OBVIOUS
<1>1. PICK x \in T : \A y \in T : x <= y
  <2> HIDE DEF T
  <2> QED BY <1>0, LeastOf
<1>2. x # 0 /\ x - 1 \in 0 .. n - 1 /\ x - 1 \in S
  BY <1>1
<1> QED BY <1>1, <1>2

-----------------------------------------------------------------------------
(***************************************************************************)
(* The open word.                                                          *)
(***************************************************************************)

\* It begins at one place only.
LEMMA BeginsOnce ==
    ASSUME NEW s, NEW n \in Nat, NEW k \in 1 .. n + 1, NEW m \in 1 .. n + 1,
           Begins(s, k, n), Begins(s, m, n)
    PROVE  k = m
<1>1. ASSUME k < m PROVE FALSE
  BY <1>1 DEF Begins
<1>2. ASSUME m < k PROVE FALSE
  BY <1>2 DEF Begins
<1> QED BY <1>1, <1>2

LEMMA WordBeforeIs ==
    ASSUME NEW s, NEW i \in Nat \ {0}, NEW k \in 1 .. i, Begins(s, k, i - 1)
    PROVE  WordBefore(s, i) = SubSeq(s, k, i - 1)
<1> DEFINE P(m) == m \in 1 .. i /\ Begins(s, m, i - 1)
<1>1. \A m : P(m) => m = k
  BY BeginsOnce
<1>2. (CHOOSE m \in 1 .. i : Begins(s, m, i - 1)) = k
  BY <1>1
<1> QED BY <1>2 DEF WordBefore

\* One more character: a separator closes the word, any other goes on with it.
LEMMA BeginsNext ==
    ASSUME NEW s, NEW n \in Nat, NEW k \in 1 .. n + 1, Begins(s, k, n)
    PROVE  /\ s[n + 1] \notin Separator => Begins(s, k, n + 1)
           /\ s[n + 1] \in Separator => Begins(s, n + 2, n + 1)
BY DEF Begins

\* There is an open word after any number of characters.
LEMMA BeginsSome ==
    ASSUME NEW s, NEW n \in Nat
    PROVE  \E k \in 1 .. n + 1 : Begins(s, k, n)
<1> DEFINE S == {i \in 0 .. n : \E k \in 1 .. i + 1 : Begins(s, k, i)}
<1>1. 0 \in S
  BY DEF Begins
<1>2. ASSUME NEW i \in 0 .. n - 1, i \in S PROVE i + 1 \in S
  <2>1. PICK k \in 1 .. i + 1 : Begins(s, k, i)
    BY <1>2
  <2>2. \E m \in 1 .. (i + 1) + 1 : Begins(s, m, i + 1)
    BY <2>1, BeginsNext
  <2> QED BY <2>2
<1>3. 0 .. n \subseteq S
  <2> HIDE DEF S
  <2> QED BY <1>1, <1>2, AllUpTo
<1> QED BY <1>3

\* A word is made of the characters of the text that are no separators.
LEMMA WordBeforeType ==
    ASSUME NEW s \in Seq(Char), NEW i \in 1 .. Len(s)
    PROVE  WordBefore(s, i) \in Seq(Char)
<1>0. Len(s) \in Nat /\ i \in Nat \ {0} /\ i - 1 \in Nat
  BY LenProperties
<1>1. PICK k \in 1 .. (i - 1) + 1 : Begins(s, k, i - 1)
  BY <1>0, BeginsSome
<1>2. WordBefore(s, i) = SubSeq(s, k, i - 1)
  BY <1>0, <1>1, WordBeforeIs
<1>3. \A j \in k .. i - 1 : s[j] \in Char
  BY <1>0, <1>1
<1> QED BY <1>0, <1>1, <1>2, <1>3, SubSeqProperties

\* What write_word puts out, and how long it is.
LEMMA WriteWordFacts ==
    ASSUME NEW bits, NEW w \in Seq(Char)
    PROVE  /\ WriteWord(bits, w) \in Seq(Out)
           /\ Len(WriteWord(bits, w)) = Len(w) + IF WriteWord(bits, w) = w THEN 0 ELSE 2
<1>1. w \in Seq(Out) /\ <<"<">> \in Seq(Out) /\ <<">">> \in Seq(Out)
  BY DEF Out
<1>2. Len(w) \in Nat /\ Len(<<"<">>) = 1 /\ Len(<<">">>) = 1
  BY LenProperties
<1>3. CASE w = <<>> \/ Known(bits, w)
  BY <1>1, <1>2, <1>3 DEF WriteWord
<1>4. CASE ~(w = <<>> \/ Known(bits, w))
  <2>1. WriteWord(bits, w) = (<<"<">> \o w) \o <<">">>
    BY <1>4 DEF WriteWord
  <2>2. <<"<">> \o w \in Seq(Out) /\ Len(<<"<">> \o w) = 1 + Len(w)
    BY <1>1, <1>2, ConcatProperties
  <2>3. /\ (<<"<">> \o w) \o <<">">> \in Seq(Out)
        /\ Len((<<"<">> \o w) \o <<">">>) = Len(w) + 2
    BY <1>1, <1>2, <2>2, ConcatProperties
  <2> QED BY <1>2, <2>1, <2>3
<1> QED BY <1>3, <1>4

LEMMA PieceType ==
    ASSUME NEW bits, NEW s \in Seq(Char), NEW i \in 1 .. Len(s)
    PROVE  Piece(bits, s, i) \in Seq(Out)
<1>1. WriteWord(bits, WordBefore(s, i)) \in Seq(Out)
  BY WordBeforeType, WriteWordFacts
<1>2. s[i] \in Char
  BY LenProperties
<1>3. <<s[i]>> \in Seq(Out)
  BY <1>2 DEF Out
<1>4. <<>> \in Seq(Out)
  OBVIOUS
<1> QED BY <1>1, <1>3, <1>4, ConcatProperties DEF Piece

-----------------------------------------------------------------------------
(***************************************************************************)
(* The filtered form.                                                      *)
(***************************************************************************)
Forms(f, bits, s, n) ==
    /\ f \in [0 .. n -> Seq(Out)] /\ f[0] = <<>>
    /\ \A i \in 1 .. n : f[i] = f[i - 1] \o Piece(bits, s, i)

LEMMA FormsExists ==
    ASSUME NEW bits, NEW s \in Seq(Char)
    PROVE  \E f : Forms(f, bits, s, Len(s))
<1> DEFINE S == {n \in 0 .. Len(s) : \E f : Forms(f, bits, s, n)}
<1>0. Len(s) \in Nat
  BY LenProperties
<1>1. 0 \in S
  <2>1. Forms([i \in 0 .. 0 |-> <<>>], bits, s, 0)
    BY DEF Forms
  <2> QED BY <1>0, <2>1
<1>2. ASSUME NEW n \in 0 .. Len(s) - 1, n \in S PROVE n + 1 \in S
  <2>1. PICK f : Forms(f, bits, s, n)
    BY <1>2
  <2> DEFINE e == f[n] \o Piece(bits, s, n + 1)
             g == [i \in 0 .. n + 1 |-> IF i = n + 1 THEN e ELSE f[i]]
  <2>2. e \in Seq(Out)
    <3>1. f[n] \in Seq(Out)
      BY <1>0, <2>1 DEF Forms
    <3>2. Piece(bits, s, n + 1) \in Seq(Out)
      BY <1>0, PieceType
    <3> QED BY <3>1, <3>2, ConcatProperties
  <2>3. g \in [0 .. n + 1 -> Seq(Out)] /\ g[0] = <<>>
    <3> HIDE DEF e
    <3> QED BY <1>0, <2>1, <2>2 DEF Forms
  <2>4. ASSUME NEW i \in 1 .. n + 1 PROVE g[i] = g[i - 1] \o Piece(bits, s, i)
    <3>1. CASE i = n + 1
      <4>1. g[i] = e /\ g[i - 1] = f[n]
        BY <1>0, <3>1
      <4> QED BY <3>1, <4>1
    <3>2. CASE i # n + 1
      <4>1. g[i] = f[i] /\ g[i - 1] = f[i - 1] /\ i \in 1 .. n
        BY <1>0, <3>2
      <4> QED BY <2>1, <4>1 DEF Forms
    <3> QED BY <3>1, <3>2
  <2>5. Forms(g, bits, s, n + 1)
    <3> HIDE DEF g
    <3> QED BY <2>3, <2>4 DEF Forms
  <2> QED BY <1>0, <2>5
<1>3. 0 .. Len(s) \subseteq S
  <2> HIDE DEF S
  <2> QED BY <1>0, <1>1, <1>2, AllUpTo
<1> QED BY <1>0, <1>3

\* Filtered is well defined: the recursion has a solution, and Filtered is one.
LEMMA FilteredForms ==
    ASSUME NEW bits, NEW s \in Seq(Char)
    PROVE  /\ Filtered(bits, s)[0] = <<>>
           /\ \A i \in 1 .. Len(s) :
                Filtered(bits, s)[i] = Filtered(bits, s)[i - 1] \o Piece(bits, s, i)
<1> DEFINE B(f, i) == IF i = 0 THEN <<>> ELSE f[i - 1] \o Piece(bits, s, i)
           D(f) == f = [i \in 0 .. Len(s) |-> B(f, i)]
           c == CHOOSE f : D(f)
<1>0. Len(s) \in Nat
  BY LenProperties
<1>1. PICK f : Forms(f, bits, s, Len(s))
  BY FormsExists
<1>2. D(f)
  <2>1. ASSUME NEW i \in 0 .. Len(s) PROVE f[i] = B(f, i)
    BY <1>0, <1>1 DEF Forms
  <2> HIDE DEF B
  <2> QED BY <1>0, <1>1, <2>1 DEF Forms
<1>3. D(c)
  <2> HIDE DEF D
  <2> QED BY <1>2
<1>4. Filtered(bits, s) = c
  BY DEF Filtered
<1>5. \A i \in 0 .. Len(s) : c[i] = B(c, i)
  <2> HIDE DEF B, c
  <2> QED BY <1>3
<1> HIDE DEF c
<1>6. c[0] = <<>>
  BY <1>0, <1>5
<1>7. ASSUME NEW i \in 1 .. Len(s) PROVE c[i] = c[i - 1] \o Piece(bits, s, i)
  <2>1. i \in 0 .. Len(s) /\ i # 0
    BY <1>0
  <2>2. c[i] = B(c, i)
    <3> HIDE DEF B
    <3> QED BY <1>5, <2>1
  <2> QED BY <2>1, <2>2
<1> QED BY <1>4, <1>6, <1>7

-----------------------------------------------------------------------------
(***************************************************************************)
(* The inductive invariant, one lemma for each action.                     *)
(***************************************************************************)
LEMMA InputFacts ==
    ASSUME TypeOK
    PROVE  /\ input \in Seq(Char) /\ Len(input) \in Nat /\ Len(Dictionary) \in Nat
           /\ pos \in Nat /\ end \in Nat /\ pos <= end /\ end <= Len(input)
<1>1. input \in Seq(Char) /\ Dictionary \in Seq(Seq(Char))
  BY SpellAssumption DEF TypeOK
<1>2. Len(input) \in Nat /\ Len(Dictionary) \in Nat
  BY <1>1, LenProperties
<1> QED BY <1>1, <1>2 DEF TypeOK

\* In a tame input the open word is shorter than the buffer, and stays so
\* until a separator or the end of the input comes.
LEMMA OpenWordFits ==
    ASSUME Tame, TypeOK, NEW n \in 0 .. Len(input), NEW k \in 1 .. n + 1, Begins(input, k, n)
    PROVE  n + 1 - k < MAX_LENGTH
<1>0. Len(input) \in Nat /\ input \in Seq(Char) /\ MAX_LENGTH \in Nat
  BY InputFacts, SpellAssumption
<1> DEFINE T == {j \in n + 1 .. Len(input) : input[j] \in Separator}
<1>1. CASE T = {}
  <2>1. Begins(input, k, Len(input)) /\ k \in 1 .. Len(input) + 1
    BY <1>0, <1>1 DEF Begins
  <2>2. PICK m \in 1 .. Len(input) + 1 :
          Begins(input, m, Len(input)) /\ Len(input) + 1 - m < MAX_LENGTH
    BY DEF Tame
  <2>3. k = m
    BY <1>0, <2>1, <2>2, BeginsOnce
  <2> QED BY <1>0, <2>2, <2>3
<1>2. CASE T # {}
  <2>1. T \in SUBSET Nat
    BY <1>0
  <2>2. PICK j \in T : \A y \in T : j <= y
    <3> HIDE DEF T
    <3> QED BY <1>2, <2>1, LeastOf
  <2>3. j \in n + 1 .. Len(input) /\ input[j] \in Separator
    BY <2>2
  <2>4. Begins(input, k, j - 1) /\ k \in 1 .. j
    BY <1>0, <2>2, <2>3 DEF Begins
  <2>5. WordBefore(input, j) = SubSeq(input, k, j - 1)
    BY <1>0, <2>3, <2>4, WordBeforeIs
  <2>6. Len(WordBefore(input, j)) < MAX_LENGTH
    BY <1>0, <2>3 DEF Tame
  <2>7. Len(SubSeq(input, k, j - 1)) = j - k
    <3>1. \A i \in k .. j - 1 : input[i] \in Char
      BY <1>0, <2>3, <2>4
    <3> QED BY <1>0, <2>3, <2>4, <3>1, SubSeqProperties
  <2> QED BY <1>0, <2>3, <2>4, <2>5, <2>6, <2>7
<1> QED BY <1>1, <1>2

LEMMA SpellInit == Init => SpellInv
<1> SUFFICES ASSUME Init PROVE SpellInv
  OBVIOUS
<1>0. /\ pc = "build" /\ data = {} /\ line = 0 /\ input \in Inputs /\ shared \in BOOLEAN
      /\ pos = 0 /\ end = 0 /\ word = <<>> /\ output = <<>> /\ written = <<>> /\ early = FALSE
  BY DEF Init
<1>1. input \in Seq(Char) /\ Len(input) \in Nat /\ Len(Dictionary) \in Nat
  BY <1>0, SpellAssumption, LenProperties
<1>2. TypeOK
  <2>1. word \in Seq(Char \ Separator) /\ Len(word) = 0
    BY <1>0
  <2>2. output \in Seq(Out) /\ written \in Seq(Out) /\ Len(output) = 0
    BY <1>0
  <2>3. Len(word) <= MAX_LENGTH /\ Len(output) <= OUT_BUFFER
    BY <2>1, <2>2, SpellAssumption
  <2>4. pos \in 0 .. end /\ end \in 0 .. Len(input) /\ line \in 0 .. Len(Dictionary)
    BY <1>0, <1>1
  <2>5. shared \in BOOLEAN /\ early \in BOOLEAN
    BY <1>0
  <2> QED BY <1>0, <2>1, <2>2, <2>3, <2>4, <2>5 DEF TypeOK, Out
<1>3. BuildInv
  BY <1>0 DEF BuildInv
<1>4. WordInv
  <2>1. Begins(input, 1, 0) /\ SubSeq(input, 1, 0) = <<>>
    BY <1>1, SubSeqEmpty DEF Begins
  <2> QED BY <1>0, <2>1 DEF WordInv
<1>5. StreamInv
  <2>1. Filtered(data, input)[0] = <<>> /\ <<>> \o <<>> = <<>>
    BY <1>1, FilteredForms
  <2> QED BY <1>0, <2>1 DEF StreamInv
<1>6. RoomInv /\ TameInputStaysInBuffers
  BY <1>0 DEF RoomInv, TameInputStaysInBuffers
<1> QED BY <1>2, <1>3, <1>4, <1>5, <1>6 DEF SpellInv

\* A line of the dictionary.
LEMMA BuildStep == ASSUME SpellInv, Build PROVE SpellInv'
<1> USE DEF SpellInv
<1>0. /\ pc = "build" /\ UNCHANGED <<input, shared, pos, end, word, output, written, early>>
      /\ pos = 0 /\ end = 0
  BY DEF Build, BuildInv
<1>1. input \in Seq(Char) /\ Len(Dictionary) \in Nat /\ line \in 0 .. Len(Dictionary)
  BY InputFacts DEF TypeOK
<1>2. \/ /\ line = Len(Dictionary) /\ pc' = "read" /\ UNCHANGED <<data, line>>
      \/ /\ line < Len(Dictionary) /\ pc' = "build" /\ line' = line + 1
         /\ data' = IF Capital(line + 1) THEN data
                    ELSE data \cup HashOf(Stored(line + 1))
  BY <1>0, <1>1 DEF Build
<1>3. TypeOK'
  <2>1. line' \in 0 .. Len(Dictionary) /\ 1 .. line \subseteq 1 .. line' /\ line' \in line .. line + 1
    BY <1>1, <1>2
  <2>2. data' \subseteq UNION {HashOf(Stored(i)) : i \in 1 .. line'}
    <3>1. data \subseteq UNION {HashOf(Stored(i)) : i \in 1 .. line'}
      BY <2>1 DEF TypeOK
    <3>2. line' = line + 1 => line + 1 \in 1 .. line'
      BY <1>1, <2>1
    <3> QED BY <1>2, <3>1, <3>2
  <2> QED BY <1>0, <1>2, <2>1, <2>2 DEF TypeOK
<1>4. BuildInv'
  <2>1. ASSUME NEW i \in 1 .. line', ~Capital(i)
        PROVE  HashOf(Stored(i)) \subseteq data'
    <3>1. CASE i \in 1 .. line
      BY <1>2, <2>1, <3>1 DEF BuildInv
    <3>2. CASE i \notin 1 .. line
      <4>1. line' = line + 1 /\ i = line + 1
        BY <1>1, <1>2, <3>2
      <4> QED BY <1>2, <2>1, <4>1
    <3> QED BY <3>1, <3>2
  <2> QED BY <1>0, <1>2, <2>1 DEF BuildInv
<1>5. WordInv'
  BY <1>0 DEF WordInv
<1>6. StreamInv'
  <2>1. Filtered(data, input)[0] = <<>> /\ Filtered(data', input)[0] = <<>>
    BY <1>1, FilteredForms
  <2> QED BY <1>0, <1>2, <2>1 DEF StreamInv
<1>7. RoomInv' /\ TameInputStaysInBuffers'
  BY <1>2 DEF RoomInv, TameInputStaysInBuffers
<1> QED BY <1>3, <1>4, <1>5, <1>6, <1>7

\* The same input and filter are as tame as before.
LEMMA SameTame == ASSUME UNCHANGED <<input, data>> PROVE Tame' = Tame
BY DEF Tame

\* A read returns characters, the end of the input, or nothing yet.
LEMMA ReadStep ==
    ASSUME SpellInv, NEW cnt \in 0 .. READ_BUFFER, Read(cnt) PROVE SpellInv'
<1> USE DEF SpellInv
<1>0. /\ pc = "read" /\ end + cnt <= Len(input) /\ end' = end + cnt
      /\ pc' = IF cnt > 0 THEN "scan" ELSE "exit"
      /\ cnt = 0 => end = Len(input)
      /\ UNCHANGED <<data, line, input, shared, pos, word, output, written, early>>
  BY DEF Read
<1>1. /\ Len(input) \in Nat /\ pos \in Nat /\ end \in Nat /\ READ_BUFFER \in Nat /\ cnt \in Nat
      /\ pos = end /\ output = <<>> /\ cnt <= READ_BUFFER
  BY <1>0, InputFacts, SpellAssumption DEF TypeOK
<1>2. TypeOK'
  <2>1. pos' \in 0 .. end' /\ end' \in 0 .. Len(input')
    BY <1>0, <1>1
  <2>2. Len(output) <= OUT_BUFFER /\ Len(word) <= MAX_LENGTH
    BY <1>0 DEF TypeOK
  <2>3. pc' # "scan" => pos' = end'
    BY <1>0, <1>1
  <2> QED BY <1>0, <1>1, <2>1, <2>2, <2>3 DEF TypeOK
<1>3. BuildInv'
  BY <1>0 DEF BuildInv
<1>4. WordInv'
  BY <1>0 DEF WordInv
<1>5. StreamInv'
  BY <1>0, <1>1 DEF StreamInv
<1>6. RoomInv'
  <2>1. PICK k \in 1 .. pos + 1 : Begins(input, k, pos)
    BY DEF WordInv
  <2>2. Marked(data, input, pos + 1, pos) = {}
    BY <1>1 DEF Marked
  <2>3. Cardinality(Marked(data, input, pos + 1, pos)) = 0 /\ Len(output) = 0
    BY <1>1, <2>2, FS_EmptySet
  <2>4. Holds(pos, k, k)'
    <3>1. Len(output) = k - k + 2 * Cardinality(Marked(data, input, pos + 1, pos))
      BY <1>1, <2>1, <2>3
    <3>2. end' - pos <= READ_BUFFER
      BY <1>0, <1>1
    <3> QED BY <1>0, <2>1, <3>1, <3>2 DEF Holds
  <2>5. pos \in 0 .. pos
    BY <1>1
  <2>6. \E b \in 0 .. pos' : \E i \in 1 .. b + 1, m \in 1 .. pos' + 1 : Holds(b, i, m)'
    BY <1>0, <2>1, <2>4, <2>5
  <2> QED BY <2>6 DEF RoomInv
<1>7. TameInputStaysInBuffers'
  BY <1>0 DEF TameInputStaysInBuffers
<1> QED BY <1>2, <1>3, <1>4, <1>5, <1>6, <1>7

LEMMA ReadAgainStep == ASSUME SpellInv, ReadAgain PROVE SpellInv'
<1> USE DEF SpellInv
<1>0. /\ pc = "read" /\ pc' = "exit" /\ early' = TRUE
      /\ UNCHANGED <<data, line, input, shared, pos, end, word, output, written>>
  BY DEF ReadAgain
<1>1. TypeOK'
  BY <1>0 DEF TypeOK
<1>2. BuildInv' /\ WordInv' /\ StreamInv'
  BY <1>0 DEF BuildInv, WordInv, StreamInv
<1>3. RoomInv' /\ TameInputStaysInBuffers'
  BY <1>0 DEF RoomInv, TameInputStaysInBuffers
<1> QED BY <1>1, <1>2, <1>3

\* The output of a read is written.
LEMMA WriteStep == ASSUME SpellInv, Write PROVE SpellInv'
<1> USE DEF SpellInv
<1>0. /\ pc = "scan" /\ pos = end /\ pc' = "read" /\ output' = <<>>
      /\ UNCHANGED <<data, line, input, shared, pos, end, word, early>>
  BY DEF Write
<1>1. PICK k \in IF shared THEN 0 .. Len(output) ELSE {Len(output)} :
        written' = written \o SubSeq(output, 1, k)
  BY DEF Write
<1>2. output \in Seq(Out) /\ written \in Seq(Out) /\ Len(output) \in Nat
  BY LenProperties DEF TypeOK, Out
<1>3. k \in 0 .. Len(output)
  BY <1>1, <1>2
<1>4. written' \in Seq(Out)
  <2>1. \A i \in 1 .. k : output[i] \in Out
    BY <1>2, <1>3
  <2>2. SubSeq(output, 1, k) \in Seq(Out)
    BY <1>2, <1>3, <2>1, SubSeqProperties
  <2> QED BY <1>1, <1>2, <2>2, ConcatProperties
<1>5. ~shared => written' \o output' = written \o output
  <2>1. SubSeq(output, 1, Len(output)) = output
    BY <1>2, SubSeqFull
  <2>2. written' \o <<>> = written'
    BY <1>4, ConcatEmptySeq
  <2> QED BY <1>0, <1>1, <2>1, <2>2
<1>6. TypeOK'
  <2>1. output' \in Seq(Out) /\ Len(output') = 0
    BY <1>0
  <2> QED BY <1>0, <1>4, <2>1, SpellAssumption DEF TypeOK, Out
<1>7. BuildInv' /\ WordInv'
  BY <1>0 DEF BuildInv, WordInv
<1>8. StreamInv'
  BY <1>0, <1>5 DEF StreamInv
<1>9. RoomInv' /\ TameInputStaysInBuffers'
  BY <1>0 DEF RoomInv, TameInputStaysInBuffers
<1> QED BY <1>6, <1>7, <1>8, <1>9

\* Where the loop over the buffer stands.
LEMMA ScanFacts ==
    ASSUME SpellInv, Scan
    PROVE  /\ pc = "scan" /\ pos < end /\ pos' = pos + 1
           /\ UNCHANGED <<data, line, input, shared, end, written, early>>
           /\ pos + 1 \in 1 .. Len(input) /\ input[pos + 1] \in Char
           /\ input \in Seq(Char) /\ Len(input) \in Nat /\ pos \in Nat /\ end \in Nat
           /\ end <= Len(input) /\ line = Len(Dictionary)
<1>1. /\ input \in Seq(Char) /\ Len(input) \in Nat /\ pos \in Nat /\ end \in Nat
      /\ end <= Len(input)
  BY InputFacts DEF SpellInv
<1>2. /\ pc = "scan" /\ pos < end /\ pos' = pos + 1
      /\ UNCHANGED <<data, line, input, shared, end, written, early>>
  BY DEF Scan
<1>3. pos + 1 \in 1 .. Len(input)
  BY <1>1, <1>2
<1>4. line = Len(Dictionary)
  BY <1>2 DEF SpellInv, BuildInv
<1> QED BY <1>1, <1>2, <1>3, <1>4

\* A letter.
LEMMA AddCharStep ==
    ASSUME SpellInv, Scan, input[pos + 1] \notin Separator PROVE SpellInv'
<1> USE DEF SpellInv
<1> DEFINE c == input[pos + 1]
<1>0. /\ pc = "scan" /\ pos < end /\ pos' = pos + 1
      /\ UNCHANGED <<data, line, input, shared, end, written, early>>
      /\ pos + 1 \in 1 .. Len(input) /\ input[pos + 1] \in Char
      /\ input \in Seq(Char) /\ Len(input) \in Nat /\ pos \in Nat /\ end \in Nat
      /\ end <= Len(input) /\ line = Len(Dictionary)
  BY ScanFacts
<1>1. /\ word' = Append(word, c) /\ output' = output
      /\ pc' = IF Len(word) >= MAX_LENGTH THEN "undefined" ELSE "scan"
  BY DEF Scan, AddChar
<1>2. PICK k \in 1 .. pos + 1 : Begins(input, k, pos) /\ word = SubSeq(input, k, pos)
  BY DEF WordInv
<1>3. Begins(input, k, pos + 1)
  BY <1>0, <1>2, BeginsNext
<1>4. word' = SubSeq(input, k, pos + 1)
  <2>1. SubSeq(input, k, pos + 1) = SubSeq(input, k, (pos + 1) - 1) \o <<input[pos + 1]>>
    BY <1>0, <1>2, SubSeqRecursiveSecond
  <2>2. word \in Seq(Char) /\ (pos + 1) - 1 = pos
    BY <1>0 DEF TypeOK
  <2>3. Append(word, c) = word \o <<c>>
    BY <1>0, <2>2, AppendIsConcat
  <2> QED BY <1>1, <1>2, <2>1, <2>2, <2>3
<1>5. word \in Seq(Char \ Separator) /\ Len(word) \in Nat /\ MAX_LENGTH \in Nat
  BY LenProperties, SpellAssumption DEF TypeOK
<1>6. word' \in Seq(Char \ Separator) /\ Len(word') = Len(word) + 1
  BY <1>0, <1>1, <1>5, AppendProperties
<1>7. TypeOK'
  <2>1. pos' \in 0 .. end' /\ end' \in 0 .. Len(input')
    BY <1>0
  <2>2. pc' # "undefined" => Len(word') <= MAX_LENGTH /\ Len(output') <= OUT_BUFFER
    BY <1>0, <1>1, <1>5, <1>6 DEF TypeOK
  <2> QED BY <1>0, <1>1, <1>6, <2>1, <2>2 DEF TypeOK
<1>8. BuildInv'
  BY <1>0, <1>1 DEF BuildInv
<1>9. WordInv'
  BY <1>0, <1>2, <1>3, <1>4 DEF WordInv
<1>10. StreamInv'
  <2>1. Filtered(data, input)[pos + 1] = Filtered(data, input)[(pos + 1) - 1] \o Piece(data, input, pos + 1)
    BY <1>0, FilteredForms
  <2>2. Piece(data, input, pos + 1) = <<>> /\ (pos + 1) - 1 = pos
    BY <1>0 DEF Piece
  <2>3. written \o output \in Seq(Out)
    BY ConcatProperties DEF TypeOK, Out
  <2>4. (written \o output) \o <<>> = written \o output
    BY <2>3, ConcatEmptySeq
  <2>5. ~shared => written \o output = Filtered(data, input)[pos + 1]
    BY <2>1, <2>2, <2>4 DEF StreamInv
  <2> QED BY <1>0, <1>1, <2>5 DEF StreamInv
<1>11. RoomInv'
  <2>1. PICK b \in 0 .. pos : \E i \in 1 .. b + 1, m \in 1 .. pos + 1 : Holds(b, i, m)
    BY <1>0 DEF RoomInv
  <2>2. PICK i \in 1 .. b + 1, m \in 1 .. pos + 1 : Holds(b, i, m)
    BY <2>1
  <2>3. Marked(data, input, b + 1, pos + 1) = Marked(data, input, b + 1, pos)
    BY <1>0, <2>1 DEF Marked
  <2>4. Begins(input, m, pos + 1)
    BY <1>0, <2>2, BeginsNext DEF Holds
  <2>5. Holds(b, i, m)'
    BY <1>0, <1>1, <2>2, <2>3, <2>4 DEF Holds
  <2>6. b \in 0 .. pos' /\ m \in 1 .. pos' + 1
    BY <1>0, <2>1, <2>2
  <2>7. \E bb \in 0 .. pos' : \E ii \in 1 .. bb + 1, mm \in 1 .. pos' + 1 : Holds(bb, ii, mm)'
    BY <2>2, <2>5, <2>6
  <2> QED BY <2>7 DEF RoomInv
<1>12. TameInputStaysInBuffers'
  <2> SUFFICES ASSUME Tame' PROVE pc' # "undefined"
    BY DEF TameInputStaysInBuffers
  <2>1. Tame
    BY <1>0, SameTame
  <2>2. (pos + 1) + 1 - k < MAX_LENGTH
    BY <1>0, <1>2, <1>3, <2>1, OpenWordFits
  <2>3. Len(word) = pos - k + 1
    <3>1. \A i \in k .. pos : input[i] \in Char
      BY <1>0, <1>2
    <3> QED BY <1>0, <1>2, <3>1, SubSeqProperties
  <2> QED BY <1>0, <1>1, <1>2, <1>5, <2>2, <2>3
<1> QED BY <1>7, <1>8, <1>9, <1>10, <1>11, <1>12

\* A separator.
LEMMA EndWordStep ==
    ASSUME SpellInv, Scan, input[pos + 1] \in Separator PROVE SpellInv'
<1> USE DEF SpellInv
<1> DEFINE c == input[pos + 1]
           piece == WriteWord(data, word) \o <<c>>
<1>0. /\ pc = "scan" /\ pos < end /\ pos' = pos + 1
      /\ UNCHANGED <<data, line, input, shared, end, written, early>>
      /\ pos + 1 \in 1 .. Len(input) /\ input[pos + 1] \in Char
      /\ input \in Seq(Char) /\ Len(input) \in Nat /\ pos \in Nat /\ end \in Nat
      /\ end <= Len(input) /\ line = Len(Dictionary)
  BY ScanFacts
<1>1. /\ word' = <<>> /\ output' = output \o piece
      /\ pc' = IF Len(word) >= MAX_LENGTH \/ Len(output') > OUT_BUFFER
               THEN "undefined" ELSE "scan"
  BY DEF Scan, EndWord
<1>2. PICK k \in 1 .. pos + 1 : Begins(input, k, pos) /\ word = SubSeq(input, k, pos)
  BY DEF WordInv
<1>3. Begins(input, pos + 2, pos + 1) /\ pos + 2 \in 1 .. (pos + 1) + 1
  BY <1>0, <1>2, BeginsNext
<1>4. WordBefore(input, pos + 1) = word
  <2>1. pos + 1 \in Nat \ {0} /\ (pos + 1) - 1 = pos
    BY <1>0
  <2> QED BY <1>2, <2>1, WordBeforeIs
<1>5. word \in Seq(Char) /\ Len(word) = pos + 1 - k
  <2>1. \A i \in k .. pos : input[i] \in Char
    BY <1>0, <1>2
  <2> QED BY <1>0, <1>2, <2>1, SubSeqProperties
<1>6. /\ WriteWord(data, word) \in Seq(Out) /\ Len(WriteWord(data, word)) \in Nat
      /\ Len(WriteWord(data, word)) = Len(word) + IF WriteWord(data, word) = word THEN 0 ELSE 2
  BY <1>5, WriteWordFacts, LenProperties
<1>7. piece \in Seq(Out) /\ Len(piece) = Len(WriteWord(data, word)) + 1
  <2>1. <<c>> \in Seq(Out) /\ Len(<<c>>) = 1
    BY <1>0 DEF Out
  <2> HIDE DEF c
  <2> QED BY <1>6, <2>1, ConcatProperties
<1>8. Piece(data, input, pos + 1) = piece
  BY <1>4 DEF Piece
<1> HIDE DEF piece
<1>9. output \in Seq(Out) /\ written \in Seq(Out) /\ Len(output) \in Nat
  BY LenProperties DEF TypeOK, Out
<1>10. output' \in Seq(Out) /\ Len(output') = Len(output) + Len(piece)
  BY <1>1, <1>7, <1>9, ConcatProperties
<1>11. OUT_BUFFER \in Nat /\ MAX_LENGTH \in Nat /\ READ_BUFFER \in Nat
  BY SpellAssumption
<1>12. TypeOK'
  <2>1. pos' \in 0 .. end' /\ end' \in 0 .. Len(input')
    BY <1>0
  <2>2. word' \in Seq(Char \ Separator) /\ Len(word') = 0
    BY <1>1
  <2>3. Len(output') \in Nat
    BY <1>10, LenProperties
  <2>4. pc' # "undefined" => Len(word') <= MAX_LENGTH /\ Len(output') <= OUT_BUFFER
    BY <1>1, <1>11, <2>2, <2>3
  <2>5. pc' \in {"scan", "undefined"}
    BY <1>1
  <2> QED BY <1>0, <1>10, <2>1, <2>2, <2>4, <2>5 DEF TypeOK, Out
<1>13. BuildInv'
  BY <1>0, <1>1 DEF BuildInv
<1>14. WordInv'
  <2>1. SubSeq(input, pos + 2, pos + 1) = <<>>
    BY <1>0, SubSeqEmpty
  <2> QED BY <1>0, <1>1, <1>3, <2>1 DEF WordInv
<1>15. StreamInv'
  <2>1. Filtered(data, input)[pos + 1] = Filtered(data, input)[(pos + 1) - 1] \o Piece(data, input, pos + 1)
    BY <1>0, FilteredForms
  <2>2. (pos + 1) - 1 = pos
    BY <1>0
  <2>3. (written \o output) \o piece = written \o (output \o piece)
    BY <1>7, <1>9, ConcatAssociative, SMTT(30)
  <2>4. ~shared => written \o output' = Filtered(data, input)[pos + 1]
    BY <1>1, <1>8, <2>1, <2>2, <2>3 DEF StreamInv
  <2>5. pc' # "exit"
    BY <1>1
  <2> QED BY <1>0, <2>4, <2>5 DEF StreamInv
<1>16. PICK b \in 0 .. pos : \E i \in 1 .. b + 1, m \in 1 .. pos + 1 : Holds(b, i, m)
  BY <1>0 DEF RoomInv
<1>17. PICK i \in 1 .. b + 1, m \in 1 .. pos + 1 : Holds(b, i, m)
  BY <1>16
<1>18. m = k
  BY <1>0, <1>2, <1>17, BeginsOnce DEF Holds
<1> DEFINE M(n) == Marked(data, input, b + 1, n)
<1>19. IsFiniteSet(M(pos)) /\ Cardinality(M(pos)) \in Nat
  <2>1. IsFiniteSet(b + 1 .. pos)
    BY <1>0, <1>16, FS_Interval
  <2>2. M(pos) \in SUBSET (b + 1 .. pos)
    BY DEF Marked
  <2>3. IsFiniteSet(M(pos))
    BY <2>1, <2>2, FS_Subset
  <2> QED BY <2>3, FS_CardinalityType
<1>20. Cardinality(M(pos + 1)) = Cardinality(M(pos)) + IF WriteWord(data, word) = word THEN 0 ELSE 1
  <2>1. CASE WriteWord(data, word) = word
    <3>1. M(pos + 1) = M(pos)
      BY <1>0, <1>4, <1>16, <2>1 DEF Marked
    <3> QED BY <1>19, <2>1, <3>1
  <2>2. CASE WriteWord(data, word) # word
    <3>1. M(pos + 1) = M(pos) \cup {pos + 1} /\ pos + 1 \notin M(pos)
      BY <1>0, <1>4, <1>16, <2>2 DEF Marked
    <3> HIDE DEF M
    <3> QED BY <1>19, <2>2, <3>1, FS_AddElement
  <2> QED BY <2>1, <2>2
<1>21. Len(output') = (pos + 2) - i + 2 * Cardinality(M(pos + 1))
  <2>1. Len(output) = m - i + 2 * Cardinality(M(pos))
    BY <1>17 DEF Holds
  <2> DEFINE o1 == Len(output')
             o == Len(output)
             p == Len(piece)
             v == Len(WriteWord(data, word))
             l == Len(word)
             c1 == Cardinality(M(pos + 1))
             c0 == Cardinality(M(pos))
  <2>2. o \in Int /\ v \in Int /\ c0 \in Int /\ pos \in Int /\ k \in Int /\ i \in Int
    BY <1>0, <1>2, <1>6, <1>9, <1>16, <1>17, <1>19
  <2>3. o1 = o + p /\ p = v + 1 /\ l = pos + 1 - k /\ o = k - i + 2 * c0
    BY <1>5, <1>7, <1>10, <1>18, <2>1
  <2>4. (v = l /\ c1 = c0) \/ (v = l + 2 /\ c1 = c0 + 1)
    <3>1. CASE WriteWord(data, word) = word
      <4>1. v = l
        BY <3>1
      <4>2. c1 = c0
        <5> HIDE DEF M
        <5> QED BY <1>19, <1>20, <3>1
      <4> QED BY <4>1, <4>2
    <3>2. CASE WriteWord(data, word) # word
      <4>1. v = l + 2
        BY <1>6, <3>2
      <4>2. c1 = c0 + 1
        <5> HIDE DEF M
        <5> QED BY <1>19, <1>20, <3>2
      <4> QED BY <4>1, <4>2
    <3> QED BY <3>1, <3>2
  <2> HIDE DEF o1, o, p, v, l, c1, c0
  <2>5. o1 = (pos + 2) - i + 2 * c1
    BY <2>2, <2>3, <2>4
  <2> QED BY <2>5 DEF o1, c1
<1>22. RoomInv'
  <2>0. PICK e \in 1 .. pos' + 1 : e = pos + 2
    BY <1>0
  <2>1. Holds(b, i, e)'
    BY <1>0, <1>3, <1>17, <1>21, <2>0 DEF Holds
  <2>2. b \in 0 .. pos'
    BY <1>0, <1>16
  <2>3. \E bb \in 0 .. pos' : \E ii \in 1 .. bb + 1, mm \in 1 .. pos' + 1 : Holds(bb, ii, mm)'
    BY <1>17, <2>0, <2>1, <2>2
  <2> QED BY <2>3 DEF RoomInv
<1>23. TameInputStaysInBuffers'
  <2> SUFFICES ASSUME Tame' PROVE pc' # "undefined"
    BY DEF TameInputStaysInBuffers
  <2>1. Tame
    BY <1>0, SameTame
  <2>2. Len(word) < MAX_LENGTH
    BY <1>0, <1>2, <1>5, <2>1, OpenWordFits
  <2>3. b + 1 - i < MAX_LENGTH
    <3>1. b \in 0 .. Len(input) /\ Begins(input, i, b)
      BY <1>0, <1>16, <1>17 DEF Holds
    <3> QED BY <1>17, <2>1, <3>1, OpenWordFits
  <2>4. end - b <= READ_BUFFER
    BY <1>17 DEF Holds
  <2> DEFINE A == Marked(data, input, b + 1, (b + 1) + READ_BUFFER - 1)
  <2>5. 2 * Cardinality(A) <= OUT_BUFFER - READ_BUFFER - (MAX_LENGTH - 1)
    BY <1>0, <1>16, <2>1 DEF Tame
  <2>6. IsFiniteSet(A)
    <3>1. IsFiniteSet(b + 1 .. (b + 1) + READ_BUFFER - 1)
      BY <1>0, <1>11, <1>16, FS_Interval
    <3>2. A \in SUBSET (b + 1 .. (b + 1) + READ_BUFFER - 1)
      BY DEF Marked
    <3> QED BY <3>1, <3>2, FS_Subset
  <2>7. M(pos + 1) \in SUBSET A
    BY <1>0, <1>11, <1>16, <2>4 DEF Marked
  <2>8. Cardinality(M(pos + 1)) <= Cardinality(A) /\ Cardinality(A) \in Nat
    <3> HIDE DEF A, M
    <3> QED BY <2>6, <2>7, FS_Subset, FS_CardinalityType
  <2>9. Cardinality(M(pos + 1)) \in Nat
    BY <1>19, <1>20
  <2>10. Len(output') <= OUT_BUFFER
    <3> DEFINE o == Len(output')
               x == Cardinality(M(pos + 1))
               y == Cardinality(A)
    <3>1. x \in Nat /\ y \in Nat /\ x <= y
      BY <2>8, <2>9
    <3>2. o = (pos + 2) - i + 2 * x
      BY <1>21
    <3>3. 2 * y <= OUT_BUFFER - READ_BUFFER - (MAX_LENGTH - 1)
      BY <2>5
    <3> HIDE DEF o, x, y, A, M
    <3>4. pos \in Int /\ end \in Int /\ b \in Int /\ i \in Int /\ pos + 1 <= end
      BY <1>0, <1>16, <1>17
    <3>5. (pos + 2) - i <= READ_BUFFER + (MAX_LENGTH - 1)
      BY <1>11, <2>3, <2>4, <3>4
    <3>6. o <= OUT_BUFFER
      BY <1>11, <3>1, <3>2, <3>3, <3>4, <3>5
    <3> QED BY <3>6 DEF o
  <2> QED BY <1>0, <1>1, <1>2, <1>5, <1>10, <1>11, <2>2, <2>10
<1> QED BY <1>12, <1>13, <1>14, <1>15, <1>22, <1>23

(***************************************************************************)
(* The invariant holds however the input is cut into reads.                *)
(***************************************************************************)
THEOREM SpellInvariant == Spec => []SpellInv
<1>1. ASSUME SpellInv, [Next]_vars PROVE SpellInv'
  <2> USE <1>1
  <2>1. CASE UNCHANGED vars
    <3>1. TypeOK' /\ BuildInv' /\ WordInv'
      BY <2>1 DEF vars, SpellInv, TypeOK, BuildInv, WordInv
    <3>2. StreamInv' /\ RoomInv'
      BY <2>1 DEF vars, SpellInv, StreamInv, RoomInv, Holds
    <3>3. TameInputStaysInBuffers'
      BY <2>1, SameTame DEF vars, SpellInv, TameInputStaysInBuffers
    <3> QED BY <3>1, <3>2, <3>3 DEF SpellInv
  <2>2. ASSUME NEW cnt \in 0 .. READ_BUFFER, Read(cnt) PROVE SpellInv'
    BY <2>2, ReadStep
  <2>3. CASE Build \/ ReadAgain \/ Write
    BY <2>3, BuildStep, ReadAgainStep, WriteStep
  <2>4. CASE Scan
    BY <2>4, AddCharStep, EndWordStep
  <2>5. CASE Ended
    BY <2>1, <2>5 DEF Ended
  <2> QED BY <2>1, <2>2, <2>3, <2>4, <2>5 DEF Next
<1> QED BY <1>1, SpellInit, PTL DEF Spec

\* Type correctness: until a write outside a buffer, the word and the output
\* lie in theirs.  (level0.c main)
THEOREM SpellTypes == Spec => []TypeOK
<1>1. SpellInv => TypeOK
  BY DEF SpellInv
<1> QED BY <1>1, SpellInvariant, PTL

(***************************************************************************)
(* For every input and every way it arrives, what is written when a read   *)
(* comes back is the filtered form of all that was read before, and of the *)
(* whole input at its end.  (level0.c main)                                *)
(***************************************************************************)
THEOREM SpellFiltersStream == Spec => []FiltersStream
<1>1. SpellInv => FiltersStream
  <2> SUFFICES ASSUME SpellInv, pc \in {"read", "exit"}, ~shared
               PROVE  /\ written = Filtered(data, input)[end]
                      /\ pc = "exit" /\ ~early => written = Filtered(data, input)[Len(input)]
    BY DEF FiltersStream
  <2>1. output = <<>> /\ pos = end /\ written \in Seq(Out)
    BY DEF SpellInv, TypeOK, Out
  <2>2. written \o <<>> = written
    BY <2>1, ConcatEmptySeq
  <2> QED BY <2>1, <2>2 DEF SpellInv, StreamInv
<1> QED BY <1>1, SpellInvariant, PTL

(***************************************************************************)
(* Whatever the hash functions, no word of the dictionary is marked: a     *)
(* Bloom filter has no false negatives, and both programs fold the letters *)
(* in the same way.  (bloom.c main, level0.c write_word)                   *)
(***************************************************************************)
THEOREM SpellKnownWordsPass == Spec => []KnownWordsPass
<1>1. SpellInv => KnownWordsPass
  <2> SUFFICES ASSUME SpellInv, pc # "build", NEW w, NEW d \in Words,
                      [j \in 1 .. Len(w) |-> Lower[w[j]]] = [j \in 1 .. Len(d) |-> Lower[d[j]]]
               PROVE  WriteWord(data, w) = w
    BY DEF KnownWordsPass
  <2>1. PICK i \in 1 .. Len(Dictionary) :
          d = Dictionary[i] /\ Dictionary[i][1] \notin Upper /\ (i = Len(Dictionary) => LastNewline)
    BY DEF Words
  <2>2. Stored(i) = d /\ ~Capital(i)
    BY <2>1 DEF Stored, Capital
  <2>3. HashOf(d) \subseteq data
    BY <2>1, <2>2 DEF SpellInv, BuildInv
  <2>4. HashOf(w) = HashOf(d)
    BY DEF HashOf
  <2> QED BY <2>3, <2>4 DEF WriteWord, Known
<1> QED BY <1>1, SpellInvariant, PTL

(***************************************************************************)
(* Whatever the sizes of the three buffers, an input whose words fit and   *)
(* that is not too dense in unknown words never overflows word or output,  *)
(* however it is cut into reads.  (level0.c main)                          *)
(***************************************************************************)
THEOREM SpellStaysInBuffers == Spec => []TameInputStaysInBuffers
<1>1. SpellInv => TameInputStaysInBuffers
  BY DEF SpellInv
<1> QED BY <1>1, SpellInvariant, PTL
=============================================================================
