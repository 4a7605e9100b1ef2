-------------------------------- MODULE Spell --------------------------------
(***************************************************************************)
(* The spell filter of level0.  bloom.c fills a Bloom filter from a        *)
(* dictionary at build time; level0.c copies standard input to standard    *)
(* output and puts every word the filter does not know in angle brackets.  *)
(*                                                                         *)
(* Input arrives in reads of any size up to READ_BUFFER, so a word may lie *)
(* across two reads; standard input is non-blocking, so a read may find    *)
(* nothing and end the program; a word is collected into MAX_LENGTH bytes  *)
(* and the output of one read into OUT_BUFFER bytes, neither checked.      *)
(* Once a byte is written outside its buffer, what follows is undefined    *)
(* and not modelled any further.                                           *)
(*                                                                         *)
(* The eleven 22-bit values of hash.c are a set of bit positions.          *)
(***************************************************************************)
EXTENDS Integers, Sequences, FiniteSets, SequencesExt

CONSTANTS Char,          \* characters
          Inputs,        \* the inputs considered
          Separator,     \* newline and space
          Upper,         \* upper-case letters
          Lower,         \* tolower, as a function on characters
          Dictionary,    \* its lines, without the newline and shorter
                         \* than bloom.c's line[64]
          LastNewline,   \* does the last line end with a newline?
          Hash(_),       \* the bits that hash.c computes of a lower-case word
          MAX_LENGTH, READ_BUFFER, OUT_BUFFER

ASSUME SpellAssumption ==
    /\ MAX_LENGTH \in Nat \ {0} /\ READ_BUFFER \in Nat \ {0} /\ OUT_BUFFER \in Nat
    /\ Inputs \subseteq Seq(Char)
    /\ LastNewline \in BOOLEAN
    /\ Dictionary \in Seq(Seq(Char)) /\ \A i \in 1 .. Len(Dictionary) : Dictionary[i] # <<>>

VARIABLES
    pc,        \* "build", "read", "scan", "exit" or "undefined"
    data,      \* the bits of the filter that are set
    line,      \* lines of the dictionary read
    input,     \* all of standard input
    shared,    \* do standard input and output share their file status flags?
    pos, end,  \* characters of it scanned, and read
    word,      \* the first word_pos characters of word
    output,    \* the first out_pos characters of output
    written,   \* standard output
    early      \* the last read failed with EAGAIN

vars == <<pc, data, line, input, shared, pos, end, word, output, written, early>>

-----------------------------------------------------------------------------
\* Mutant of HashOf: letters are not folded.
HashOfAsIs(w) == Hash(w)

\* hash(string, output): the bits of the word in lower case.
HashOf(w) == Hash([i \in 1 .. Len(w) |-> Lower[w[i]]])

\* What fgets and line[strlen(line)-1] = 0 leave of a line.
Stored(i) ==
    IF i = Len(Dictionary) /\ ~LastNewline THEN Front(Dictionary[i]) ELSE Dictionary[i]

\* isupper(line[0]), after the cut: of an empty line, that is a NUL.
Capital(i) == Stored(i) # <<>> /\ Stored(i)[1] \in Upper

Known(bits, w) == HashOf(w) \subseteq bits

\* The characters write_word puts out, given the bits of the filter.  Its
\* argument all_alpha is always 1: the test if(!isalpha) is of the function's
\* address.
WriteWord(bits, w) ==
    IF w = <<>> \/ Known(bits, w) THEN w ELSE <<"<">> \o w \o <<">">>

-----------------------------------------------------------------------------
Init ==
    /\ pc = "build" /\ data = {} /\ line = 0
    /\ input \in Inputs /\ shared \in BOOLEAN
    /\ pos = 0 /\ end = 0
    /\ word = <<>> /\ output = <<>> /\ written = <<>>
    /\ early = FALSE

\* One round of bloom.c's loop; lines that begin with a capital are left out.
Build ==
    /\ pc = "build"
    /\ IF line = Len(Dictionary)
       THEN pc' = "read" /\ UNCHANGED <<data, line>>
       ELSE /\ line' = line + 1
            /\ data' = IF Capital(line + 1) THEN data
                       ELSE data \cup HashOf(Stored(line + 1))
            /\ UNCHANGED pc
    /\ UNCHANGED <<input, shared, pos, end, word, output, written, early>>

\* Mutant of Read: the word begun in the last read is dropped.
ReadAnew(cnt) ==
    /\ pc = "read" /\ end + cnt <= Len(input)
    /\ end' = end + cnt
    /\ pc' = IF cnt > 0 THEN "scan" ELSE "exit"
    /\ cnt = 0 => end = Len(input)
    /\ word' = <<>>
    /\ UNCHANGED <<data, line, input, shared, pos, output, written, early>>

\* read(0, buffer, READ_BUFFER) returns cnt characters, 0 at the end.
Read(cnt) ==
    /\ pc = "read" /\ end + cnt <= Len(input)
    /\ end' = end + cnt
    /\ pc' = IF cnt > 0 THEN "scan" ELSE "exit"
    /\ cnt = 0 => end = Len(input)
    /\ UNCHANGED <<data, line, input, shared, pos, word, output, written, early>>

\* It returns -1: O_NONBLOCK is set and there is nothing to read yet.
ReadAgain ==
    /\ pc = "read" /\ pc' = "exit" /\ early' = TRUE
    /\ UNCHANGED <<data, line, input, shared, pos, end, word, output, written>>

\* A separator: write_word ends the word with a NUL and puts it out, then the
\* separator follows.
EndWord(c) ==
    LET out == output \o (WriteWord(data, word) \o <<c>>)
    IN  /\ output' = out /\ word' = <<>>
        /\ pc' = IF Len(word) >= MAX_LENGTH \/ Len(out) > OUT_BUFFER
                 THEN "undefined" ELSE "scan"

\* Mutant of AddChar: one character too many is let into the buffer.
AddCharPast(c) ==
    /\ word' = Append(word, c)
    /\ pc' = IF Len(word) > MAX_LENGTH THEN "undefined" ELSE "scan"
    /\ UNCHANGED output

\* Any other character is added to the word.
AddChar(c) ==
    /\ word' = Append(word, c)
    /\ pc' = IF Len(word) >= MAX_LENGTH THEN "undefined" ELSE "scan"
    /\ UNCHANGED output

\* One round of the loop over the buffer.
Scan ==
    /\ pc = "scan" /\ pos < end
    /\ pos' = pos + 1
    /\ IF input[pos + 1] \in Separator THEN EndWord(input[pos + 1]) ELSE AddChar(input[pos + 1])
    /\ UNCHANGED <<data, line, input, shared, end, written, early>>

\* Mutant of Write: out_pos is not reset.
WriteKeeping ==
    /\ pc = "scan" /\ pos = end /\ pc' = "read"
    /\ \E k \in IF shared THEN 0 .. Len(output) ELSE {Len(output)} :
         written' = written \o SubSeq(output, 1, k)
    /\ UNCHANGED <<data, line, input, shared, pos, end, word, output, early>>

\* write(1, output, out_pos), whose result is not looked at.  When the two
\* descriptors share their flags, standard output is non-blocking too and
\* may take only part of it.
Write ==
    /\ pc = "scan" /\ pos = end /\ pc' = "read"
    /\ \E k \in IF shared THEN 0 .. Len(output) ELSE {Len(output)} :
         written' = written \o SubSeq(output, 1, k)
    /\ output' = <<>>
    /\ UNCHANGED <<data, line, input, shared, pos, end, word, early>>

Ended == pc \in {"exit", "undefined"} /\ UNCHANGED vars

Next ==
    \/ Build \/ (\E cnt \in 0 .. READ_BUFFER : Read(cnt)) \/ ReadAgain
    \/ Scan \/ Write \/ Ended

Spec == Init /\ [][Next]_vars

-----------------------------------------------------------------------------
\* Types of the program's state.
TypeOK ==
    /\ pc \in {"build", "read", "scan", "exit", "undefined"}
    /\ line \in 0 .. Len(Dictionary)
    /\ data \subseteq UNION {HashOf(Stored(i)) : i \in 1 .. line}
    /\ input \in Inputs /\ shared \in BOOLEAN /\ early \in BOOLEAN
    /\ pos \in 0 .. end /\ end \in 0 .. Len(input)
    /\ word \in Seq(Char \ Separator)
    /\ output \in Seq(Char \cup {"<", ">"}) /\ written \in Seq(Char \cup {"<", ">"})
    /\ pc # "scan" => pos = end \/ pc = "undefined"
    /\ pc # "undefined" => Len(word) <= MAX_LENGTH /\ Len(output) <= OUT_BUFFER
    /\ pc \in {"build", "read", "exit"} => output = <<>>

\* The word that is open after n characters of a text begins at place k; the
\* word that ends before place i.
Begins(s, k, n) ==
    /\ k > 1 => s[k - 1] \in Separator
    /\ \A j \in k .. n : s[j] \notin Separator
WordBefore(s, i) == SubSeq(s, CHOOSE k \in 1 .. i : Begins(s, k, i - 1), i - 1)

\* What a character of a text adds to its filtered form: a separator ends a
\* word.  The filtered form of the first n characters, for each n.
Piece(bits, s, i) ==
    IF s[i] \in Separator THEN WriteWord(bits, WordBefore(s, i)) \o <<s[i]>> ELSE <<>>
Filtered(bits, s) ==
    LET first[n \in 0 .. Len(s)] == IF n = 0 THEN <<>> ELSE first[n - 1] \o Piece(bits, s, n)
    IN  first

(***************************************************************************)
(* The output does not depend on how the input arrives: whatever the reads *)
(* were, what has been written is the filtered form of the input up to the *)
(* last separator that was read, and at the end of the input of all of it; *)
(* what comes after the last separator is never written.  (level0.c main)  *)
(***************************************************************************)
FiltersStream ==
    pc \in {"read", "exit"} /\ ~shared =>
        /\ written = Filtered(data, input)[end]
        /\ pc = "exit" /\ ~early => written = Filtered(data, input)[Len(input)]

\* The words of the dictionary that bloom.c neither leaves out nor cuts short.
Words == {Dictionary[i] : i \in {j \in 1 .. Len(Dictionary) :
            Dictionary[j][1] \notin Upper /\ (j = Len(Dictionary) => LastNewline)}}

(***************************************************************************)
(* A word of the dictionary is never marked, in whatever case it is        *)
(* written: the bits that bloom.c sets for it are the bits that write_word *)
(* asks for, and no later line clears one.                                 *)
(***************************************************************************)
KnownWordsPass ==
    pc # "build" => \A i \in {j \in 1 .. end : input[j] \in Separator} :
        LET w == WordBefore(input, i)
        IN  (\E d \in Words : [j \in 1 .. Len(w) |-> Lower[w[j]]] = [j \in 1 .. Len(d) |-> Lower[d[j]]])
                => WriteWord(data, w) = w

\* The separators from place i to place j of a text that end an unknown word.
Marked(bits, s, i, j) ==
    {n \in i .. j : /\ n <= Len(s) /\ s[n] \in Separator
                    /\ WriteWord(bits, WordBefore(s, n)) # WordBefore(s, n)}

\* Inputs whose words are shorter than MAX_LENGTH and of which no READ_BUFFER
\* characters end more unknown words than the output buffer has room to mark.
Tame ==
    /\ \A i \in 1 .. Len(input) : input[i] \in Separator => Len(WordBefore(input, i)) < MAX_LENGTH
    /\ \E k \in 1 .. Len(input) + 1 :
         Begins(input, k, Len(input)) /\ Len(input) + 1 - k < MAX_LENGTH
    /\ \A i \in 1 .. Len(input) :
         2 * Cardinality(Marked(data, input, i, i + READ_BUFFER - 1))
            <= OUT_BUFFER - READ_BUFFER - (MAX_LENGTH - 1)

(***************************************************************************)
(* No byte is written outside word or output when the input is tame: with  *)
(* the sizes of the code, words of at most 63 letters and at most 483      *)
(* unknown words in 2048 characters.                                       *)
(***************************************************************************)
TameInputStaysInBuffers == Tame /\ pc # "build" => pc # "undefined"
=============================================================================
