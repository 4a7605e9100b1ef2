----------------------------- MODULE CudaHasher -----------------------------
(***************************************************************************)
(* force_hash on the GPU (cuda.c) and the kernel it launches (shaforce in  *)
(* sha1.cu).  The host launches one grid after another, one per value i of *)
(* the first nonce word; in a grid every thread tries its ids, one per     *)
(* round, and leaves its first hit in *result with atomicMax.  A Step of a *)
(* thread is one round: it touches shared memory only in its atomicMax.    *)
(* cudaMemcpy waits for the grid.  CUDA calls do not fail here.            *)
(***************************************************************************)
EXTENDS Integers, FiniteSets

CONSTANTS Threads,    \* threads of a grid (16384)
          Rounds,     \* rounds of a thread (16)
          Stride,     \* distance of the ids of two rounds (2^24)
          Indices,    \* values of the host's uint32_t i (2^32)
          Digests,    \* the digests that occur
          RestMax     \* largest value of a digest's last three words (2^96 - 1)

\* A digest, or the difficulty of the repository: two words and the rest.
Digest == Nat \X Nat \X (0 .. RestMax)

ASSUME GridAssumption ==
    /\ Threads \in Nat \ {0} /\ Rounds \in Nat \ {0} /\ Indices \in Nat \ {0}
    /\ Stride \in Nat /\ Threads <= Stride
    /\ RestMax \in Nat /\ Digests \subseteq Digest

Thread == 0 .. Threads - 1
Id(t, r) == t + r * Stride          \* global_id | (i << 24)
Ids == {Id(t, r) : t \in Thread, r \in 0 .. Rounds - 1}
Nonces == (0 .. Indices - 1) \X Ids

VARIABLES pc,         \* of the host
          i,          \* of the host: the first nonce word
          result,     \* *d_result
          round,      \* of each thread; Rounds when it has ended
          hash, stop, found, nonce

vars == <<pc, i, result, round, hash, stop, found, nonce>>

phase == IF pc = "idle" THEN "idle" ELSE "search"

H == INSTANCE Hasher

Larger(a, b) == IF a >= b THEN a ELSE b

Init ==
    /\ pc = "idle" /\ i = 0 /\ result = 0
    /\ round = [t \in Thread |-> Rounds]
    /\ hash \in [Nonces -> Digests] /\ stop \in BOOLEAN
    /\ found = FALSE /\ nonce \in Nonces

\* Mutant of Begin: no cudaMemset.
BeginStale ==
    /\ pc = "idle" /\ pc' = "loop" /\ i' = 0
    /\ found' = FALSE
    /\ hash' \in [Nonces -> Digests] /\ stop' \in BOOLEAN
    /\ UNCHANGED <<result, round, nonce>>

\* force_hash up to its loop.
Begin ==
    /\ pc = "idle" /\ pc' = "loop" /\ i' = 0
    /\ result' = 0
    /\ found' = FALSE
    /\ hash' \in [Nonces -> Digests] /\ stop' \in BOOLEAN
    /\ UNCHANGED <<round, nonce>>

SetStop ==
    /\ pc # "idle" /\ ~stop /\ stop' = TRUE
    /\ UNCHANGED <<pc, i, result, round, hash, found, nonce>>

\* while(!(*args->stop)): return, or launch a grid.
Launch ==
    /\ pc = "loop"
    /\ IF stop
       THEN pc' = "idle" /\ UNCHANGED round
       ELSE pc' = "grid" /\ round' = [t \in Thread |-> 0]
    /\ UNCHANGED <<i, result, hash, stop, found, nonce>>

\* Mutant of Step: the hit is stored without the 1.
StepNoMark(t) ==
    /\ pc = "grid" /\ round[t] < Rounds
    /\ LET hit == H!Winning(hash[<<i, Id(t, round[t])>>])
       IN  /\ round' = [round EXCEPT ![t] = IF hit THEN Rounds ELSE @ + 1]
           /\ result' = IF hit THEN Larger(result, Id(t, round[t])) ELSE result
    /\ UNCHANGED <<pc, i, hash, stop, found, nonce>>

\* Mutant of Step: a plain store in place of atomicMax.
StepStore(t) ==
    /\ pc = "grid" /\ round[t] < Rounds
    /\ LET hit == H!Winning(hash[<<i, Id(t, round[t])>>])
       IN  /\ round' = [round EXCEPT ![t] = IF hit THEN Rounds ELSE @ + 1]
           /\ result' = IF hit THEN Id(t, round[t]) + 1 ELSE result
    /\ UNCHANGED <<pc, i, hash, stop, found, nonce>>

\* A round of a thread of shaforce, which ends with its first hit.
Step(t) ==
    /\ pc = "grid" /\ round[t] < Rounds
    /\ LET hit == H!Winning(hash[<<i, Id(t, round[t])>>])
       IN  /\ round' = [round EXCEPT ![t] = IF hit THEN Rounds ELSE @ + 1]
           /\ result' = IF hit THEN Larger(result, Id(t, round[t]) + 1) ELSE result
    /\ UNCHANGED <<pc, i, hash, stop, found, nonce>>

\* Mutant of Copy: the copy does not wait for the grid.
CopyEarly ==
    /\ pc = "grid"
    /\ IF result # 0
       THEN /\ found' = TRUE /\ nonce' = <<i, result - 1>>
            /\ pc' = "idle" /\ UNCHANGED i
       ELSE /\ i' = (i + 1) % Indices
            /\ pc' = "loop" /\ UNCHANGED <<found, nonce>>
    /\ UNCHANGED <<result, round, hash, stop>>

\* cudaMemcpy, then if(*result) ... else i++.
Copy ==
    /\ pc = "grid" /\ \A t \in Thread : round[t] = Rounds
    /\ IF result # 0
       THEN /\ found' = TRUE /\ nonce' = <<i, result - 1>>
            /\ pc' = "idle" /\ UNCHANGED i
       ELSE /\ i' = (i + 1) % Indices
            /\ pc' = "loop" /\ UNCHANGED <<found, nonce>>
    /\ UNCHANGED <<result, round, hash, stop>>

Next == Begin \/ SetStop \/ Launch \/ (\E t \in Thread : Step(t)) \/ Copy

Spec == Init /\ [][Next]_vars

\* The GPU runs every thread of a grid and the host runs on.
Fairness == WF_vars(Launch) /\ WF_vars(Copy) /\ \A t \in Thread : WF_vars(Step(t))

FairSpec == Spec /\ Fairness

-----------------------------------------------------------------------------
\* Types of the host's and the grid's state.
TypeOK ==
    /\ pc \in {"idle", "loop", "grid"} /\ i \in 0 .. Indices - 1
    /\ result \in {0} \cup {id + 1 : id \in Ids}
    /\ round \in [Thread -> 0 .. Rounds]
    /\ hash \in [Nonces -> Digests] /\ stop \in BOOLEAN
    /\ found \in BOOLEAN /\ nonce \in Nonces

(***************************************************************************)
(* No nonce is skipped: the host goes from one value of i to the next only *)
(* if no id wins with it, so a grid's rounds cover exactly the ids.        *)
(***************************************************************************)
NothingSkipped ==
    pc # "idle" => \A j \in 0 .. i - 1, id \in Ids : ~H!Winning(hash[<<j, id>>])

\* Thread t of grid j hits first in round r.
FirstHit(t, j, r) ==
    /\ H!Winning(hash[<<j, Id(t, r)>>])
    /\ \A s \in 0 .. r - 1 : ~H!Winning(hash[<<j, Id(t, s)>>])

(***************************************************************************)
(* The nonce does not depend on how the threads interleave: it is the      *)
(* largest of the threads' first hits.                                     *)
(***************************************************************************)
LargestFirstHit ==
    found => \A t \in Thread, r \in 0 .. Rounds - 1 :
                FirstHit(t, nonce[1], r) => Id(t, r) <= nonce[2]

(***************************************************************************)
(* The search keeps the promise of Hasher: it ends with a winning nonce,   *)
(* or without one only once the stop flag is set.                          *)
(***************************************************************************)
ImplementsHasher == H!HSpec

(***************************************************************************)
(* A search ends if some nonce wins, or once the flag is set.              *)
(***************************************************************************)
SearchEnds ==
    (pc # "idle" /\ (stop \/ \E n \in Nonces : H!Winning(hash[n]))) ~> pc = "idle"

-----------------------------------------------------------------------------
(***************************************************************************)
(* The difficulty, which is read and copied to the device, and which the   *)
(* kernel never looks at: a hit is a digest with nine zeros.               *)
(***************************************************************************)

\* parse_difficulty lets a target pass if its first six digits are 0.  Its
\* second test, strcmp(hex_difficulty, "00000000") <= 0, never holds of forty
\* digits: they are the longer string.
parse_difficulty(target) == target[1] < 256

\* The test of the benchmark compares all forty digits.
Meets(d, target) ==
    \/ d[1] < target[1]
    \/ d[1] = target[1] /\ d[2] < target[2]
    \/ d[1] = target[1] /\ d[2] = target[2] /\ d[3] <= target[3]

\* The largest digest that the kernel takes for a hit.
LargestHit == <<0, 2 ^ 28 - 1, RestMax>>
=============================================================================
