--------------------------- MODULE CudaHasherProofs ---------------------------
(***************************************************************************)
(* Proofs about force_hash on the GPU, for every grid, number of rounds    *)
(* and range of i.                                                         *)
(***************************************************************************)
EXTENDS CudaHasher, TLAPS

\* *d_result is 0 before a launch, and in a grid it holds a hit of the grid.
ResultInv ==
    /\ pc = "loop" => result = 0
    /\ pc = "grid" /\ result # 0 =>
          result - 1 \in Ids /\ H!Winning(hash[<<i, result - 1>>])

\* What the rounds of a grid have left behind.  A thread that still runs has
\* not hit; a hit in a past round, even one a thread skipped by its break,
\* means that the result is set; a first hit is not larger than the result.
RoundInv ==
    pc = "grid" => \A t \in Thread, r \in 0 .. Rounds - 1 : r < round[t] =>
        /\ H!Winning(hash[<<i, Id(t, r)>>]) => result # 0 /\ round[t] = Rounds
        /\ FirstHit(t, i, r) => Id(t, r) + 1 <= result

\* What a search has found.
FoundInv ==
    found => pc = "idle" /\ H!Winning(hash[nonce])

\* The inductive invariant.
HashInv ==
    /\ TypeOK /\ ResultInv /\ RoundInv /\ FoundInv
    /\ NothingSkipped /\ LargestFirstHit

-----------------------------------------------------------------------------
\* The ids of shaforce are natural numbers, one for each thread and round.
LEMMA IdFacts ==
    ASSUME NEW t \in Thread, NEW r \in 0 .. Rounds - 1
    PROVE  Id(t, r) \in Nat /\ Id(t, r) \in Ids
<1>1. t \in Nat /\ r \in Nat /\ Stride \in Nat
  BY GridAssumption DEF Thread
<1>2. r * Stride \in Nat
  BY <1>1
<1>3. Id(t, r) \in Nat
  BY <1>1, <1>2 DEF Id
<1>4. QED
  BY <1>3 DEF Ids

\* So all ids are natural numbers.
LEMMA IdsNat == Ids \subseteq Nat
BY IdFacts DEF Ids

\* The initial states of force_hash's caller satisfy the invariant.
LEMMA InitInv == Init => HashInv
<1> SUFFICES ASSUME Init PROVE HashInv
  OBVIOUS
<1>1. TypeOK
  <2>1. /\ i \in 0 .. Indices - 1
        /\ round \in [Thread -> 0 .. Rounds]
        /\ result \in {0} \cup {id + 1 : id \in Ids}
    BY GridAssumption DEF Init
  <2>2. /\ pc \in {"idle", "loop", "grid"} /\ found \in BOOLEAN /\ stop \in BOOLEAN
        /\ hash \in [Nonces -> Digests] /\ nonce \in Nonces
    BY Zenon DEF Init
  <2>3. QED
    BY <2>1, <2>2 DEF TypeOK
<1>2. pc = "idle" /\ ~found
  BY DEF Init
<1>3. QED
  BY <1>1, <1>2 DEF HashInv, ResultInv, RoundInv, FoundInv, NothingSkipped,
     LargestFirstHit

\* force_hash up to its loop.
LEMMA BeginInv == HashInv /\ Begin => HashInv'
<1> SUFFICES ASSUME HashInv, Begin PROVE HashInv'
  OBVIOUS
<1>1. TypeOK'
  <2>1. /\ i' \in 0 .. Indices - 1
        /\ round' \in [Thread -> 0 .. Rounds]
        /\ result' \in {0} \cup {id + 1 : id \in Ids}
    BY GridAssumption DEF Begin, HashInv, TypeOK
  <2>2. /\ pc' \in {"idle", "loop", "grid"} /\ found' \in BOOLEAN /\ stop' \in BOOLEAN
        /\ hash' \in [Nonces -> Digests] /\ nonce' \in Nonces
    BY Zenon DEF Begin, HashInv, TypeOK
  <2>3. QED
    BY <2>1, <2>2 DEF TypeOK
<1>2. pc' = "loop" /\ result' = 0 /\ i' = 0 /\ ~found'
  BY DEF Begin
<1>3. NothingSkipped'
  BY <1>2 DEF NothingSkipped
<1>4. QED
  BY <1>1, <1>2, <1>3 DEF HashInv, ResultInv, RoundInv, FoundInv, LargestFirstHit

\* The stop flag is not part of what the invariant relates.
LEMMA SetStopInv == HashInv /\ SetStop => HashInv'
BY DEF SetStop, HashInv, TypeOK, ResultInv, RoundInv, FoundInv, NothingSkipped,
       LargestFirstHit, FirstHit, H!Winning

\* The head of the loop: a return, or a new grid.
LEMMA LaunchInv == HashInv /\ Launch => HashInv'
BY GridAssumption
   DEF Launch, HashInv, TypeOK, ResultInv, RoundInv, FoundInv, NothingSkipped,
       LargestFirstHit, FirstHit, Thread, H!Winning

\* A round of a thread of shaforce.
LEMMA StepInv ==
    ASSUME HashInv, NEW t \in Thread, Step(t)
    PROVE  HashInv'
<1> DEFINE n == round[t]
           hit == H!Winning(hash[<<i, Id(t, n)>>])
<1>1. /\ TypeOK /\ pc = "grid" /\ pc' = "grid" /\ n \in 0 .. Rounds - 1
      /\ i' = i /\ hash' = hash /\ stop' = stop /\ found' = found /\ nonce' = nonce
      /\ round' = [round EXCEPT ![t] = IF hit THEN Rounds ELSE n + 1]
      /\ result' = IF hit THEN Larger(result, Id(t, n) + 1) ELSE result
  BY GridAssumption DEF HashInv, TypeOK, Step
<1>2. Id(t, n) \in Nat /\ Id(t, n) \in Ids
  BY <1>1, IdFacts
<1>3. result \in Nat /\ result' \in Nat /\ result <= result'
  BY <1>1, <1>2, IdsNat DEF TypeOK, Larger
<1>4. TypeOK'
  BY <1>1, <1>2, GridAssumption DEF TypeOK, Larger
<1>5. ResultInv'
  <2>1. CASE result' = result
    BY <2>1, <1>1 DEF HashInv, ResultInv, H!Winning
  <2>2. CASE result' # result
    <3>1. hit /\ result' - 1 = Id(t, n)
      BY <2>2, <1>1, <1>2, <1>3 DEF Larger
    <3>2. QED
      BY <3>1, <1>1, <1>2 DEF ResultInv, H!Winning
  <2>3. QED
    BY <2>1, <2>2
<1>6. RoundInv'
  <2> SUFFICES ASSUME NEW u \in Thread, NEW r \in 0 .. Rounds - 1, r < round'[u]
               PROVE  /\ H!Winning(hash[<<i, Id(u, r)>>]) => result' # 0 /\ round'[u] = Rounds
                      /\ FirstHit(u, i, r) => Id(u, r) + 1 <= result'
    BY <1>1 DEF RoundInv, FirstHit, H!Winning
  <2>0. Id(u, r) \in Nat
    BY IdFacts
  <2>1. CASE r < round[u]
    <3>1. /\ H!Winning(hash[<<i, Id(u, r)>>]) => result # 0 /\ round[u] = Rounds
          /\ FirstHit(u, i, r) => Id(u, r) + 1 <= result
      BY <2>1, <1>1 DEF HashInv, RoundInv
    <3>2. u = t => ~H!Winning(hash[<<i, Id(u, r)>>])
      BY <3>1, <1>1, GridAssumption
    <3>3. u # t => round'[u] = round[u]
      BY <1>1 DEF TypeOK
    <3>4. QED
      BY <3>1, <3>2, <3>3, <1>3, <2>0 DEF FirstHit
  <2>2. CASE ~(r < round[u])
    <3>1. u = t
      BY <2>2, <1>1 DEF TypeOK
    <3>2. CASE ~hit
      <4>1. r = n
        BY <3>1, <3>2, <2>2, <1>1 DEF TypeOK
      <4>2. QED
        BY <4>1, <3>1, <3>2 DEF FirstHit
    <3>3. CASE hit
      <4>1. round'[u] = Rounds
        BY <3>1, <3>3, <1>1 DEF TypeOK
      <4>2. result' # 0 /\ Id(t, n) + 1 <= result'
        BY <3>3, <1>1, <1>2, <1>3 DEF Larger
      <4>3. FirstHit(u, i, r) => r = n
        <5>1. r # n => n \in 0 .. r - 1
          BY <2>2, <3>1, <1>1
        <5>2. QED
          BY <5>1, <3>1, <3>3 DEF FirstHit
      <4>4. QED
        BY <4>1, <4>2, <4>3, <3>1
    <3>4. QED
      BY <3>2, <3>3
  <2>3. QED
    BY <2>1, <2>2
<1>7. FoundInv' /\ NothingSkipped' /\ LargestFirstHit'
  BY <1>1 DEF HashInv, FoundInv, NothingSkipped, LargestFirstHit, FirstHit, H!Winning
<1>8. QED
  BY <1>4, <1>5, <1>6, <1>7 DEF HashInv

\* The range of past values of i grows by at most one.
LEMMA RangeGrows ==
    ASSUME NEW a \in Int, NEW b \in Int, b <= a + 1
    PROVE  0 .. b - 1 \subseteq 0 .. a
OBVIOUS

\* The host reads the result of a grid that has ended.
LEMMA CopyInv == HashInv /\ Copy => HashInv'
<1> SUFFICES ASSUME HashInv, Copy PROVE HashInv'
  OBVIOUS
<1>1. /\ TypeOK /\ pc = "grid" /\ found = FALSE
      /\ \A t \in Thread : round[t] = Rounds
      /\ result' = result /\ round' = round /\ hash' = hash /\ stop' = stop
  BY DEF HashInv, TypeOK, FoundInv, Copy
<1>2. result \in Nat
  BY <1>1, IdsNat DEF TypeOK
<1>3. CASE result # 0
  <2>1. pc' = "idle" /\ found' = TRUE /\ nonce' = <<i, result - 1>> /\ i' = i
    BY <1>3 DEF Copy
  <2>2. result - 1 \in Ids /\ H!Winning(hash[<<i, result - 1>>])
    BY <1>1, <1>3 DEF HashInv, ResultInv
  <2>3. TypeOK'
    BY <2>1, <2>2, <1>1 DEF TypeOK, Nonces
  <2>4. LargestFirstHit'
    <3> SUFFICES ASSUME NEW t \in Thread, NEW r \in 0 .. Rounds - 1,
                        FirstHit(t, i, r)
                 PROVE  Id(t, r) <= result - 1
      BY <2>1, <1>1 DEF LargestFirstHit, FirstHit, H!Winning
    <3>1. r < round[t]
      BY <1>1, GridAssumption
    <3>2. Id(t, r) + 1 <= result
      BY <3>1, <1>1 DEF HashInv, RoundInv
    <3>3. QED
      BY <3>2, <1>2, IdFacts
  <2>5. QED
    BY <2>1, <2>2, <2>3, <2>4, <1>1
       DEF HashInv, ResultInv, RoundInv, FoundInv, NothingSkipped, H!Winning
<1>4. CASE result = 0
  <2>1. pc' = "loop" /\ found' = found /\ nonce' = nonce /\ i' = (i + 1) % Indices
    BY <1>4 DEF Copy
  <2>2. i \in 0 .. Indices - 1 /\ i' \in 0 .. Indices - 1 /\ i' <= i + 1
    BY <2>1, <1>1, GridAssumption DEF TypeOK
  <2>3. TypeOK'
    BY <2>1, <2>2, <1>1 DEF TypeOK
  <2>4. \A id \in Ids : ~H!Winning(hash[<<i, id>>])
    <3> SUFFICES ASSUME NEW t \in Thread, NEW r \in 0 .. Rounds - 1
                 PROVE  ~H!Winning(hash[<<i, Id(t, r)>>])
      BY DEF Ids
    <3>1. r < round[t]
      BY <1>1, GridAssumption
    <3>2. QED
      BY <3>1, <1>1, <1>4 DEF HashInv, RoundInv
  <2>5. NothingSkipped'
    <3>1. ASSUME NEW j \in 0 .. i, NEW id \in Ids
          PROVE  ~H!Winning(hash[<<j, id>>])
      <4>1. j = i \/ j \in 0 .. i - 1
        BY <2>2, GridAssumption
      <4>2. QED
        BY <4>1, <2>4, <1>1 DEF HashInv, NothingSkipped
    <3>2. 0 .. i' - 1 \subseteq 0 .. i
      <4>1. i \in Int /\ i' \in Int /\ i' <= i + 1
        BY <2>2, GridAssumption
      <4>2. QED
        BY <4>1, RangeGrows
    <3>3. QED
      BY <3>1, <3>2, <1>1 DEF NothingSkipped, H!Winning
  <2>6. QED
    BY <2>1, <2>3, <2>5, <1>1, <1>4
       DEF HashInv, ResultInv, RoundInv, FoundInv, LargestFirstHit
<1>5. QED
  BY <1>3, <1>4

\* The invariant holds in every reachable state.
THEOREM HasherInvariant == Spec => []HashInv
<1>1. HashInv /\ [Next]_vars => HashInv'
  <2> SUFFICES ASSUME HashInv, [Next]_vars PROVE HashInv'
    OBVIOUS
  <2>1. CASE Next
    BY <2>1, BeginInv, SetStopInv, LaunchInv, StepInv, CopyInv DEF Next
  <2>2. CASE UNCHANGED vars
    BY <2>2 DEF vars, HashInv, TypeOK, ResultInv, RoundInv, FoundInv,
       NothingSkipped, LargestFirstHit, FirstHit, H!Winning
  <2>3. QED
    BY <2>1, <2>2
<1>2. QED
  BY InitInv, <1>1, PTL DEF Spec

\* No value of i that could have won is ever passed over by the host.
THEOREM HasherSkipsNothing == Spec => []NothingSkipped
BY HasherInvariant, PTL DEF HashInv

\* Type correctness of the host's variables and the threads'.
THEOREM HasherTypes == Spec => []TypeOK
BY HasherInvariant, PTL DEF HashInv

\* The nonce reported is the largest first hit, however threads interleave.
THEOREM HasherDeterministic == Spec => []LargestFirstHit
BY HasherInvariant, PTL DEF HashInv

(***************************************************************************)
(* Which difficulties the fixed threshold of the kernel serves: every hit  *)
(* passes the test of the benchmark if and only if the largest hit does,   *)
(* that is, if the difficulty has at most nine zeros.  parse_difficulty,   *)
(* which is there to refuse the others, lets some of them pass.            *)
(* (sha1.cu line 955, common.c lines 87-88, benchmark.c line 77)           *)
(***************************************************************************)
THEOREM DifficultiesServed ==
    /\ \A target \in Digest :
         (\A d \in Digest : H!Winning(d) => Meets(d, target)) <=> Meets(LargestHit, target)
    /\ \E target \in Digest : parse_difficulty(target) /\ ~Meets(LargestHit, target)
<1> DEFINE B == 2 ^ 28
<1>1. B \in Nat /\ 1 < B /\ RestMax \in Nat
  BY GridAssumption, SMT
<1>2. /\ \A d : H!Winning(d) <=> d[1] = 0 /\ d[2] < B
      /\ LargestHit = <<0, B - 1, RestMax>>
  BY DEF H!Winning, LargestHit
<1> HIDE DEF B
<1>3. LargestHit \in Digest /\ H!Winning(LargestHit)
  BY <1>1, <1>2 DEF Digest
<1>4. ASSUME NEW d \in Digest, H!Winning(d) PROVE Meets(d, LargestHit)
  BY <1>1, <1>2, <1>4 DEF Digest, Meets
<1>5. ASSUME NEW d \in Digest, NEW e \in Digest, NEW target \in Digest,
             Meets(d, e), Meets(e, target)
      PROVE  Meets(d, target)
  BY <1>5 DEF Digest, Meets
<1>6. ASSUME NEW target \in Digest
      PROVE  (\A d \in Digest : H!Winning(d) => Meets(d, target)) <=> Meets(LargestHit, target)
  BY <1>3, <1>4, <1>5
<1>7. \E target \in Digest : parse_difficulty(target) /\ ~Meets(LargestHit, target)
  <2>1. <<0, 0, 0>> \in Digest /\ parse_difficulty(<<0, 0, 0>>)
    BY <1>1 DEF Digest, parse_difficulty
  <2>2. ~Meets(LargestHit, <<0, 0, 0>>)
    BY <1>1, <1>2 DEF Meets
  <2> QED BY <2>1, <2>2
<1> QED BY <1>6, <1>7

\* force_hash on the GPU implements the contract that Hasher states.
THEOREM HasherRefinement == Spec => ImplementsHasher
<1>1. Init => H!HInit
  BY DEF Init, H!HInit, phase
<1>2. HashInv /\ [Next]_vars => [H!HNext]_H!hvars
  <2> SUFFICES ASSUME HashInv, [Next]_vars PROVE [H!HNext]_H!hvars
    OBVIOUS
  <2> USE DEF H!HNext, H!hvars, phase
  <2>1. CASE Begin
    BY <2>1 DEF Begin, H!Call
  <2>2. CASE SetStop
    BY <2>2 DEF SetStop, H!SetStop
  <2>3. CASE Launch
    BY <2>3 DEF Launch, H!GiveUp
  <2>4. CASE \E t \in Thread : Step(t)
    BY <2>4 DEF Step
  <2>5. CASE Copy
    <3>1. CASE result # 0
      <4>1. <<i, result - 1>> \in Nonces /\ H!Winning(hash[<<i, result - 1>>])
        BY <2>5, <3>1 DEF Copy, HashInv, TypeOK, ResultInv, Nonces
      <4>2. QED
        BY <2>5, <3>1, <4>1 DEF Copy, H!Find
    <3>2. CASE result = 0
      BY <2>5, <3>2 DEF Copy
    <3>3. QED
      BY <3>1, <3>2
  <2>6. CASE UNCHANGED vars
    BY <2>6 DEF vars
  <2>7. QED
    BY <2>1, <2>2, <2>3, <2>4, <2>5, <2>6 DEF Next
<1>3. QED
  BY <1>1, <1>2, HasherInvariant, PTL DEF Spec, ImplementsHasher, H!HSpec
=============================================================================
