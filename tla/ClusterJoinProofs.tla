-------------------------- MODULE ClusterJoinProofs --------------------------
(***************************************************************************)
(* Proofs about how the cluster of level4 comes together, for any number   *)
(* of nodes, any addresses and any number of crashes and elections.        *)
(***************************************************************************)
EXTENDS ClusterJoin, FiniteSetTheorems, SequenceTheorems, TLAPS

\* The steps of ListenAndServe after the join command has committed.
Joined == {"answered", "ready", "listening"}

\* A node that is past joining is a member.
JoinedInv == \A n \in Node : pc[n] \in Joined => n \in members

\* The first node founds the cluster once: while its log is empty there are no
\* members, and it boots only with an empty log.
FoundingInv ==
    /\ First \notin hasLog => members = {}
    /\ pc[First] = "boot" => First \notin hasLog

JoinInv == TypeOK /\ JoinedInv /\ FoundingInv

\* The members that acknowledge are members (SendAppendEntriesRequest goes to
\* peers only).
LEMMA AcksAreMembers == \A n : Acks(n) \subseteq members
  BY DEF Acks

\* Nothing has joined when no process has been started.
LEMMA JoinInvInit == Init => JoinInv
<1> SUFFICES ASSUME Init PROVE JoinInv
  OBVIOUS
<1> USE JoinAssumption
<1>1. TypeOK
  BY DEF Init, TypeOK
<1>2. JoinedInv
  BY DEF Init, JoinedInv, Joined
<1>3. FoundingInv
  BY DEF Init, FoundingInv
<1> QED BY <1>1, <1>2, <1>3 DEF JoinInv

\* Every step of a node, of Raft and of a crash keeps the invariant.
LEMMA JoinInvStep == JoinInv /\ [Next]_vars => JoinInv'
<1> SUFFICES ASSUME JoinInv, [Next]_vars PROVE JoinInv'
  OBVIOUS
<1> USE JoinAssumption DEF JoinInv
<1>1. CASE SelfJoin
  <2>1. members = {}
    BY <1>1 DEF SelfJoin, FoundingInv
  <2>2. TypeOK'
    BY <1>1 DEF SelfJoin, TypeOK, bounds
  <2>3. JoinedInv'
    BY <1>1, <2>1 DEF SelfJoin, TypeOK, JoinedInv, Joined
  <2>4. FoundingInv'
    BY <1>1 DEF SelfJoin, TypeOK, FoundingInv
  <2> QED BY <2>2, <2>3, <2>4
<1>2. ASSUME NEW n \in Node, Start(n) PROVE JoinInv'
  <2>1. TypeOK'
    BY <1>2 DEF Start, TypeOK, raft, bounds
  <2>2. JoinedInv'
    BY <1>2 DEF Start, TypeOK, JoinedInv, Joined, raft
  <2>3. FoundingInv'
    BY <1>2 DEF Start, TypeOK, FoundingInv, raft
  <2> QED BY <2>1, <2>2, <2>3
<1>3. ASSUME NEW n \in Node, Post(n) PROVE JoinInv'
  <2>1. TypeOK'
    BY <1>3 DEF Post, TypeOK, raft, bounds
  <2>2. JoinedInv'
    BY <1>3 DEF Post, TypeOK, JoinedInv, Joined, raft
  <2>3. FoundingInv'
    BY <1>3 DEF Post, TypeOK, FoundingInv, raft
  <2> QED BY <2>1, <2>2, <2>3
<1>4. ASSUME NEW n \in Node, Commit(n) PROVE JoinInv'
  <2>1. PICK acks \in SUBSET Acks(leader) :
          synced' = acks /\ hasLog' = hasLog \cup acks /\ leader \in acks
    BY <1>4 DEF Commit
  <2>2. /\ members' = members \cup {n} /\ proposals' = proposals \ {n}
        /\ pc' = [pc EXCEPT ![n] = IF @ = "posted" THEN "answered" ELSE @]
        /\ leader # None /\ leader' = leader
    BY <1>4 DEF Commit
  <2>3. acks \subseteq members
    BY <2>1, AcksAreMembers
  <2>4. TypeOK'
    BY <1>4, <2>1, <2>2, <2>3 DEF Commit, TypeOK, bounds
  <2>5. JoinedInv'
    BY <2>2 DEF TypeOK, JoinedInv, Joined
  <2>6. members # {}
    BY <2>1, <2>3
  <2>7. FoundingInv'
    BY <2>1, <2>2, <2>6 DEF TypeOK, FoundingInv
  <2> QED BY <2>4, <2>5, <2>7
<1>5. ASSUME NEW n \in Node, Answer(n) PROVE JoinInv'
  <2>1. TypeOK'
    BY <1>5 DEF Answer, TypeOK, raft, bounds
  <2>2. JoinedInv'
    BY <1>5 DEF Answer, TypeOK, JoinedInv, Joined, raft
  <2>3. FoundingInv'
    BY <1>5 DEF Answer, TypeOK, FoundingInv, raft
  <2> QED BY <2>1, <2>2, <2>3
<1>6. ASSUME NEW n \in Node, Listen(n) PROVE JoinInv'
  <2>1. TypeOK'
    BY <1>6 DEF Listen, TypeOK, raft, bounds
  <2>2. JoinedInv'
    BY <1>6 DEF Listen, TypeOK, JoinedInv, Joined, raft
  <2>3. FoundingInv'
    BY <1>6 DEF Listen, TypeOK, FoundingInv, raft
  <2> QED BY <2>1, <2>2, <2>3
<1>7. ASSUME NEW n \in Node, Replicate(n) PROVE JoinInv'
  <2>1. TypeOK'
    BY <1>7 DEF Replicate, TypeOK, bounds
  <2>2. JoinedInv'
    BY <1>7 DEF Replicate, JoinedInv
  <2>3. FoundingInv'
    BY <1>7 DEF Replicate, FoundingInv
  <2> QED BY <2>1, <2>2, <2>3
<1>8. ASSUME NEW n \in Node, Elect(n) PROVE JoinInv'
  <2>1. /\ n \in synced /\ leader' = n
        /\ pc' = [m \in Node |-> IF pc[m] = "posted" THEN "joining" ELSE pc[m]]
        /\ UNCHANGED <<members, hasLog, synced, sockets, seen, crashes>>
    BY <1>8 DEF Elect
  <2>2. elections' \in 0 .. MaxElections
    BY <1>8 DEF Elect, TypeOK
  <2>3. proposals' \subseteq Node
    BY <1>8 DEF Elect, Orphaned, TypeOK
  <2>4. TypeOK'
    BY <2>1, <2>2, <2>3 DEF TypeOK
  <2>5. JoinedInv'
    BY <2>1 DEF JoinedInv, Joined
  <2>6. FoundingInv'
    BY <2>1 DEF FoundingInv
  <2> QED BY <2>4, <2>5, <2>6
<1>9. ASSUME NEW n \in Node, Crash(n) PROVE JoinInv'
  <2>1. /\ pc' = [m \in Node |-> IF m = n THEN "down"
                                 ELSE IF n = First THEN Failing(pc[m]) ELSE pc[m]]
        /\ UNCHANGED <<members, hasLog, synced, sockets, seen, elections>>
        /\ crashes' \in 0 .. MaxCrashes
    BY <1>9 DEF Crash, TypeOK
  <2>2. leader' \in members \cup {None} /\ proposals' \subseteq Node
    BY <1>9 DEF Crash, Orphaned, TypeOK
  <2>3. TypeOK'
    BY <2>1, <2>2 DEF TypeOK, Failing
  <2>4. JoinedInv'
    BY <2>1 DEF JoinedInv, Joined, Failing
  <2>5. FoundingInv'
    BY <2>1 DEF FoundingInv, Failing
  <2> QED BY <2>3, <2>4, <2>5
<1>10. ASSUME NEW n \in Node, CleanUp(n) PROVE JoinInv'
  <2>1. TypeOK'
    BY <1>10 DEF CleanUp, TypeOK, raft, bounds
  <2>2. JoinedInv'
    BY <1>10 DEF CleanUp, TypeOK, JoinedInv, Joined, raft
  <2>3. FoundingInv'
    BY <1>10 DEF CleanUp, TypeOK, FoundingInv, raft
  <2> QED BY <2>1, <2>2, <2>3
<1>11. CASE UNCHANGED vars
  BY <1>11 DEF vars, TypeOK, JoinedInv, FoundingInv
<1> QED
  BY <1>1, <1>2, <1>3, <1>4, <1>5, <1>6, <1>7, <1>8, <1>9, <1>10, <1>11
  DEF Next, NodeStep

(***************************************************************************)
(* The inductive invariant holds throughout: whatever crashes, retries and *)
(* elections happen on the way, nodes past Join are members, and the       *)
(* cluster is founded once.                                                *)
(***************************************************************************)
THEOREM JoinInvariant == Spec => []JoinInv
<1>1. Init => JoinInv
  BY JoinInvInit
<1>2. JoinInv /\ [Next]_vars => JoinInv'
  BY JoinInvStep
<1> QED BY <1>1, <1>2, PTL DEF Spec

(***************************************************************************)
(* Type correctness: in particular logs are only held by members and only  *)
(* a member leads.                                                         *)
(***************************************************************************)
THEOREM JoinTypes == Spec => []TypeOK
<1>1. JoinInv => TypeOK
  BY DEF JoinInv
<1> QED BY <1>1, JoinInvariant, PTL

(***************************************************************************)
(* A node that listens (cluster.go ListenAndServe) is a member of the      *)
(* cluster.                                                                *)
(***************************************************************************)
THEOREM JoinServesAsMember == Spec => []ServesAsMember
<1>1. JoinInv => ServesAsMember
  BY DEF JoinInv, JoinedInv, Joined, ServesAsMember
<1> QED BY <1>1, JoinInvariant, PTL

-----------------------------------------------------------------------------
\* The members that have joined and never listened.
Absent == (members \ seen) \ {First}

\* Whoever holds a log entry got it by listening, or founded the cluster; the
\* leader is one of them.
SeenInv ==
    /\ \A n \in Node : pc[n] = "listening" => n \in seen
    /\ hasLog \subseteq seen \cup {First}
    /\ leader # None => leader \in hasLog

AbsentInv == JoinInv /\ SeenInv /\ AbsentAtMostHalf

\* A majority outside the absent members leaves room for one more of them.
LEMMA RoomForOne ==
    ASSUME NEW M, IsFiniteSet(M), NEW A \in SUBSET M, NEW B \in SUBSET M,
           A \cap B = {}, 2 * Cardinality(B) > Cardinality(M)
    PROVE  2 * Cardinality(A) + 1 <= Cardinality(M)
<1>1. IsFiniteSet(A) /\ IsFiniteSet(B)
  BY FS_Subset
<1>2. /\ Cardinality(A) \in Nat /\ Cardinality(B) \in Nat /\ Cardinality(M) \in Nat
  BY <1>1, FS_CardinalityType
<1>3. Cardinality(A \cup B) = Cardinality(A) + Cardinality(B) - Cardinality(A \cap B)
  BY <1>1, FS_Union
<1>4. Cardinality(A \cap B) = 0
  BY FS_EmptySet
<1>5. Cardinality(A \cup B) <= Cardinality(M)
  <2>1. A \cup B \in SUBSET M
    OBVIOUS
  <2> QED BY <2>1, FS_Subset
<1> QED BY <1>2, <1>3, <1>4, <1>5

\* Steps that change no member can only make the absent ones fewer.
LEMMA FewerAbsent ==
    ASSUME TypeOK, AbsentAtMostHalf, members' = members, seen \subseteq seen'
    PROVE  AbsentAtMostHalf'
<1>1. IsFiniteSet(members)
  BY JoinAssumption, FS_Subset DEF TypeOK
<1>2. IsFiniteSet(Absent)
  BY <1>1, FS_Subset DEF Absent
<1>3. Absent' \in SUBSET Absent
  BY DEF Absent
<1>4. IsFiniteSet(Absent') /\ Cardinality(Absent') <= Cardinality(Absent)
  BY <1>2, <1>3, FS_Subset
<1>5. /\ Cardinality(Absent) \in Nat /\ Cardinality(Absent') \in Nat
      /\ Cardinality(members) \in Nat
  BY <1>1, <1>2, <1>4, FS_CardinalityType
<1>6. 2 * Cardinality(Absent) <= Cardinality(members)
  BY DEF AbsentAtMostHalf, Absent
<1>7. 2 * Cardinality(Absent') <= Cardinality(members')
  BY <1>4, <1>5, <1>6
<1> QED BY <1>7 DEF AbsentAtMostHalf, Absent

\* The commit of a join command adds at most one absent member, and only when
\* a majority is not absent.
LEMMA CommitKeepsHalf ==
    ASSUME AbsentInv, NEW n \in Node, Commit(n)
    PROVE  AbsentAtMostHalf'
<1>1. PICK acks \in SUBSET Acks(leader) :
        leader \in acks /\ 2 * Cardinality(acks) > Cardinality(members)
  BY DEF Commit
<1>2. members' = members \cup {n} /\ seen' = seen /\ leader # None
  BY DEF Commit
<1>3. IsFiniteSet(members) /\ IsFiniteSet(Absent)
  <2>1. members \in SUBSET Node
    BY DEF AbsentInv, JoinInv, TypeOK
  <2>2. IsFiniteSet(members)
    BY <2>1, JoinAssumption, FS_Subset
  <2>3. Absent \in SUBSET members
    BY DEF Absent
  <2> QED BY <2>2, <2>3, FS_Subset
<1>4. acks \in SUBSET members
  BY <1>1, AcksAreMembers
<1>5. Absent \cap acks = {}
  BY <1>1, <1>2 DEF Acks, Reachable, Absent, AbsentInv, SeenInv, JoinInv, TypeOK
<1>6. 2 * Cardinality(Absent) + 1 <= Cardinality(members)
  <2>1. Absent \in SUBSET members
    BY DEF Absent
  <2> QED BY <1>1, <1>3, <1>4, <1>5, <2>1, RoomForOne
<1>7. Cardinality(Absent) \in Nat /\ Cardinality(members) \in Nat
  BY <1>3, FS_CardinalityType
<1>8. CASE n \in members
  <2>1. members' = members /\ seen \subseteq seen'
    BY <1>2, <1>8
  <2> QED BY <2>1, FewerAbsent DEF AbsentInv, JoinInv
<1>9. CASE n \notin members
  <2>1. Cardinality(members') = Cardinality(members) + 1
    BY <1>2, <1>3, <1>9, FS_AddElement
  <2>2. /\ IsFiniteSet(Absent \cup {n})
        /\ Cardinality(Absent \cup {n}) = Cardinality(Absent) + 1
    <3>1. n \notin Absent
      BY <1>9 DEF Absent
    <3> QED BY <1>3, <3>1, FS_AddElement
  <2>3. Absent' \in SUBSET (Absent \cup {n})
    BY <1>2 DEF Absent
  <2>4. IsFiniteSet(Absent') /\ Cardinality(Absent') <= Cardinality(Absent \cup {n})
    BY <2>2, <2>3, FS_Subset
  <2>5. Cardinality(Absent') \in Nat /\ Cardinality(Absent \cup {n}) \in Nat
    BY <2>2, <2>4, FS_CardinalityType
  <2>6. 2 * Cardinality(Absent') <= Cardinality(members')
    BY <1>6, <1>7, <2>1, <2>2, <2>4, <2>5
  <2> QED BY <2>6 DEF AbsentAtMostHalf, Absent
<1> QED BY <1>8, <1>9

\* Who has been seen listening, step by step.
LEMMA SeenInvStep == AbsentInv /\ [Next]_vars => SeenInv'
<1> SUFFICES ASSUME AbsentInv, [Next]_vars PROVE SeenInv'
  OBVIOUS
<1> USE JoinAssumption DEF AbsentInv, JoinInv
<1>1. CASE SelfJoin
  BY <1>1 DEF SelfJoin, TypeOK, SeenInv
<1>2. ASSUME NEW n \in Node, Start(n) PROVE SeenInv'
  BY <1>2 DEF Start, TypeOK, SeenInv, raft
<1>3. ASSUME NEW n \in Node, Post(n) PROVE SeenInv'
  BY <1>3 DEF Post, TypeOK, SeenInv, raft
<1>4. ASSUME NEW n \in Node, Commit(n) PROVE SeenInv'
  <2>1. PICK acks \in SUBSET Acks(leader) : hasLog' = hasLog \cup acks
    BY <1>4 DEF Commit
  <2>2. /\ pc' = [pc EXCEPT ![n] = IF @ = "posted" THEN "answered" ELSE @]
        /\ leader # None /\ leader' = leader /\ seen' = seen
    BY <1>4 DEF Commit
  <2>3. acks \subseteq seen \cup {First}
    BY <2>1, <2>2 DEF Acks, Reachable, SeenInv, TypeOK
  <2> QED BY <2>1, <2>2, <2>3 DEF TypeOK, SeenInv
<1>5. ASSUME NEW n \in Node, Answer(n) PROVE SeenInv'
  BY <1>5 DEF Answer, TypeOK, SeenInv, raft
<1>6. ASSUME NEW n \in Node, Listen(n) PROVE SeenInv'
  BY <1>6 DEF Listen, TypeOK, SeenInv, raft
<1>7. ASSUME NEW n \in Node, Replicate(n) PROVE SeenInv'
  BY <1>7 DEF Replicate, Reachable, TypeOK, SeenInv
<1>8. ASSUME NEW n \in Node, Elect(n) PROVE SeenInv'
  BY <1>8 DEF Elect, TypeOK, SeenInv
<1>9. ASSUME NEW n \in Node, Crash(n) PROVE SeenInv'
  <2>1. /\ pc' = [m \in Node |-> IF m = n THEN "down"
                                 ELSE IF n = First THEN Failing(pc[m]) ELSE pc[m]]
        /\ hasLog' = hasLog /\ seen' = seen /\ leader' \in {leader, None}
    BY <1>9 DEF Crash
  <2> QED BY <2>1 DEF SeenInv, Failing
<1>10. ASSUME NEW n \in Node, CleanUp(n) PROVE SeenInv'
  BY <1>10 DEF CleanUp, TypeOK, SeenInv, raft
<1>11. CASE UNCHANGED vars
  BY <1>11 DEF vars, SeenInv
<1> QED
  BY <1>1, <1>2, <1>3, <1>4, <1>5, <1>6, <1>7, <1>8, <1>9, <1>10, <1>11
  DEF Next, NodeStep

\* Only SelfJoin and Commit change the members.
LEMMA AbsentStep == AbsentInv /\ [Next]_vars => AbsentAtMostHalf'
<1> SUFFICES ASSUME AbsentInv, [Next]_vars PROVE AbsentAtMostHalf'
  OBVIOUS
<1>1. CASE SelfJoin
  <2>1. members' = {First} /\ (members' \ seen') \ {First} = {}
    BY <1>1 DEF SelfJoin
  <2>2. Cardinality(members') = 1 /\ Cardinality((members' \ seen') \ {First}) = 0
    BY <2>1, FS_EmptySet, FS_Singleton
  <2>3. 2 * Cardinality((members' \ seen') \ {First}) <= Cardinality(members')
    BY <2>2
  <2> QED BY <2>3 DEF AbsentAtMostHalf
<1>2. ASSUME NEW n \in Node, Commit(n) PROVE AbsentAtMostHalf'
  BY <1>2, CommitKeepsHalf
<1>3. CASE members' = members /\ seen \subseteq seen'
  BY <1>3, FewerAbsent DEF AbsentInv, JoinInv
<1>4. SelfJoin \/ (\E n \in Node : Commit(n)) \/ (members' = members /\ seen \subseteq seen')
  BY DEF Next, NodeStep, Start, Post, Answer, Listen, Replicate, Elect, Crash, CleanUp,
         vars, raft
<1> QED BY <1>1, <1>2, <1>3, <1>4

(***************************************************************************)
(* However many nodes join at the same time (cluster.go joinHandler), and  *)
(* whichever crash on the way, those that are counted as members and have  *)
(* never listened are at most half of the members.                         *)
(***************************************************************************)
THEOREM JoinAbsentAtMostHalf == Spec => []AbsentAtMostHalf
<1>1. Init => AbsentInv
  <2> SUFFICES ASSUME Init PROVE AbsentInv
    OBVIOUS
  <2>1. JoinInv
    BY JoinInvInit
  <2>2. SeenInv
    BY DEF Init, SeenInv
  <2>3. members = {} /\ (members \ seen) \ {First} = {}
    BY DEF Init
  <2>4. AbsentAtMostHalf
    BY <2>3, FS_EmptySet DEF AbsentAtMostHalf
  <2> QED BY <2>1, <2>2, <2>4 DEF AbsentInv
<1>2. AbsentInv /\ [Next]_vars => AbsentInv'
  BY JoinInvStep, SeenInvStep, AbsentStep DEF AbsentInv
<1>3. AbsentInv => AbsentAtMostHalf
  BY DEF AbsentInv
<1> QED BY <1>1, <1>2, <1>3, PTL DEF Spec

-----------------------------------------------------------------------------
(***************************************************************************)
(* Addresses.                                                              *)
(***************************************************************************)
LEMMA ReplaceAllFacts ==
    ASSUME NEW C, NEW s \in Seq(C), NEW old, NEW new \in C
    PROVE  /\ ReplaceAll(s, old, new) \in Seq(C) /\ Len(ReplaceAll(s, old, new)) = Len(s)
           /\ \A i \in 1 .. Len(s) :
                ReplaceAll(s, old, new)[i] = IF s[i] = old THEN new ELSE s[i]
<1>1. Len(s) \in Nat /\ \A i \in 1 .. Len(s) : s[i] \in C
  BY LenProperties, ElementOfSeq
<1> QED BY <1>1 DEF ReplaceAll

\* The part of an address before a port is all of what stood there, if that
\* held no colon.
LEMMA PortIsCut ==
    ASSUME NEW C, NEW s \in Seq(C), NEW port \in Seq(C), port # <<>>, port[1] = ":",
           \A i \in 1 .. Len(s) : s[i] # ":"
    PROVE  BeforeColon(s \o port) = s
<1> DEFINE all == s \o port
           n == Len(s)
           I == {i \in 1 .. Len(all) : all[i] = ":"}
<1>1. n \in Nat /\ Len(port) \in Nat \ {0} /\ all \in Seq(C) /\ Len(all) = n + Len(port)
  BY LenProperties, ConcatProperties, EmptySeq
<1>2. /\ \A i \in 1 .. n : all[i] = s[i]
      /\ all[n + 1] = ":"
  <2>1. \A i \in 1 .. n + Len(port) : all[i] = IF i <= n THEN s[i] ELSE port[i - n]
    BY ConcatProperties
  <2>2. n + 1 \in 1 .. n + Len(port) /\ (n + 1) - n = 1 /\ ~(n + 1 <= n)
        /\ \A i \in 1 .. n : i <= n /\ i \in 1 .. n + Len(port)
    BY <1>1
  <2> HIDE DEF all, n
  <2> QED BY <2>1, <2>2
<1>3. n + 1 \in I /\ I \subseteq Int /\ \A i \in I : n + 1 <= i
  <2>1. n + 1 \in I
    BY <1>1, <1>2
  <2>2. ASSUME NEW i \in I PROVE n + 1 <= i
    <3>1. i \in Nat /\ all[i] = ":" /\ i >= 1
      BY <1>1
    <3>2. ~(i <= n)
      BY <1>2, <3>1
    <3> QED BY <1>1, <3>1, <3>2
  <2> QED BY <2>1, <2>2
<1>4. Min(I) = n + 1
  <2> HIDE DEF I, n
  <2>1. n + 1 \in I /\ \A y \in I : n + 1 <= y
    BY <1>3
  <2>2. \A x \in I : (\A y \in I : x <= y) => x = n + 1
    BY <1>1, <1>3
  <2> QED BY <2>1, <2>2 DEF Min
<1>5. BeforeColon(all) = SubSeq(all, 1, n)
  <2>1. BeforeColon(all) = IF Min(I) = 0 THEN all ELSE SubSeq(all, 1, Min(I) - 1)
    BY <1>3 DEF BeforeColon, SelectInSeq
  <2>2. Min(I) # 0 /\ Min(I) - 1 = n
    <3> HIDE DEF I, n
    <3> QED BY <1>1, <1>4
  <2> HIDE DEF I, n, all
  <2> QED BY <2>1, <2>2
<1>6. SubSeq(all, 1, n) = s
  <2>1. \A i \in 1 .. n : all[i] \in C /\ all[i] = s[i]
    BY <1>2, ElementOfSeq
  <2>2. SubSeq(all, 1, n) \in Seq(C) /\ Len(SubSeq(all, 1, n)) = n
        /\ \A i \in 1 .. n : SubSeq(all, 1, n)[i] = s[i]
    <3> HIDE DEF all
    <3>1. /\ SubSeq(all, 1, n) \in Seq(C)
          /\ Len(SubSeq(all, 1, n)) = IF 1 <= n THEN n - 1 + 1 ELSE 0
          /\ \A i \in 1 .. n - 1 + 1 : SubSeq(all, 1, n)[i] = all[1 + i - 1]
      BY <1>1, <2>1, SubSeqProperties
    <3>2. n - 1 + 1 = n /\ (~(1 <= n) => n = 0) /\ \A i \in 1 .. n : 1 + i - 1 = i
      BY <1>1
    <3> HIDE DEF n
    <3> QED BY <2>1, <3>1, <3>2
  <2> DEFINE q == SubSeq(all, 1, n)
  <2> HIDE DEF all
  <2>3. q \in Seq(C) /\ Len(q) = Len(s) /\ \A i \in 1 .. Len(q) : q[i] = s[i]
    BY <2>2
  <2> HIDE DEF q
  <2>4. q = s
    BY <2>3, SeqEqual
  <2> QED BY <2>4 DEF q
<1> QED BY <1>5, <1>6

(***************************************************************************)
(* Addresses survive their way through the HTTP library (dial.go Encode,   *)
(* Decode, UnixDialer), whatever their length: an address that Encode      *)
(* accepts, a path or one with a port of its own, is dialled as it was     *)
(* given.                                                                  *)
(***************************************************************************)
THEOREM DialledAsGiven ==
    ASSUME NEW C, NEW addr \in Seq(C), NEW alnum, addr # <<>>,
           {"-", "/", ":", "8", "0"} \subseteq C, "-" \notin alnum, ":" \notin alnum,
           Encodable(addr, alnum), Unix(addr) \/ Contains(addr, ":")
    PROVE  Dialled(addr) = addr
<1>0. Len(addr) \in Nat \ {0}
  BY LenProperties, EmptySeq
<1>1. CASE Unix(addr)
  <2> DEFINE enc == ReplaceAll(addr, "/", "-")
             port == <<":", "8", "0">>
             sent == enc \o port
  <2>1. \A i \in 1 .. Len(addr) : addr[i] \in alnum \cup {"/", "."}
    BY <1>1 DEF Encodable
  <2>2. /\ enc \in Seq(C) /\ Len(enc) = Len(addr)
        /\ \A i \in 1 .. Len(addr) : enc[i] = IF addr[i] = "/" THEN "-" ELSE addr[i]
    BY ReplaceAllFacts
  <2> HIDE DEF enc
  <2>3. \A i \in 1 .. Len(enc) : enc[i] # ":"
    BY <2>1, <2>2
  <2>4. port \in Seq(C) /\ port # <<>> /\ port[1] = ":"
    OBVIOUS
  <2> HIDE DEF port
  <2>5. WithPort(Encode(addr)) = sent
    BY <1>1, <2>3 DEF WithPort, Encode, Contains, enc, port
  <2>6. sent[1] \in {"-", "."}
    <3>1. sent[1] = enc[1]
      BY <1>0, <2>2, <2>4, ConcatProperties
    <3>2. enc[1] \in {"-", "."}
      BY <1>0, <1>1, <2>2 DEF Unix
    <3> QED BY <3>1, <3>2
  <2>7. BeforeColon(sent) = enc
    BY <2>2, <2>3, <2>4, PortIsCut
  <2> HIDE DEF sent
  <2>8. Dialled(addr) = ReplaceAll(enc, "-", "/")
    BY <2>5, <2>6, <2>7 DEF Dialled, Decode
  <2> DEFINE dec == ReplaceAll(enc, "-", "/")
  <2>9. /\ dec \in Seq(C) /\ Len(dec) = Len(addr)
        /\ \A i \in 1 .. Len(addr) : dec[i] = IF enc[i] = "-" THEN "/" ELSE enc[i]
    BY <2>2, ReplaceAllFacts
  <2> HIDE DEF dec
  <2>10. \A i \in 1 .. Len(addr) : dec[i] = addr[i]
    BY <2>1, <2>2, <2>9
  <2>11. dec = addr
    BY <2>9, <2>10, SeqEqual
  <2> QED BY <2>8, <2>11 DEF dec
<1>2. CASE ~Unix(addr)
  <2>1. addr[1] # "-" /\ addr[1] # "." /\ Contains(addr, ":")
    BY <1>2 DEF Encodable, Unix
  <2>2. WithPort(Encode(addr)) = addr
    BY <1>2, <2>1 DEF WithPort, Encode
  <2> QED BY <2>1, <2>2 DEF Dialled, Decode
<1> QED BY <1>1, <1>2
=============================================================================
