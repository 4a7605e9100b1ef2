--------------------------- MODULE SqlClusterProofs ---------------------------
(***************************************************************************)
(* Proofs about the replicated table of level4, for any number of nodes,   *)
(* requests, elections and crashes and any statements: the cluster         *)
(* implements one table.                                                   *)
(***************************************************************************)
EXTENDS SqlCluster, SequenceTheorems, WellFoundedInduction, TLAPS

-----------------------------------------------------------------------------
(***************************************************************************)
(* ActionsOf, the actions among the entries of a log, is a recursive       *)
(* function.  That it is well defined, and how it grows with the log, is   *)
(* shown by induction over sets of natural numbers.                        *)
(***************************************************************************)

\* Every nonempty set of natural numbers has a least element.
LEMMA NatLeast ==
    ASSUME NEW T \in SUBSET Nat, T # {}
    PROVE  \E x \in T : \A y \in T : x <= y
<1> DEFINE R == OpToRel(<, Nat)
<1>1. IsWellFoundedOn(R, Nat)
  BY NatLessThanWellFounded
<1>2. \E x \in T : \A y \in T : ~(<<y, x>> \in R)
  <2> HIDE DEF R
  <2> QED BY <1>1, WFMin
<1>3. PICK x \in T : \A y \in T : ~(<<y, x>> \in R)
  BY <1>2
<1>4. \A y \in T : ~(y < x)
  BY <1>3 DEF OpToRel
<1> QED BY <1>4

\* Induction up to a bound, over a set.
LEMMA NatUpTo ==
    ASSUME NEW n \in Nat, NEW S, 0 \in S, \A i \in 0 .. n - 1 : i \in S => i + 1 \in S
    PROVE  0 .. n \subseteq S
<1> SUFFICES ASSUME (0 .. n) \ S # {} PROVE FALSE
  OBVIOUS
<1> DEFINE T == (0 .. n) \ S
<1>0. T \in SUBSET Nat /\ T # {}
  OBVIOUS
<1>1. PICK x \in T : \A y \in T : x <= y
  <2> HIDE DEF T
  <2> QED BY <1>0, NatLeast
<1>2. x # 0 /\ x - 1 \in 0 .. n - 1 /\ x - 1 \in S
  BY <1>1
<1> QED BY <1>1, <1>2

\* What one more entry adds to the actions so far.
Selects(f, entries, i) ==
    f[i] = IF IsAction(entries[i]) THEN Append(f[i - 1], entries[i]) ELSE f[i - 1]

\* f lists the actions of the first i entries, for each i up to n.
Lists(f, entries, n) ==
    /\ f \in [0 .. n -> Seq(Req)] /\ f[0] = <<>>
    /\ \A i \in 1 .. n : Selects(f, entries, i)

\* There is such a function.
LEMMA ListsExists ==
    ASSUME NEW s \in Seq(Entries)
    PROVE  \E f : Lists(f, s, Len(s))
<1> DEFINE S == {n \in 0 .. Len(s) : \E f : Lists(f, s, n)}
<1>0. Len(s) \in Nat
  BY LenProperties
<1>1. 0 \in S
  <2>1. Lists([i \in 0 .. 0 |-> <<>>], s, 0)
    BY DEF Lists
  <2> QED BY <1>0, <2>1
<1>2. ASSUME NEW n \in 0 .. Len(s) - 1, n \in S PROVE n + 1 \in S
  <2>1. PICK f : Lists(f, s, n)
    BY <1>2
  <2>2. s[n + 1] \in Entries
    BY <1>0
  <2> DEFINE e == IF IsAction(s[n + 1]) THEN Append(f[n], s[n + 1]) ELSE f[n]
             g == [i \in 0 .. n + 1 |-> IF i = n + 1 THEN e ELSE f[i]]
  <2>3. e \in Seq(Req)
    BY <2>1, <2>2, AppendProperties DEF Lists, IsAction, Entries
  <2>4. g \in [0 .. n + 1 -> Seq(Req)] /\ g[0] = <<>>
    <3> HIDE DEF e
    <3> QED BY <1>0, <2>1, <2>3 DEF Lists
  <2>5. ASSUME NEW i \in 1 .. n + 1 PROVE Selects(g, s, i)
    <3>1. CASE i = n + 1
      <4>1. g[i] = e /\ g[i - 1] = f[n]
        BY <1>0, <3>1
      <4> QED BY <3>1, <4>1 DEF Selects
    <3>2. CASE i # n + 1
      <4>1. g[i] = f[i] /\ g[i - 1] = f[i - 1] /\ i \in 1 .. n
        BY <1>0, <3>2
      <4> QED BY <2>1, <4>1 DEF Lists, Selects
    <3> QED BY <3>1, <3>2
  <2>6. Lists(g, s, n + 1)
    <3> HIDE DEF g
    <3> QED BY <2>4, <2>5 DEF Lists
  <2> QED BY <1>0, <2>6
<1>3. 0 .. Len(s) \subseteq S
  <2> HIDE DEF S
  <2> QED BY <1>0, <1>1, <1>2, NatUpTo
<1> QED BY <1>0, <1>3

\* Two such functions agree as far as both go.
LEMMA ListsAgree ==
    ASSUME NEW s, NEW n \in Nat, NEW m \in n .. n + 1, NEW f, NEW g, NEW t,
           Lists(f, s, n), Lists(g, t, m), \A i \in 1 .. n : s[i] = t[i]
    PROVE  \A i \in 0 .. n : f[i] = g[i]
<1> DEFINE S == {i \in 0 .. n : f[i] = g[i]}
<1>1. 0 \in S
  BY DEF Lists
<1>2. ASSUME NEW i \in 0 .. n - 1, i \in S PROVE i + 1 \in S
  <2>1. Selects(f, s, i + 1) /\ Selects(g, t, i + 1) /\ (i + 1) - 1 = i
    BY DEF Lists
  <2>2. f[i] = g[i] /\ s[i + 1] = t[i + 1]
    BY <1>2
  <2>3. f[i + 1] = g[i + 1]
    BY <2>1, <2>2 DEF Selects
  <2> QED BY <2>3
<1>3. 0 .. n \subseteq S
  <2> HIDE DEF S
  <2> QED BY <1>1, <1>2, NatUpTo
<1> QED BY <1>3

\* So ActionsOf is the last value of that function.
LEMMA ActionsOfLists ==
    ASSUME NEW s \in Seq(Entries)
    PROVE  \E f : Lists(f, s, Len(s)) /\ ActionsOf(s) = f[Len(s)]
<1> DEFINE B(f, i) == IF i = 0 THEN <<>>
                      ELSE IF IsAction(s[i]) THEN Append(f[i - 1], s[i])
                           ELSE f[i - 1]
           D(f) == f = [i \in 0 .. Len(s) |-> B(f, i)]
           c == CHOOSE f : D(f)
<1>0. Len(s) \in Nat
  BY LenProperties
<1>1. PICK f : Lists(f, s, Len(s))
  BY ListsExists
<1>2. D(f)
  <2>1. ASSUME NEW i \in 0 .. Len(s) PROVE f[i] = B(f, i)
    <3>1. CASE i = 0
      BY <1>1, <3>1 DEF Lists
    <3>2. CASE i # 0
      <4>1. Selects(f, s, i)
        BY <1>0, <1>1, <3>2 DEF Lists
      <4> QED BY <3>2, <4>1 DEF Selects
    <3> QED BY <3>1, <3>2
  <2> HIDE DEF B
  <2> QED BY <1>1, <2>1 DEF Lists
<1>3. D(c) /\ ActionsOf(s) = c[Len(s)]
  <2>1. D(c)
    <3> HIDE DEF D
    <3> QED BY <1>2
  <2>2. ActionsOf(s) = c[Len(s)]
    BY DEF ActionsOf
  <2> QED BY <2>1, <2>2
<1>4. PICK g : D(g) /\ ActionsOf(s) = g[Len(s)]
  <2> HIDE DEF D, c
  <2> QED BY <1>3
<1>5. \A i \in 0 .. Len(s) : g[i] = f[i]
  <2> DEFINE S == {i \in 0 .. Len(s) : g[i] = f[i]}
  <2>1. 0 \in S
    <3>1. g[0] = B(g, 0)
      <4> HIDE DEF B
      <4> QED BY <1>0, <1>4
    <3> QED BY <1>0, <1>1, <3>1 DEF Lists
  <2>2. ASSUME NEW i \in 0 .. Len(s) - 1, i \in S PROVE i + 1 \in S
    <3>1. g[i + 1] = IF IsAction(s[i + 1]) THEN Append(g[(i + 1) - 1], s[i + 1])
                     ELSE g[(i + 1) - 1]
      <4>1. g[i + 1] = B(g, i + 1)
        <5> HIDE DEF B
        <5> QED BY <1>0, <1>4
      <4> QED BY <4>1
    <3>2. Selects(f, s, i + 1) /\ (i + 1) - 1 = i
      BY <1>0, <1>1 DEF Lists
    <3>3. g[i] = f[i]
      BY <2>2
    <3>4. g[i + 1] = f[i + 1]
      BY <3>1, <3>2, <3>3 DEF Selects
    <3> QED BY <1>0, <3>4
  <2>3. 0 .. Len(s) \subseteq S
    <3> HIDE DEF S
    <3> QED BY <1>0, <2>1, <2>2, NatUpTo
  <2> QED BY <2>3
<1> QED BY <1>0, <1>1, <1>4, <1>5

\* The actions of the empty log, and of a log with one more entry.
LEMMA ActionsOfFacts ==
    /\ ActionsOf(<<>>) = <<>>
    /\ \A s \in Seq(Entries) : ActionsOf(s) \in Seq(Req)
    /\ \A s \in Seq(Entries), e \in Entries :
         ActionsOf(Append(s, e)) =
            IF IsAction(e) THEN Append(ActionsOf(s), e) ELSE ActionsOf(s)
<1>1. ActionsOf(<<>>) = <<>>
  <2>1. <<>> \in Seq(Entries) /\ Len(<<>>) = 0
    BY EmptySeq
  <2>2. PICK f : Lists(f, <<>>, 0) /\ ActionsOf(<<>>) = f[0]
    BY <2>1, ActionsOfLists
  <2> QED BY <2>2 DEF Lists
<1>2. ASSUME NEW s \in Seq(Entries) PROVE ActionsOf(s) \in Seq(Req)
  <2>1. PICK f : Lists(f, s, Len(s)) /\ ActionsOf(s) = f[Len(s)]
    BY ActionsOfLists
  <2>2. Len(s) \in 0 .. Len(s)
    BY LenProperties
  <2> QED BY <2>1, <2>2 DEF Lists
<1>3. ASSUME NEW s \in Seq(Entries), NEW e \in Entries
      PROVE  ActionsOf(Append(s, e)) =
               IF IsAction(e) THEN Append(ActionsOf(s), e) ELSE ActionsOf(s)
  <2> DEFINE t == Append(s, e)
  <2>1. /\ t \in Seq(Entries) /\ Len(t) = Len(s) + 1 /\ t[Len(s) + 1] = e
        /\ \A i \in 1 .. Len(s) : s[i] = t[i]
        /\ Len(s) \in Nat
    BY AppendProperties, LenProperties
  <2> HIDE DEF t
  <2>2. PICK f : Lists(f, s, Len(s)) /\ ActionsOf(s) = f[Len(s)]
    BY ActionsOfLists
  <2>3. PICK g : Lists(g, t, Len(t)) /\ ActionsOf(t) = g[Len(t)]
    BY <2>1, ActionsOfLists
  <2>4. Len(t) \in Len(s) .. Len(s) + 1
    BY <2>1
  <2>5. f[Len(s)] = g[Len(s)]
    BY <2>1, <2>2, <2>3, <2>4, ListsAgree
  <2>6. Selects(g, t, Len(s) + 1) /\ (Len(s) + 1) - 1 = Len(s)
    BY <2>1, <2>3 DEF Lists
  <2>7. ActionsOf(t) = IF IsAction(e) THEN Append(ActionsOf(s), e) ELSE ActionsOf(s)
    BY <2>1, <2>2, <2>3, <2>5, <2>6 DEF Selects
  <2> QED BY <2>7 DEF t
<1> QED BY <1>1, <1>2, <1>3

-----------------------------------------------------------------------------
(***************************************************************************)
(* The inductive invariant.                                                *)
(***************************************************************************)
First(i) == ActionsOf(SubSeq(log, 1, i))
Executed == {order[i] : i \in 1 .. Len(order)}

\* Raft's log only grows: the actions of a part of it begin the list of all.
OrderInv ==
    \A i \in 0 .. Len(log) :
        Len(First(i)) <= Len(order) /\ First(i) = SubSeq(order, 1, Len(First(i)))

\* A node's table holds the actions of what it has applied.
TableInv == \A n \in Node : actions[n] = First(applied[n])

\* A statement is proposed and committed at most once, and only after its
\* handler has called Do() on a node that leads.
OnceInv ==
    /\ \A q \in Req : pc[q] \in {"new", "route", "lookup", "peer", "do", "refused"} =>
          q \notin pending /\ q \notin Executed
    /\ \A q \in pending : pc[q] \in {"proposed", "failed"} /\ q \notin Executed

\* What Do() returns is the place of the statement in that list.
PlaceInv ==
    \A q \in Req : pc[q] \in {"done", "get", "wait", "ready", "ok"} =>
        index[q] \in 1 .. Len(order) /\ order[index[q]] = q

\* The node that took a statement lives as long as the statement is open, and
\* when GetWhenReady returns, and still when Get is called, its table is long
\* enough.
HomeInv ==
    \A q \in Req :
        /\ pc[q] \notin {"new", "ok", "refused", "failed"} => home[q] \in Node /\ up[home[q]]
        /\ pc[q] = "ready" => index[q] <= Len(actions[home[q]])

SqlInv == TypeOK /\ OrderInv /\ TableInv /\ OnceInv /\ PlaceInv /\ HomeInv

\* The initial states of the cluster.
LEMMA SqlInit == Init => SqlInv
<1> SUFFICES ASSUME Init PROVE SqlInv
  OBVIOUS
<1>1. order = <<>> /\ log = <<>> /\ Len(log) = 0 /\ Len(order) = 0
  BY ActionsOfFacts DEF Init, order
<1>2. TypeOK
  <2>1. log \in Seq(Entries) /\ pending \in SUBSET Req
    BY DEF Init
  <2>2. actions \in [Node -> Seq(Req)] /\ \A n \in Node : actions[n] = <<>>
    BY DEF Init
  <2>3. leader \in Node /\ view \in [Node -> Node \cup {None}] /\ up \in [Node -> BOOLEAN]
    BY DEF Init
  <2>4. pc \in [Req -> Steps] /\ \A q \in Req : pc[q] = "new"
    BY DEF Init, Steps
  <2>5. /\ at \in [Req -> Node \cup {None}] /\ home \in [Req -> Node \cup {None}]
        /\ index \in [Req -> Nat] /\ elections \in Nat /\ crashes \in Nat
        /\ applied \in [Node -> Nat] /\ \A n \in Node : applied[n] = 0
    BY DEF Init
  <2> QED BY <1>1, <2>1, <2>2, <2>3, <2>4, <2>5 DEF TypeOK
<1>3. First(0) = <<>>
  <2>1. SubSeq(log, 1, 0) = <<>>
    BY SubSeqEmpty
  <2> QED BY <2>1, ActionsOfFacts DEF First
<1>4. OrderInv
  <2>1. SubSeq(<<>>, 1, 0) = <<>>
    BY SubSeqEmpty
  <2>2. ASSUME NEW i \in 0 .. Len(log)
        PROVE  Len(First(i)) <= Len(order) /\ First(i) = SubSeq(order, 1, Len(First(i)))
    <3>1. i = 0
      BY <1>1
    <3>2. First(i) = <<>> /\ Len(First(i)) = 0
      BY <1>3, <3>1
    <3>3. SubSeq(order, 1, 0) = <<>>
      BY <1>1, <2>1
    <3> QED BY <1>1, <3>2, <3>3
  <2> QED BY <2>2 DEF OrderInv
<1>5. TableInv
  BY <1>3 DEF Init, TableInv
<1>6. OnceInv /\ PlaceInv /\ HomeInv
  BY <1>1 DEF Init, OnceInv, PlaceInv, HomeInv, Executed
<1> QED BY <1>2, <1>4, <1>5, <1>6 DEF SqlInv

\* What does not touch the log leaves the order of the actions alone.
LEMMA SameLog ==
    ASSUME SqlInv, log' = log
    PROVE  order' = order /\ Executed' = Executed /\ OrderInv' /\ \A i : First(i)' = First(i)
<1>1. order' = order
  BY DEF order
<1>2. \A i : First(i)' = First(i)
  BY DEF First
<1>3. Executed' = Executed
  BY <1>1 DEF Executed
<1>4. OrderInv'
  BY <1>1, <1>2 DEF SqlInv, OrderInv
<1> QED BY <1>1, <1>2, <1>3, <1>4

\* A list with one more element begins as it did.
LEMMA AppendPrefix ==
    ASSUME NEW S, NEW s \in Seq(S), NEW e \in S, NEW k \in 0 .. Len(s)
    PROVE  SubSeq(Append(s, e), 1, k) = SubSeq(s, 1, k)
<1>1. Append(s, e) \in Seq(S) /\ Len(Append(s, e)) = Len(s) + 1 /\ Len(s) \in Nat
      /\ \A i \in 1 .. Len(s) : Append(s, e)[i] = s[i]
  BY AppendProperties, LenProperties
<1>2. \A i \in 1 .. k : s[i] \in S /\ Append(s, e)[i] \in S
  BY <1>1
<1>3. /\ SubSeq(s, 1, k) \in Seq(S) /\ SubSeq(Append(s, e), 1, k) \in Seq(S)
      /\ Len(SubSeq(s, 1, k)) = k /\ Len(SubSeq(Append(s, e), 1, k)) = k
      /\ \A i \in 1 .. k : SubSeq(s, 1, k)[i] = s[i]
      /\ \A i \in 1 .. k : SubSeq(Append(s, e), 1, k)[i] = Append(s, e)[i]
  BY <1>1, <1>2, SubSeqProperties
<1> QED BY <1>1, <1>3, SeqEqual

\* A new entry is the next action, or none.
LEMMA LogGrows ==
    ASSUME SqlInv, NEW e \in Entries, log' = Append(log, e)
    PROVE  /\ order' = IF IsAction(e) THEN Append(order, e) ELSE order
           /\ \A i \in 0 .. Len(log) : First(i)' = First(i)
           /\ OrderInv'
<1>1. log \in Seq(Entries) /\ Len(log) \in Nat /\ order \in Seq(Req) /\ Len(order) \in Nat
  BY ActionsOfFacts, LenProperties DEF SqlInv, TypeOK, order
<1>2. order' = IF IsAction(e) THEN Append(order, e) ELSE order
  BY <1>1, ActionsOfFacts DEF order
<1>3. ASSUME NEW i \in 0 .. Len(log) PROVE First(i)' = First(i)
  <2>1. SubSeq(log', 1, i) = SubSeq(log, 1, i)
    BY <1>1, AppendPrefix
  <2> QED BY <2>1 DEF First
<1>4. IsAction(e) => e \in Req
  BY DEF IsAction, Entries
<1>5. order' \in Seq(Req) /\ Len(order') \in Nat /\ Len(order) <= Len(order')
      /\ \A k \in 0 .. Len(order) : SubSeq(order', 1, k) = SubSeq(order, 1, k)
  BY <1>1, <1>2, <1>4, AppendProperties, AppendPrefix
<1>6. Len(log') = Len(log) + 1 /\ log' \in Seq(Entries)
  BY <1>1, AppendProperties
<1>7. ASSUME NEW i \in 0 .. Len(log')
      PROVE  Len(First(i)') <= Len(order') /\ First(i)' = SubSeq(order', 1, Len(First(i)'))
  <2>1. CASE i <= Len(log)
    <3>0. i \in 0 .. Len(log)
      BY <1>1, <1>6, <2>1
    <3>1. First(i)' = First(i) /\ Len(First(i)) <= Len(order)
          /\ First(i) = SubSeq(order, 1, Len(First(i)))
      BY <1>3, <3>0 DEF SqlInv, OrderInv
    <3>2. Len(First(i)) \in Nat
      <4>1. SubSeq(log, 1, i) \in Seq(Entries)
        BY <1>1, <3>0, SubSeqProperties
      <4> QED BY <4>1, ActionsOfFacts, LenProperties DEF First
    <3> QED BY <1>1, <1>5, <3>1, <3>2
  <2>2. CASE i = Len(log')
    <3>1. First(i)' = order'
      BY <1>6, <2>2, SubSeqFull DEF First, order
    <3> QED BY <1>5, <3>1, SubSeqFull
  <2> QED BY <1>1, <1>6, <2>1, <2>2
<1>8. OrderInv'
  BY <1>7 DEF OrderInv
<1> QED BY <1>2, <1>3, <1>8

\* A handler's steps, from the arrival of the statement to its response.
LEMMA HandlerInv ==
    ASSUME SqlInv, NEW q \in Req, RequestStep(q) \/ \E n \in Node : Issue(q, n)
    PROVE  SqlInv'
<1> USE DEF raft, nodes, bounds
<1>1. /\ log' = log /\ applied' = applied /\ actions' = actions /\ up' = up
      /\ leader' = leader /\ view' = view /\ index' = index /\ UNCHANGED bounds
  BY DEF RequestStep, Issue, Route, Lookup, Peer, PostFails, Propose, DoFails, Return,
         GetWhenReady, Respond
<1>2. order' = order /\ Executed' = Executed /\ OrderInv' /\ \A i : First(i)' = First(i)
  BY <1>1, SameLog
<1> DEFINE Types == /\ pending \in SUBSET Req /\ pc \in [Req -> Steps]
                    /\ at \in [Req -> Node \cup {None}] /\ home \in [Req -> Node \cup {None}]
           Local == Types /\ OnceInv /\ PlaceInv /\ HomeInv
<1>3. Local
  BY DEF SqlInv, TypeOK
<1> USE DEF Steps, OnceInv, PlaceInv, HomeInv
<1>4. ASSUME NEW n \in Node, Issue(q, n) PROVE Local'
  BY <1>1, <1>2, <1>3, <1>4 DEF Issue
<1>5. ASSUME Route(q) PROVE Local'
  BY <1>1, <1>2, <1>3, <1>5 DEF Route
<1>6. ASSUME Lookup(q) PROVE Local'
  BY <1>1, <1>2, <1>3, <1>6 DEF Lookup
<1>7. ASSUME Peer(q) PROVE Local'
  <2>1. pc[q] = "peer" /\ home' = home /\ pending' = pending
    BY <1>7 DEF Peer
  <2>2. view[home[q]] \in Node \cup {None}
    BY <1>3, <2>1 DEF SqlInv, TypeOK
  <2>3. CASE view[home[q]] \in {None, home[q]}
    BY <1>1, <1>2, <1>3, <1>7, <2>1, <2>3 DEF Peer
  <2>4. CASE view[home[q]] \notin {None, home[q]}
    BY <1>1, <1>2, <1>3, <1>7, <2>1, <2>2, <2>4 DEF Peer
  <2> QED BY <2>3, <2>4
<1>8. ASSUME PostFails(q) PROVE Local'
  BY <1>1, <1>2, <1>3, <1>8 DEF PostFails
<1>9. ASSUME Propose(q) PROVE Local'
  BY <1>1, <1>2, <1>3, <1>9 DEF Propose
<1>10. ASSUME DoFails(q) PROVE Local'
  BY <1>1, <1>2, <1>3, <1>10 DEF DoFails
<1>11. ASSUME Return(q) PROVE Local'
  BY <1>1, <1>2, <1>3, <1>11 DEF Return
<1>12. ASSUME GetWhenReady(q) PROVE Local'
  BY <1>1, <1>2, <1>3, <1>12 DEF GetWhenReady
<1>13. ASSUME Respond(q) PROVE Local'
  BY <1>1, <1>2, <1>3, <1>13 DEF Respond
<1>14. Local'
  BY <1>4, <1>5, <1>6, <1>7, <1>8, <1>9, <1>10, <1>11, <1>12, <1>13 DEF RequestStep
<1>15. TableInv'
  BY <1>1, <1>2 DEF SqlInv, TableInv
<1>16. TypeOK'
  BY <1>1, <1>2, <1>14 DEF SqlInv, TypeOK
<1> QED BY <1>2, <1>14, <1>15, <1>16 DEF SqlInv

\* Raft commits a proposal.
LEMMA CommitInv == ASSUME SqlInv, NEW q \in Req, Commit(q) PROVE SqlInv'
<1> USE DEF nodes, bounds
<1>1. /\ q \in pending /\ log' = Append(log, q) /\ pending' = pending \ {q}
      /\ UNCHANGED <<leader, view, up, applied, actions, pc, at, home, index>>
      /\ UNCHANGED <<elections, crashes>>
  BY DEF Commit
<1>2. q \in Entries /\ IsAction(q)
  BY ClusterAssumption DEF Entries, IsAction
<1>3. /\ order' = Append(order, q) /\ OrderInv'
      /\ \A i \in 0 .. Len(log) : First(i)' = First(i)
  BY <1>1, <1>2, LogGrows
<1>4. order \in Seq(Req) /\ Len(order) \in Nat /\ log \in Seq(Entries) /\ Len(log) \in Nat
  BY ActionsOfFacts, LenProperties DEF SqlInv, TypeOK, order
<1>5. /\ Len(order') = Len(order) + 1 /\ order'[Len(order) + 1] = q
      /\ \A i \in 1 .. Len(order) : order'[i] = order[i]
  BY <1>3, <1>4, AppendProperties
<1>6. Executed' = Executed \cup {q}
  BY <1>4, <1>5 DEF Executed
<1>7. TypeOK'
  <2>1. log' \in Seq(Entries) /\ Len(log') = Len(log) + 1
    BY <1>1, <1>2, <1>4, AppendProperties
  <2> QED BY <1>1, <1>4, <2>1 DEF SqlInv, TypeOK
<1>8. TableInv'
  BY <1>1, <1>3, <1>4 DEF SqlInv, TypeOK, TableInv
<1>9. OnceInv'
  BY <1>1, <1>6 DEF SqlInv, TypeOK, OnceInv
<1>10. PlaceInv'
  BY <1>1, <1>4, <1>5 DEF SqlInv, PlaceInv
<1>11. HomeInv'
  BY <1>1 DEF SqlInv, HomeInv
<1> QED BY <1>3, <1>7, <1>8, <1>9, <1>10, <1>11 DEF SqlInv

\* Raft elects a leader; its NOP is no action.
LEMMA ElectInv == ASSUME SqlInv, NEW n \in Node, Elect(n) PROVE SqlInv'
<1> USE DEF nodes, bounds
<1>1. /\ log' = Append(log, NOP) /\ leader' = n /\ view' = [view EXCEPT ![n] = n]
      /\ elections' = elections + 1
      /\ UNCHANGED <<pending, up, applied, actions, pc, at, home, index, crashes>>
  BY DEF Elect
<1>2. NOP \in Entries /\ ~IsAction(NOP)
  BY DEF Entries, IsAction
<1>3. /\ order' = order /\ OrderInv'
      /\ \A i \in 0 .. Len(log) : First(i)' = First(i)
  BY <1>1, <1>2, LogGrows
<1>4. Executed' = Executed
  BY <1>3 DEF Executed
<1>5. log \in Seq(Entries) /\ Len(log) \in Nat
  BY LenProperties DEF SqlInv, TypeOK
<1>6. TypeOK'
  <2>1. log' \in Seq(Entries) /\ Len(log') = Len(log) + 1
    BY <1>1, <1>2, <1>5, AppendProperties
  <2> QED BY <1>1, <1>5, <2>1 DEF SqlInv, TypeOK
<1>7. TableInv'
  BY <1>1, <1>3, <1>5 DEF SqlInv, TypeOK, TableInv
<1>8. OnceInv' /\ PlaceInv' /\ HomeInv'
  BY <1>1, <1>3, <1>4 DEF SqlInv, OnceInv, PlaceInv, HomeInv
<1> QED BY <1>3, <1>6, <1>7, <1>8 DEF SqlInv

\* A node learns who leads, dies or comes back.
LEMMA NodeInv ==
    ASSUME SqlInv, NEW n \in Node, Learn(n) \/ Crash(n) \/ Restart(n)
    PROVE  SqlInv'
<1> USE DEF raft, nodes, bounds
<1>1. log' = log /\ UNCHANGED <<pending, at, home, index>>
  BY DEF Learn, Crash, Restart
<1>2. order' = order /\ Executed' = Executed /\ OrderInv' /\ \A i : First(i)' = First(i)
  BY <1>1, SameLog
<1>3. CASE Learn(n)
  <2>1. TypeOK'
    BY <1>3 DEF Learn, SqlInv, TypeOK
  <2>2. UNCHANGED <<up, applied, actions, pc>>
    BY <1>3 DEF Learn
  <2>3. TableInv' /\ OnceInv' /\ PlaceInv' /\ HomeInv'
    BY <1>1, <1>2, <2>2 DEF SqlInv, TableInv, OnceInv, PlaceInv, HomeInv
  <2> QED BY <1>2, <2>1, <2>3 DEF SqlInv
<1>4. CASE Crash(n)
  <2>1. /\ up' = [up EXCEPT ![n] = FALSE] /\ UNCHANGED <<leader, view, applied, actions>>
        /\ elections' = elections /\ crashes' = crashes + 1
        /\ pc' = [q \in Req |->
                    IF \/ home[q] = n /\ pc[q] \notin {"new", "ok", "refused", "failed"}
                       \/ at[q] = n /\ pc[q] \in {"proposed", "done"}
                    THEN "failed" ELSE pc[q]]
    BY <1>4 DEF Crash
  <2>2. pc' \in [Req -> Steps] /\ up' \in [Node -> BOOLEAN]
    BY <2>1 DEF SqlInv, TypeOK, Steps
  <2>3. \A q \in Req : pc'[q] # pc[q] => pc'[q] = "failed" /\ pc[q] \notin {"new", "refused"}
    BY <2>1
  <2>4. \A q \in Req : pc'[q] \notin {"new", "ok", "refused", "failed"} => home[q] # n
    BY <2>1
  <2>5. TypeOK'
    BY <1>1, <2>1, <2>2, <2>3 DEF SqlInv, TypeOK
  <2>6. TableInv' /\ PlaceInv'
    BY <1>1, <1>2, <2>1, <2>3 DEF SqlInv, TableInv, PlaceInv
  <2>7. OnceInv'
    BY <1>1, <1>2, <2>3 DEF SqlInv, TypeOK, OnceInv
  <2>8. HomeInv'
    BY <1>1, <2>1, <2>3, <2>4 DEF SqlInv, TypeOK, HomeInv
  <2> QED BY <1>2, <2>5, <2>6, <2>7, <2>8 DEF SqlInv
<1>5. CASE Restart(n)
  <2>1. /\ ~up[n] /\ up' = [up EXCEPT ![n] = TRUE] /\ view' = [view EXCEPT ![n] = None]
        /\ applied' = [applied EXCEPT ![n] = 0] /\ actions' = [actions EXCEPT ![n] = <<>>]
        /\ UNCHANGED <<leader, pc, elections, crashes>>
    BY <1>5 DEF Restart
  <2>2. <<>> \in Seq(Req) /\ Len(log) \in Nat
    BY EmptySeq, LenProperties DEF SqlInv, TypeOK
  <2>3. TypeOK'
    BY <1>1, <2>1, <2>2 DEF SqlInv, TypeOK
  <2>4. First(0) = <<>>
    <3>1. SubSeq(log, 1, 0) = <<>>
      BY SubSeqEmpty
    <3> QED BY <3>1, ActionsOfFacts DEF First
  <2>5. TableInv'
    BY <1>2, <2>1, <2>4 DEF SqlInv, TypeOK, TableInv
  <2>6. OnceInv' /\ PlaceInv'
    BY <1>1, <1>2, <2>1 DEF SqlInv, OnceInv, PlaceInv
  <2>7. HomeInv'
    BY <1>1, <2>1 DEF SqlInv, TypeOK, HomeInv
  <2> QED BY <1>2, <2>3, <2>5, <2>6, <2>7 DEF SqlInv
<1> QED BY <1>3, <1>4, <1>5

\* The next entry of the log, if it is an action, is the next action of a node.
LEMMA NextAction ==
    ASSUME SqlInv, NEW n \in Node, applied[n] < Len(log)
    PROVE  LET e == log[applied[n] + 1]
           IN  /\ e \in Entries
               /\ First(applied[n] + 1) =
                    IF IsAction(e) THEN Append(actions[n], e) ELSE actions[n]
               /\ IsAction(e) => /\ Len(actions[n]) + 1 \in 1 .. Len(order)
                                 /\ order[Len(actions[n]) + 1] = e
<1> DEFINE a == applied[n]
           e == log[a + 1]
<1>1. a \in Nat /\ log \in Seq(Entries) /\ Len(log) \in Nat /\ a + 1 \in 1 .. Len(log)
  BY LenProperties DEF SqlInv, TypeOK
<1>2. e \in Entries
  BY <1>1
<1>3. SubSeq(log, 1, a) \in Seq(Entries)
  BY <1>1, SubSeqProperties
<1>4. SubSeq(log, 1, a + 1) = Append(SubSeq(log, 1, a), e)
  <2>1. SubSeq(log, 1, a + 1) = SubSeq(log, 1, (a + 1) - 1) \o <<log[a + 1]>>
    <3>1. 1 \in 1 .. Len(log) /\ a + 1 \in 1 .. Len(log)
      BY <1>1
    <3> HIDE DEF a
    <3> QED BY <1>1, <3>1, SubSeqRecursiveSecond
  <2>2. (a + 1) - 1 = a
    BY <1>1
  <2> QED BY <1>2, <1>3, <2>1, <2>2, AppendIsConcat
<1>5. First(a + 1) = IF IsAction(e) THEN Append(First(a), e) ELSE First(a)
  BY <1>2, <1>3, <1>4, ActionsOfFacts DEF First
<1>6. First(a) = actions[n] /\ actions[n] \in Seq(Req)
  BY DEF SqlInv, TableInv, TypeOK
<1>7. ASSUME IsAction(e)
      PROVE  Len(actions[n]) + 1 \in 1 .. Len(order) /\ order[Len(actions[n]) + 1] = e
  <2>1. e \in Req
    BY <1>2, <1>7 DEF IsAction, Entries
  <2>2. /\ Len(First(a + 1)) = Len(actions[n]) + 1 /\ Len(actions[n]) \in Nat
        /\ First(a + 1)[Len(actions[n]) + 1] = e
    BY <1>5, <1>6, <1>7, <2>1, AppendProperties, LenProperties
  <2>3. /\ Len(First(a + 1)) <= Len(order)
        /\ First(a + 1) = SubSeq(order, 1, Len(First(a + 1)))
    BY <1>1 DEF SqlInv, OrderInv
  <2>4. order \in Seq(Req) /\ Len(order) \in Nat
    BY <1>1, ActionsOfFacts, LenProperties DEF order
  <2>5. SubSeq(order, 1, Len(actions[n]) + 1)[Len(actions[n]) + 1] = order[Len(actions[n]) + 1]
    BY <2>2, <2>3, <2>4, SubSeqProperties
  <2> QED BY <2>2, <2>3, <2>4, <2>5
<1> QED BY <1>2, <1>5, <1>6, <1>7

\* A node applies the next entry.
LEMMA ApplyInv == ASSUME SqlInv, NEW n \in Node, Apply(n) PROVE SqlInv'
<1> USE DEF raft, bounds
<1> DEFINE e == log[applied[n] + 1]
<1>1. /\ up[n] /\ applied[n] < Len(log) /\ applied' = [applied EXCEPT ![n] = @ + 1]
      /\ UNCHANGED <<leader, view, log, pending, up, at, home, elections, crashes>>
      /\ IF IsAction(e) THEN Put(n, e) ELSE UNCHANGED <<actions, index, pc>>
  BY DEF Apply
<1>2. order' = order /\ Executed' = Executed /\ OrderInv' /\ \A i : First(i)' = First(i)
  BY <1>1, SameLog
<1>3. /\ e \in Entries
      /\ First(applied[n] + 1) = IF IsAction(e) THEN Append(actions[n], e) ELSE actions[n]
      /\ IsAction(e) => /\ Len(actions[n]) + 1 \in 1 .. Len(order)
                        /\ order[Len(actions[n]) + 1] = e
  BY <1>1, NextAction
<1>4. /\ applied[n] \in Nat /\ Len(log) \in Nat
      /\ \A m \in Node : actions[m] \in Seq(Req) /\ Len(actions[m]) \in Nat
  BY LenProperties DEF SqlInv, TypeOK
<1>5. applied' \in [Node -> Nat] /\ \A m \in Node : applied'[m] <= Len(log)
  BY <1>1, <1>4 DEF SqlInv, TypeOK
<1> HIDE DEF e
<1>6. CASE ~IsAction(e)
  <2>1. UNCHANGED <<actions, index, pc>>
    BY <1>1, <1>6
  <2>2. TypeOK'
    BY <1>1, <1>5, <2>1 DEF SqlInv, TypeOK
  <2>3. TableInv'
    BY <1>1, <1>2, <1>3, <1>6, <2>1 DEF SqlInv, TypeOK, TableInv
  <2>4. OnceInv' /\ PlaceInv' /\ HomeInv'
    BY <1>1, <1>2, <2>1 DEF SqlInv, OnceInv, PlaceInv, HomeInv
  <2> QED BY <1>2, <2>2, <2>3, <2>4 DEF SqlInv
<1>7. CASE IsAction(e)
  <2>1. e \in Req
    BY <1>3, <1>7 DEF Entries, IsAction
  <2>2. /\ actions' = [actions EXCEPT ![n] = Append(@, e)]
        /\ index' = [index EXCEPT ![e] = IF at[e] = n /\ pc[e] = "proposed"
                                         THEN Len(actions[n]) + 1 ELSE @]
        /\ pc' = [p \in Req |->
                    IF p = e /\ at[e] = n /\ pc[e] = "proposed" THEN "done"
                    ELSE IF home[p] = n /\ pc[p] = "wait" THEN "get" ELSE pc[p]]
    BY <1>1, <1>7 DEF Put
  <2>3. /\ Append(actions[n], e) \in Seq(Req)
        /\ Len(Append(actions[n], e)) = Len(actions[n]) + 1
    BY <1>4, <2>1, AppendProperties
  <2>4. /\ actions' \in [Node -> Seq(Req)]
        /\ \A m \in Node : actions'[m] = IF m = n THEN Append(actions[n], e) ELSE actions[m]
    BY <2>2, <2>3 DEF SqlInv, TypeOK
  <2>5. index' \in [Req -> Nat] /\ pc' \in [Req -> Steps]
    <3>1. Len(actions[n]) + 1 \in Nat /\ index \in [Req -> Nat] /\ pc \in [Req -> Steps]
      BY <1>4 DEF SqlInv, TypeOK
    <3>2. index' \in [Req -> Nat]
      BY <2>2, <3>1
    <3>3. pc' \in [Req -> Steps]
      BY <2>2, <3>1 DEF Steps
    <3> QED BY <3>2, <3>3
  <2>6. \A p \in Req :
          \/ p = e /\ pc[p] = "proposed" /\ pc'[p] = "done" /\ index'[p] = Len(actions[n]) + 1
          \/ pc[p] = "wait" /\ pc'[p] = "get" /\ index'[p] = index[p]
          \/ pc'[p] = pc[p] /\ index'[p] = index[p]
    BY <2>1, <2>2 DEF SqlInv, TypeOK
  <2>7. PlaceInv'
    BY <1>2, <1>3, <1>7, <2>6 DEF SqlInv, PlaceInv
  <2>8. TypeOK'
    <3>1. \A q \in Req : pc'[q] \in {"done", "get", "wait", "ready", "ok"} => index'[q] > 0
      <4>1. Len(order) \in Nat
        BY ActionsOfFacts, LenProperties DEF SqlInv, TypeOK, order
      <4> QED BY <1>2, <2>7, <4>1 DEF PlaceInv
    <3> QED BY <1>1, <1>5, <2>4, <2>5, <3>1 DEF SqlInv, TypeOK
  <2>9. TableInv'
    BY <1>1, <1>2, <1>3, <1>7, <2>4 DEF SqlInv, TypeOK, TableInv
  <2>10. e \in Executed
    BY <1>3, <1>7 DEF Executed
  <2>11. OnceInv'
    BY <1>1, <1>2, <2>6, <2>10 DEF SqlInv, TypeOK, OnceInv
  <2>12. HomeInv'
    <3> SUFFICES ASSUME NEW p \in Req
                 PROVE  /\ pc'[p] \notin {"new", "ok", "refused", "failed"} =>
                              home[p] \in Node /\ up[home[p]]
                        /\ pc'[p] = "ready" => index'[p] <= Len(actions'[home[p]])
      BY <1>1 DEF HomeInv
    <3>1. /\ pc[p] \notin {"new", "ok", "refused", "failed"} => home[p] \in Node /\ up[home[p]]
          /\ pc[p] = "ready" => index[p] <= Len(actions[home[p]])
      BY DEF SqlInv, HomeInv
    <3>2. index[p] \in Nat
      BY DEF SqlInv, TypeOK
    <3>3. pc'[p] = "ready" => Len(actions[home[p]]) <= Len(actions'[home[p]])
      BY <1>4, <2>3, <2>4, <2>6, <3>1
    <3>4. home[p] \in Node =>
            Len(actions[home[p]]) \in Nat /\ Len(actions'[home[p]]) \in Nat
      BY <1>4, <2>3, <2>4
    <3> QED BY <2>6, <3>1, <3>2, <3>3, <3>4
  <2> QED BY <1>2, <2>7, <2>8, <2>9, <2>11, <2>12 DEF SqlInv
<1> QED BY <1>6, <1>7

(***************************************************************************)
(* The invariant holds in every state: each node's table is the beginning  *)
(* of one list of actions, a statement is in it at most once, and the      *)
(* value that Do() returns is its place there.                             *)
(***************************************************************************)
THEOREM SqlInvariant == Spec => []SqlInv
<1>1. ASSUME SqlInv, [Next]_vars PROVE SqlInv'
  <2>1. CASE UNCHANGED vars
    <3>1. log' = log /\ UNCHANGED vars
      BY <2>1 DEF vars
    <3>2. order' = order /\ Executed' = Executed /\ OrderInv' /\ \A i : First(i)' = First(i)
      BY <1>1, <3>1, SameLog
    <3> QED BY <1>1, <3>1, <3>2
            DEF vars, SqlInv, TypeOK, TableInv, OnceInv, PlaceInv, HomeInv
  <2>2. CASE Next
    <3>1. ASSUME NEW q \in Req, RequestStep(q) \/ \E n \in Node : Issue(q, n) PROVE SqlInv'
      BY <1>1, <3>1, HandlerInv
    <3>2. ASSUME NEW q \in Req, Commit(q) PROVE SqlInv'
      BY <1>1, <3>2, CommitInv
    <3>3. ASSUME NEW n \in Node, Apply(n) PROVE SqlInv'
      BY <1>1, <3>3, ApplyInv
    <3>4. ASSUME NEW n \in Node, Elect(n) PROVE SqlInv'
      BY <1>1, <3>4, ElectInv
    <3>5. ASSUME NEW n \in Node, Learn(n) \/ Crash(n) \/ Restart(n) PROVE SqlInv'
      BY <1>1, <3>5, NodeInv
    <3>6. CASE Finished
      BY <2>1, <3>6 DEF Finished
    <3> QED BY <2>2, <3>1, <3>2, <3>3, <3>4, <3>5, <3>6 DEF Next
  <2> QED BY <1>1, <2>1, <2>2
<1> QED BY <1>1, SqlInit, PTL DEF Spec

\* Type correctness.
THEOREM SqlTypes == Spec => []TypeOK
<1>1. SqlInv => TypeOK
  BY DEF SqlInv
<1> QED BY <1>1, SqlInvariant, PTL

-----------------------------------------------------------------------------
\* A step that leaves the log, the requests' outcomes and answers alone is no
\* step of the table.
LEMMA Unseen ==
    ASSUME log' = log, answer' = answer, status' = status, place' = place
    PROVE  UNCHANGED TheTable!vars
BY DEF TheTable!vars, order

\* Outcomes that are not final: a handler at work.
LEMMA StillOpen ==
    ASSUME TypeOK, NEW q \in Req, NEW x \in Steps, pc' = [pc EXCEPT ![q] = x],
           index' = index, pc[q] \notin {"new", "ok", "refused", "failed"},
           x \notin {"new", "ok", "refused", "failed"}
    PROVE  status' = status /\ place' = place
BY DEF TypeOK, status, place

\* A handler that gives up after it may have proposed.
LEMMA GivesUp ==
    ASSUME TypeOK, NEW q \in Req, pc' = [pc EXCEPT ![q] = "failed"], index' = index,
           pc[q] \notin {"new", "ok", "refused", "failed"}, log' = log, answer' = answer
    PROVE  TheTable!Fail
<1>1. /\ status[q] = "open" /\ place' = place /\ order' = order
      /\ status' = [p \in Req |-> IF p \in {q} THEN "failed" ELSE status[p]]
  BY DEF TypeOK, status, place, order
<1>2. {q} \in SUBSET {p \in Req : status[p] = "open"}
  BY <1>1
<1> QED BY <1>1, <1>2 DEF TheTable!Fail

\* A handler that gives up before it has proposed.
LEMMA Refuses ==
    ASSUME SqlInv, NEW q \in Req, pc' = [pc EXCEPT ![q] = "refused"], index' = index,
           pc[q] \in {"lookup", "peer", "do"}, log' = log, answer' = answer
    PROVE  TheTable!Refuse(q)
<1>1. /\ status[q] = "open" /\ place' = place /\ order' = order
      /\ status' = [status EXCEPT ![q] = "refused"]
  BY DEF SqlInv, TypeOK, status, place, order
<1>2. q \notin TheTable!Executed
  BY DEF SqlInv, OnceInv, Executed, TheTable!Executed
<1> QED BY <1>1, <1>2 DEF TheTable!Refuse

\* A response reports the place of its statement and the rows as of it.
LEMMA Responds ==
    ASSUME SqlInv, NEW q \in Req, Respond(q)
    PROVE  TheTable!Respond(q)
<1>1. /\ pc[q] = "ready" /\ pc' = [pc EXCEPT ![q] = "ok"] /\ log' = log /\ index' = index
      /\ answer' = [answer EXCEPT ![q] = IF Shows(q) THEN Get(home[q], index[q]) ELSE @]
  BY DEF Respond, Shows, raft
<1>2. /\ status[q] = "open" /\ order' = order
      /\ status' = [status EXCEPT ![q] = "ok"]
      /\ place' = [place EXCEPT ![q] = index[q]]
  BY <1>1 DEF SqlInv, TypeOK, status, place, order
<1>3. index[q] \in 1 .. Len(order) /\ order[index[q]] = q
  BY <1>1 DEF SqlInv, PlaceInv
<1>4. Get(home[q], index[q]) = RowsAfter(SubSeq(order, 1, index[q]))
  <2> DEFINE n == home[q]
             k == Len(actions[n])
  <2>1. n \in Node /\ index[q] <= k /\ actions[n] \in Seq(Req) /\ k \in Nat
    BY <1>1, LenProperties DEF SqlInv, HomeInv, TypeOK
  <2>2. actions[n] = SubSeq(order, 1, k) /\ k <= Len(order)
    <3>1. actions[n] = First(applied[n]) /\ applied[n] \in 0 .. Len(log)
      BY <2>1 DEF SqlInv, TableInv, TypeOK
    <3> QED BY <3>1 DEF SqlInv, OrderInv
  <2>3. order \in Seq(Req) /\ Len(order) \in Nat
    BY ActionsOfFacts, LenProperties DEF SqlInv, TypeOK, order
  <2>4. SubSeq(SubSeq(order, 1, k), 1, index[q]) = SubSeq(order, 1, index[q])
    <3>1. /\ 1 \in 1 .. Len(order) /\ k \in 1 .. Len(order)
          /\ 1 \in 1 .. k - 1 + 1 /\ index[q] \in 1 .. k - 1 + 1
      BY <1>3, <2>1, <2>2, <2>3
    <3>2. SubSeq(SubSeq(order, 1, k), 1, index[q]) = SubSeq(order, 1 + 1 - 1, 1 + index[q] - 1)
      <4> HIDE DEF k
      <4> QED BY <2>3, <3>1, SubSeqOfSubSeq
    <3>3. 1 + 1 - 1 = 1 /\ 1 + index[q] - 1 = index[q]
      BY <1>3, <2>3
    <3> QED BY <3>2, <3>3
  <2>5. SubSeq(actions[n], 1, index[q]) = SubSeq(order, 1, index[q])
    BY <2>2, <2>4
  <2> QED BY <2>5 DEF Get
<1>5. answer' = [answer EXCEPT ![q] = IF Shows(q) THEN RowsAfter(SubSeq(order, 1, index[q])) ELSE @]
  BY <1>1, <1>4
<1> QED BY <1>2, <1>3, <1>5 DEF TheTable!Respond

(***************************************************************************)
(* The cluster implements the table: whichever nodes take, forward, apply  *)
(* and answer statements, and whatever crashes, elections and lost         *)
(* messages intervene, each statement is executed in one step between its  *)
(* arrival and its response, once if it is answered, never if it is        *)
(* refused, at most once if it fails.                                      *)
(***************************************************************************)
THEOREM SqlRefinement == Spec => ImplementsTable
<1>1. Init => TheTable!Init
  <2> SUFFICES ASSUME Init PROVE TheTable!Init
    OBVIOUS
  <2>1. order = <<>>
    BY ActionsOfFacts DEF Init, order
  <2>2. /\ status = [q \in Req |-> "new"] /\ place = [q \in Req |-> 0]
        /\ answer = [q \in Req |-> NewRows]
    BY DEF Init, status, place
  <2> QED BY <2>1, <2>2 DEF TheTable!Init
<1>2. SqlInv /\ [Next]_vars => [TheTable!Next]_TheTable!vars
  <2> SUFFICES ASSUME SqlInv, [Next]_vars PROVE [TheTable!Next]_TheTable!vars
    OBVIOUS
  <2> USE DEF raft, nodes, bounds, Steps
  <2>0. TypeOK
    BY DEF SqlInv
  <2>1. ASSUME NEW q \in Req, NEW n \in Node, Issue(q, n) PROVE TheTable!Issue(q)
    <3>1. order' = order /\ place' = place /\ answer' = answer /\ status[q] = "new"
      BY <2>0, <2>1 DEF Issue, TypeOK, order, place, status
    <3>2. \/ status' = [status EXCEPT ![q] = "open"]
          \/ status' = [status EXCEPT ![q] = "refused"]
      BY <2>0, <2>1 DEF Issue, TypeOK, status
    <3> QED BY <3>1, <3>2 DEF TheTable!Issue
  <2>2. ASSUME NEW q \in Req, Route(q) PROVE UNCHANGED TheTable!vars
    BY <2>0, <2>2, StillOpen, Unseen DEF Route
  <2>3. ASSUME NEW q \in Req, Lookup(q) PROVE UNCHANGED TheTable!vars \/ TheTable!Refuse(q)
    BY <2>0, <2>3, StillOpen, Unseen, Refuses DEF Lookup
  <2>4. ASSUME NEW q \in Req, Peer(q) PROVE UNCHANGED TheTable!vars \/ TheTable!Refuse(q)
    BY <2>0, <2>4, StillOpen, Unseen, Refuses DEF Peer
  <2>5. ASSUME NEW q \in Req, PostFails(q) \/ DoFails(q) PROVE TheTable!Fail
    BY <2>0, <2>5, GivesUp DEF PostFails, DoFails
  <2>6. ASSUME NEW q \in Req, Propose(q) PROVE UNCHANGED TheTable!vars \/ TheTable!Refuse(q)
    BY <2>0, <2>6, StillOpen, Unseen, Refuses DEF Propose
  <2>7. ASSUME NEW q \in Req, Return(q) PROVE UNCHANGED TheTable!vars \/ TheTable!Fail
    BY <2>0, <2>7, StillOpen, Unseen, GivesUp DEF Return
  <2>8. ASSUME NEW q \in Req, GetWhenReady(q) PROVE UNCHANGED TheTable!vars
    BY <2>0, <2>8, StillOpen, Unseen DEF GetWhenReady
  <2>9. ASSUME NEW q \in Req, Respond(q) PROVE TheTable!Respond(q)
    BY <2>9, Responds
  <2>10. ASSUME NEW q \in Req, Commit(q) PROVE TheTable!Execute(q)
    <3>1. q \in pending /\ log' = Append(log, q) /\ UNCHANGED <<pc, index, answer>>
      BY <2>10 DEF Commit
    <3>2. q \in Entries /\ IsAction(q)
      BY ClusterAssumption DEF Entries, IsAction
    <3>3. order' = Append(order, q)
      BY <3>1, <3>2, LogGrows
    <3>4. status[q] \in {"open", "failed"} /\ status' = status /\ place' = place
      BY <3>1 DEF SqlInv, OnceInv, status, place
    <3>5. q \notin TheTable!Executed
      BY <3>1 DEF SqlInv, OnceInv, Executed, TheTable!Executed
    <3> QED BY <3>1, <3>3, <3>4, <3>5 DEF TheTable!Execute
  <2>11. ASSUME NEW n \in Node, Apply(n) PROVE UNCHANGED TheTable!vars
    <3>1. log' = log /\ answer' = answer
      BY <2>11 DEF Apply
    <3>2. applied[n] < Len(log)
      BY <2>11 DEF Apply
    <3>3. log[applied[n] + 1] \in Entries
      BY <3>2, NextAction
    <3>4. status' = status /\ place' = place
      <4>1. CASE UNCHANGED <<index, pc>>
        BY <4>1 DEF status, place
      <4>2. CASE IsAction(log[applied[n] + 1])
        <5> DEFINE e == log[applied[n] + 1]
        <5>1. e \in Req /\ Put(n, e)
          BY <2>11, <3>3, <4>2 DEF Apply, Entries, IsAction
        <5> HIDE DEF e
        <5>2. ASSUME NEW p \in Req
              PROVE  \/ pc[p] = "proposed" /\ pc'[p] = "done"
                     \/ pc[p] = "wait" /\ pc'[p] = "get"
                     \/ pc'[p] = pc[p] /\ index'[p] = index[p]
          BY <2>0, <5>1 DEF Put, TypeOK
        <5> QED BY <5>2 DEF status, place
      <4> QED BY <2>11, <4>1, <4>2 DEF Apply
    <3> QED BY <3>1, <3>4, Unseen
  <2>12. ASSUME NEW n \in Node, Elect(n) PROVE UNCHANGED TheTable!vars
    <3>1. log' = Append(log, NOP) /\ UNCHANGED <<pc, index, answer>>
      BY <2>12 DEF Elect
    <3>2. NOP \in Entries /\ ~IsAction(NOP)
      BY DEF Entries, IsAction
    <3>3. order' = order
      BY <3>1, <3>2, LogGrows
    <3> QED BY <3>1, <3>3 DEF TheTable!vars, status, place
  <2>13. ASSUME NEW n \in Node, Learn(n) \/ Restart(n) PROVE UNCHANGED TheTable!vars
    BY <2>13, Unseen DEF Learn, Restart, status, place
  <2>14. ASSUME NEW n \in Node, Crash(n) PROVE TheTable!Fail
    <3> DEFINE failing == {q \in Req : pc'[q] # pc[q]}
    <3>1. log' = log /\ UNCHANGED <<index, answer>>
      BY <2>14 DEF Crash
    <3>2. \A q \in failing : pc'[q] = "failed" /\ pc[q] \notin {"new", "ok", "refused", "failed"}
      BY <2>14 DEF Crash
    <3>3. order' = order
      BY <3>1 DEF order
    <3>4. place' = place
      BY <3>1, <3>2 DEF place
    <3>5. status' = [q \in Req |-> IF q \in failing THEN "failed" ELSE status[q]]
      BY <3>2 DEF status
    <3>6. failing \in SUBSET {q \in Req : status[q] = "open"}
      BY <3>2 DEF status
    <3> QED BY <3>1, <3>3, <3>4, <3>5, <3>6 DEF TheTable!Fail
  <2>15. CASE UNCHANGED vars \/ Finished
    BY <2>15, Unseen DEF Finished, vars, status, place
  <2> QED BY <2>1, <2>2, <2>3, <2>4, <2>5, <2>6, <2>7, <2>8, <2>9, <2>10, <2>11, <2>12,
             <2>13, <2>14, <2>15 DEF Next, RequestStep, TheTable!Next
<1> QED BY <1>1, <1>2, SqlInvariant, PTL DEF Spec, ImplementsTable, TheTable!Spec
=============================================================================
