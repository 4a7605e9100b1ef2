----------------------------- MODULE SearchProofs -----------------------------
(***************************************************************************)
(* Proofs about the code search of level3, for any number of shards, files *)
(* and requests, any hashes and any number of faults.                      *)
(***************************************************************************)
EXTENDS Search, TLAPS

\* Unless the map of the shard has been raced for: a walk leaves no file of its
\* shard out, and the flag is set only when the index of the shard is complete.
IndexInv ==
    /\ \A w \in walks : w.shard \notin raced =>
         Selected(w.shard) \subseteq idx[w.shard] \cup w.left
    /\ \A s \in indexed \ raced : idx[s] = Selected(s)

\* Where the parts of a request stand.
PartInv ==
    \A r \in Req :
        /\ pc[r] = "new" => \A s \in Shard : part[r][s] = "none"
        /\ pc[r] = "ok" => yes[r] /\ \A s \in Shard : part[r][s] = "done"
        /\ \A s \in Shard : part[r][s] = "searching" => Op[r].kind = "query"
        /\ Op[r].kind # "isIndexed" => yes[r]

\* A shard that has answered a poll with true is still indexed, unless it has
\* crashed.
PollInv ==
    \A r \in Req, s \in Shard \ crashed :
        Op[r].kind = "isIndexed" /\ yes[r] /\ part[r][s] = "done" => s \in indexed

\* What the responses to a query hold is in the tree.
FoundInv ==
    \A r \in Queries : found[r] \subseteq Full[r] /\ (pc[r] = "new" => found[r] = {})

\* The shards of which a request has the response, and what is in them.
Answered(r) == {s \in Shard : part[r][s] = "done"}
Parts(r) == UNION {Matches(Selected(s), Op[r].needle) : s \in Answered(r)}

\* A query asked when the service was ready: it still is, no shard has failed
\* the query or inserted a file during its search, and its responses are full.
SureInv ==
    /\ sure # {} => Ready
    /\ \A r \in sure :
         /\ pc[r] # "new" /\ found[r] = Parts(r)
         /\ \A s \in Shard : part[r][s] \in {"asked", "searching", "done"} /\ <<r, s>> \notin dirty

SearchInv == TypeOK /\ IndexInv /\ PartInv /\ PollInv /\ FoundInv /\ SureInv

-----------------------------------------------------------------------------
(***************************************************************************)
(* Every file has a shard (Indexer.scala, visitFile), whatever the sign of *)
(* its hash: Java's remainder of an int by n lies between -(n - 1) and     *)
(* n - 1, so its absolute value is never that of the smallest int.         *)
(***************************************************************************)
LEMMA ShardOfFile == ASSUME NEW f \in File PROVE ShardOf(f) \in Shard
<1> DEFINE h == Attr[f].hash
           m == h % NumNodes
<1>0. MaxInt \in Nat
  BY SMT DEF MaxInt
<1>1. h \in Int /\ NumNodes \in Int /\ 1 <= NumNodes /\ NumNodes <= MaxInt
  BY <1>0, SearchAssumption DEF MinInt
<1> HIDE DEF h
<1>2. m \in Int /\ 0 <= m /\ m < NumNodes
  BY <1>1
<1> HIDE DEF m
<1>3. CASE h < 0 /\ m # 0
  <2>1. Rem(h, NumNodes) = m - NumNodes
    BY <1>3 DEF Rem, m
  <2>2. m - NumNodes < 0 /\ m - NumNodes # MinInt /\ NumNodes - m \in 0 .. NumNodes - 1
    BY <1>0, <1>1, <1>2, <1>3 DEF MinInt
  <2>3. MathAbs(m - NumNodes) = NumNodes - m
    BY <1>1, <1>2, <2>2 DEF MathAbs
  <2> QED BY <1>1, <1>2, <2>1, <2>2, <2>3 DEF ShardOf, Shard, h
<1>4. CASE ~(h < 0 /\ m # 0)
  <2>1. Rem(h, NumNodes) = m
    BY <1>4 DEF Rem, m
  <2>2. MathAbs(m) = m
    BY <1>2 DEF MathAbs
  <2> QED BY <1>1, <1>2, <2>1, <2>2 DEF ShardOf, Shard, h
<1> QED BY <1>3, <1>4

\* The shards share the tree out among them.
LEMMA TreeIsShared ==
    /\ \A s \in Shard : Selected(s) \subseteq Tree /\ Selected(s) \subseteq File
    /\ Tree \subseteq UNION {Selected(s) : s \in Shard}
BY ShardOfFile DEF Tree, Selected

\* What a search finds.
LEMMA MatchesOf ==
    ASSUME NEW files \in SUBSET File, NEW needle
    PROVE  /\ Matches(files, needle) \in SUBSET (File \X Nat)
           /\ \A more \in SUBSET File :
                files \subseteq more => Matches(files, needle) \subseteq Matches(more, needle)
<1>1. ASSUME NEW f \in files PROVE TryPath(f, needle) \in SUBSET (File \X Nat)
  <2>1. Len(Text[f]) \in Nat
    BY SearchAssumption
  <2> QED BY <2>1 DEF TryPath
<1> QED BY <1>1 DEF Matches

\* A search of all shards' files is a search of the tree.
LEMMA MatchesOfTree ==
    ASSUME NEW needle
    PROVE  UNION {Matches(Selected(s), needle) : s \in Shard} = Matches(Tree, needle)
BY TreeIsShared DEF Matches

\* The start.
LEMMA SearchInit == Init => SearchInv
<1> SUFFICES ASSUME Init PROVE SearchInv
  OBVIOUS
<1>1. TypeOK
  <2>1. /\ up = Shard /\ raced = {} /\ indexed = {} /\ walks = {} /\ dirty = {} /\ sure = {}
        /\ crashed = {} /\ faults \in 0 .. MaxFaults
    BY SearchAssumption DEF Init
  <2>2. /\ idx \in [Shard -> SUBSET File] /\ (\A s \in Shard : idx[s] = {})
        /\ found \in [Req -> SUBSET (File \X Nat)]
    BY DEF Init
  <2>3. /\ pc \in [Req -> {"new", "sent", "ok", "bad", "failed"}]
        /\ part \in [Req -> [Shard -> {"none", "asked", "searching", "done", "failed"}]]
    BY DEF Init
  <2>4. yes \in [Req -> BOOLEAN]
    BY Zenon DEF Init
  <2> QED BY <2>1, <2>2, <2>3, <2>4 DEF TypeOK
<1>2. IndexInv /\ PollInv /\ SureInv
  BY DEF Init, IndexInv, PollInv, SureInv
<1>3. PartInv
  BY DEF Init, PartInv
<1>4. FoundInv
  BY DEF Init, FoundInv, Queries
<1> QED BY <1>1, <1>2, <1>3, <1>4 DEF SearchInv

\* A request reaches the master.
LEMMA AskInv == ASSUME SearchInv, NEW r \in Req, Ask(r) PROVE SearchInv'
<1> USE DEF shards, SearchInv
<1>1. /\ pc[r] = "new" /\ pc' = [pc EXCEPT ![r] = "sent"]
      /\ part' = [part EXCEPT ![r] = [s \in Shard |-> "asked"]]
      /\ sure' = IF Ready /\ Op[r].kind = "query" THEN sure \cup {r} ELSE sure
      /\ UNCHANGED <<up, idx, raced, indexed, walks, dirty, found, yes, crashed, faults>>
  BY DEF Ask
<1>2. \A s \in Shard : part[r][s] = "none"
  BY <1>1 DEF PartInv
<1>3. \A q \in Req : \A s \in Shard :
        part'[q][s] = IF q = r THEN "asked" ELSE part[q][s]
  BY <1>1 DEF TypeOK
<1>4. TypeOK'
  BY <1>1, <1>2, <1>3 DEF TypeOK, Queries
<1>5. IndexInv'
  BY <1>1 DEF IndexInv
<1>6. PartInv'
  BY <1>1, <1>3 DEF PartInv, TypeOK
<1>7. PollInv'
  BY <1>1, <1>3 DEF PollInv
<1>8. FoundInv'
  BY <1>1 DEF FoundInv, TypeOK, Queries, Full
<1>9. SureInv'
  <2>1. Ready' = Ready
    BY <1>1 DEF Ready
  <2>2. r \notin sure
    BY <1>1 DEF SureInv
  <2>3. \A q \in sure : q \in Req /\ q # r
    BY <2>2 DEF TypeOK, Queries
  <2>4. ASSUME NEW q \in sure PROVE Parts(q)' = Parts(q)
    <3>1. Answered(q)' = Answered(q)
      BY <1>3, <2>3 DEF Answered
    <3> QED BY <3>1 DEF Parts
  <2>5. \A q \in sure :
          /\ pc'[q] # "new" /\ found'[q] = Parts(q)'
          /\ \A s \in Shard : part'[q][s] \in {"asked", "searching", "done"} /\ <<q, s>> \notin dirty'
    BY <1>1, <1>3, <2>3, <2>4 DEF SureInv, TypeOK
  <2>6. CASE Ready /\ Op[r].kind = "query"
    <3>1. Parts(r)' = {}
      BY <1>3 DEF Parts, Answered
    <3>2. found'[r] = {} /\ pc'[r] # "new"
      BY <1>1, <2>6 DEF FoundInv, Queries, TypeOK
    <3>3. \A s \in Shard : part'[r][s] = "asked" /\ <<r, s>> \notin dirty'
      BY <1>1, <1>2, <1>3 DEF TypeOK
    <3>4. sure' = sure \cup {r} /\ Ready'
      BY <1>1, <2>1, <2>6
    <3> QED BY <2>5, <3>1, <3>2, <3>3, <3>4 DEF SureInv
  <2>7. CASE ~(Ready /\ Op[r].kind = "query")
    BY <1>1, <2>1, <2>5, <2>7 DEF SureInv
  <2> QED BY <2>6, <2>7
<1> QED BY <1>4, <1>5, <1>6, <1>7, <1>8, <1>9

\* A shard answers at once, or starts a walk.
LEMMA HandleInv ==
    ASSUME SearchInv, NEW r \in Req, NEW s \in Shard, Handle(r, s) PROVE SearchInv'
<1> USE DEF SearchInv
<1>1. /\ part[r][s] = "asked" /\ s \in up /\ Op[r].kind # "query"
      /\ part' = [part EXCEPT ![r][s] = "done"]
      /\ yes' = [yes EXCEPT ![r] = @ /\ (Op[r].kind = "isIndexed" => s \in indexed)]
      /\ walks' = IF Op[r].kind = "index"
                  THEN walks \cup {[req |-> r, shard |-> s, left |-> Selected(s)]}
                  ELSE walks
      /\ UNCHANGED <<up, idx, raced, indexed, pc, dirty, found, sure, crashed, faults>>
  BY DEF Handle
<1>2. /\ part' \in [Req -> [Shard -> {"none", "asked", "searching", "done", "failed"}]]
      /\ \A q \in Req, t \in Shard :
           part'[q][t] = IF q = r /\ t = s THEN "done" ELSE part[q][t]
  BY <1>1 DEF TypeOK
<1>3. /\ yes' \in [Req -> BOOLEAN]
      /\ \A q \in Req : q # r => yes'[q] = yes[q]
      /\ yes'[r] = (yes[r] /\ (Op[r].kind = "isIndexed" => s \in indexed))
  BY <1>1, Zenon DEF TypeOK
<1>4. Selected(s) \in SUBSET File
  BY TreeIsShared
<1>5. TypeOK'
  BY <1>1, <1>2, <1>3, <1>4 DEF TypeOK
<1>6. IndexInv'
  BY <1>1 DEF IndexInv
<1>7. PartInv'
  <2>1. pc[r] # "ok"
    BY <1>1 DEF PartInv
  <2>2. ASSUME NEW q \in Req, q # r
        PROVE  /\ yes'[q] = yes[q] /\ pc'[q] = pc[q]
               /\ \A t \in Shard : part'[q][t] = part[q][t]
    BY <1>1, <1>2, <1>3, <2>2
  <2>3. ASSUME NEW q \in Req
        PROVE  /\ pc'[q] = "new" => \A t \in Shard : part'[q][t] = "none"
               /\ \A t \in Shard : part'[q][t] = "searching" => Op[q].kind = "query"
    BY <1>1, <1>2 DEF PartInv
  <2>4. ASSUME NEW q \in Req
        PROVE  pc'[q] = "ok" => yes'[q] /\ \A t \in Shard : part'[q][t] = "done"
    BY <1>1, <2>1, <2>2 DEF PartInv
  <2>5. ASSUME NEW q \in Req PROVE Op[q].kind # "isIndexed" => yes'[q]
    BY <1>3, <2>2, Zenon DEF PartInv
  <2> QED BY <2>3, <2>4, <2>5 DEF PartInv
<1>8. PollInv'
  BY <1>1, <1>2, <1>3 DEF PollInv
<1>9. FoundInv'
  BY <1>1 DEF FoundInv, Full
<1>10. SureInv'
  <2>1. Ready' = Ready
    BY <1>1 DEF Ready
  <2>2. r \notin sure
    BY <1>1 DEF TypeOK, Queries
  <2>3. \A q \in sure : q \in Req /\ Parts(q)' = Parts(q)
    BY <1>2, <2>2 DEF Parts, Answered, TypeOK, Queries
  <2> QED BY <1>1, <1>2, <2>1, <2>2, <2>3 DEF SureInv
<1> QED BY <1>5, <1>6, <1>7, <1>8, <1>9, <1>10

\* A search starts, or a connection is refused.
LEMMA StartInv ==
    ASSUME SearchInv, NEW r \in Req, NEW s \in Shard, HandleSearch(r, s) \/ Refused(r, s)
    PROVE  SearchInv'
<1> USE DEF SearchInv, shards
<1>1. PICK x \in {"searching", "failed"} :
        /\ part[r][s] = "asked" /\ part' = [part EXCEPT ![r][s] = x]
        /\ x = "searching" => Op[r].kind = "query"
        /\ x = "failed" => s \notin up
  BY DEF HandleSearch, Refused
<1>2. UNCHANGED <<up, idx, raced, indexed, walks, pc, dirty, found, yes, sure, crashed, faults>>
  BY DEF HandleSearch, Refused
<1>3. /\ part' \in [Req -> [Shard -> {"none", "asked", "searching", "done", "failed"}]]
      /\ \A q \in Req, t \in Shard :
           part'[q][t] = IF q = r /\ t = s THEN x ELSE part[q][t]
  BY <1>1 DEF TypeOK
<1>4. TypeOK'
  BY <1>1, <1>2, <1>3 DEF TypeOK
<1>5. IndexInv'
  BY <1>2 DEF IndexInv
<1>6. PartInv'
  BY <1>1, <1>2, <1>3 DEF PartInv
<1>7. PollInv'
  BY <1>1, <1>2, <1>3 DEF PollInv
<1>8. FoundInv'
  BY <1>2 DEF FoundInv, Full
<1>9. SureInv'
  <2>1. Ready' = Ready
    BY <1>2 DEF Ready
  <2>2. \A q \in sure : q \in Req /\ Parts(q)' = Parts(q)
    BY <1>1, <1>3 DEF Parts, Answered, TypeOK, Queries
  <2>3. r \in sure => x = "searching"
    BY <1>1 DEF SureInv, Ready
  <2> QED BY <1>1, <1>2, <1>3, <2>1, <2>2, <2>3 DEF SureInv
<1> QED BY <1>4, <1>5, <1>6, <1>7, <1>8, <1>9

\* A search ends.
LEMMA SearchedInv ==
    ASSUME SearchInv, NEW r \in Req, NEW s \in Shard, Search(r, s) PROVE SearchInv'
<1> USE DEF SearchInv, shards
<1> DEFINE all == Matches(idx[s], Op[r].needle)
<1>1. /\ part[r][s] = "searching" /\ part' = [part EXCEPT ![r][s] = "done"]
      /\ dirty' = dirty \ {<<r, s>>}
      /\ UNCHANGED <<up, idx, raced, indexed, walks, pc, yes, sure, crashed, faults>>
  BY DEF Search
<1>2. PICK m \in IF <<r, s>> \in dirty \/ s \in raced THEN SUBSET all ELSE {all} :
        found' = [found EXCEPT ![r] = @ \cup m]
  BY DEF Search
<1>3. /\ part' \in [Req -> [Shard -> {"none", "asked", "searching", "done", "failed"}]]
      /\ \A q \in Req, t \in Shard :
           part'[q][t] = IF q = r /\ t = s THEN "done" ELSE part[q][t]
  BY <1>1 DEF TypeOK
<1>4. Op[r].kind = "query" /\ r \in Queries /\ pc[r] \notin {"new", "ok"}
  BY <1>1 DEF PartInv, Queries
<1>5. /\ idx[s] \in SUBSET File /\ Selected(s) \in SUBSET File /\ Tree \in SUBSET File
      /\ idx[s] \subseteq Selected(s) /\ Selected(s) \subseteq Tree
  BY TreeIsShared DEF TypeOK, Tree
<1>6. m \subseteq all /\ all \in SUBSET (File \X Nat) /\ all \subseteq Full[r]
  <2>1. all \in SUBSET (File \X Nat) /\ all \subseteq Matches(Tree, Op[r].needle)
    BY <1>5, MatchesOf
  <2>2. m \subseteq all
    BY <1>2
  <2> HIDE DEF all
  <2> QED BY <1>4, <2>1, <2>2 DEF Full
<1> HIDE DEF all
<1>7. /\ found' \in [Req -> SUBSET (File \X Nat)]
      /\ \A q \in Req : found'[q] = IF q = r THEN found[r] \cup m ELSE found[q]
  BY <1>2, <1>6 DEF TypeOK
<1>8. TypeOK'
  <2>1. dirty' \subseteq {d \in Req \X Shard : part'[d[1]][d[2]] = "searching"}
    BY <1>1, <1>3 DEF TypeOK
  <2> QED BY <1>1, <1>3, <1>7, <2>1 DEF TypeOK
<1>9. IndexInv'
  BY <1>1 DEF IndexInv
<1>10. PartInv'
  BY <1>1, <1>3, <1>4 DEF PartInv
<1>11. PollInv'
  BY <1>1, <1>3, <1>4 DEF PollInv
<1>12. FoundInv'
  BY <1>1, <1>4, <1>6, <1>7 DEF FoundInv, Full, Queries
<1>13. SureInv'
  <2>1. Ready' = Ready
    BY <1>1 DEF Ready
  <2>2. ASSUME NEW q \in sure, q # r PROVE Parts(q)' = Parts(q)
    <3>1. Answered(q)' = Answered(q)
      BY <1>3, <2>2 DEF Answered, TypeOK, Queries
    <3> QED BY <3>1 DEF Parts
  <2>3. CASE r \in sure
    <3>1. Ready /\ <<r, s>> \notin dirty
      BY <2>3 DEF SureInv
    <3>2. m = all
      BY <1>2, <3>1 DEF Ready
    <3>3. idx[s] = Selected(s)
      BY <3>1 DEF IndexInv, Ready
    <3>4. m = Matches(Selected(s), Op[r].needle)
      BY <3>2, <3>3 DEF all
    <3>5. Answered(r)' = Answered(r) \cup {s}
      BY <1>3 DEF Answered
    <3>6. Parts(r)' = Parts(r) \cup m
      BY <3>4, <3>5 DEF Parts
    <3>7. found'[r] = Parts(r)'
      BY <1>7, <2>3, <3>6 DEF SureInv
    <3> QED BY <1>1, <1>3, <1>7, <2>1, <2>2, <3>7 DEF SureInv, TypeOK, Queries
  <2>4. CASE r \notin sure
    BY <1>1, <1>3, <1>7, <2>1, <2>2, <2>4 DEF SureInv, TypeOK, Queries
  <2> QED BY <2>3, <2>4
<1> QED BY <1>8, <1>9, <1>10, <1>11, <1>12, <1>13

\* While a shard is indexed its walks insert nothing new.
LEMMA NothingNew ==
    ASSUME SearchInv, NEW w \in walks, NEW f \in w.left, w.shard \in indexed \ raced
    PROVE  f \in idx[w.shard]
BY DEF SearchInv, TypeOK, IndexInv

\* A walk reaches a file.
LEMMA AddFileInv ==
    ASSUME SearchInv, NEW w \in walks, NEW f \in w.left, AddFile(w, f) PROVE SearchInv'
<1> USE DEF SearchInv
<1> DEFINE s == w.shard
           v == [w EXCEPT !.left = @ \ {f}]
<1>1. /\ walks' = (walks \ {w}) \cup {v}
      /\ raced' \in {raced, raced \cup {s}}
      /\ f \in idx[s] => raced' = raced /\ dirty' = dirty
      /\ dirty' \in {dirty, dirty \cup {<<r, s>> : r \in {q \in Req : part[q][s] = "searching"}}}
      /\ UNCHANGED <<up, indexed, pc, part, found, yes, sure, crashed, faults>>
  BY DEF AddFile
<1>a. PICK kept \in SUBSET (idx[s] \cup {f}) :
        /\ idx' = [idx EXCEPT ![s] = kept]
        /\ s \notin raced' => kept = idx[s] \cup {f}
  BY DEF AddFile
<1>2. /\ w \in [req : Req, shard : Shard, left : SUBSET File]
      /\ s \in Shard /\ s \in up /\ w.left \subseteq Selected(s)
  BY DEF TypeOK
<1>3. /\ v \in [req : Req, shard : Shard, left : SUBSET File]
      /\ v.shard = s /\ v.left = w.left \ {f}
  BY <1>2
<1> HIDE DEF s, v
<1>4. /\ idx' \in [Shard -> SUBSET File] /\ f \in Selected(s)
      /\ \A t \in Shard : idx'[t] = IF t = s THEN kept ELSE idx[t]
  BY <1>1, <1>a, <1>2 DEF TypeOK
<1>5. TypeOK'
  <2>1. raced' \subseteq up
    BY <1>1, <1>2 DEF TypeOK
  <2>2. \A t \in Shard : idx'[t] \subseteq Selected(t)
    BY <1>a, <1>4 DEF TypeOK
  <2>3. /\ walks' \subseteq [req : Req, shard : Shard, left : SUBSET File]
        /\ \A u \in walks' : u.shard \in up /\ u.left \subseteq Selected(u.shard)
    BY <1>1, <1>2, <1>3 DEF TypeOK
  <2>4. dirty' \subseteq {d \in Req \X Shard : part[d[1]][d[2]] = "searching"}
    BY <1>1, <1>2 DEF TypeOK
  <2> QED BY <1>1, <1>4, <2>1, <2>2, <2>3, <2>4 DEF TypeOK
<1>6. IndexInv'
  <2>0. /\ raced \subseteq raced' /\ indexed' = indexed
        /\ \A t \in Shard \ raced' : idx'[t] = IF t = s THEN idx[s] \cup {f} ELSE idx[t]
    BY <1>1, <1>a, <1>4
  <2>1. ASSUME NEW u \in walks', u.shard \notin raced'
        PROVE  Selected(u.shard) \subseteq idx'[u.shard] \cup u.left
    <3>1. CASE u \in walks
      BY <2>0, <2>1, <3>1 DEF IndexInv, TypeOK
    <3>2. CASE u = v
      <4>1. Selected(s) \subseteq idx[s] \cup w.left
        BY <1>3, <2>0, <2>1, <3>2 DEF IndexInv, s
      <4> QED BY <1>2, <1>3, <2>0, <2>1, <3>2, <4>1
    <3> QED BY <1>1, <3>1, <3>2
  <2>2. ASSUME NEW t \in indexed' \ raced' PROVE idx'[t] = Selected(t)
    <3>1. t \in Shard /\ t \in Shard \ raced' /\ t \in indexed \ raced
      BY <2>0 DEF TypeOK
    <3>2. idx[t] = Selected(t)
      BY <3>1 DEF IndexInv
    <3> QED BY <1>4, <2>0, <3>1, <3>2
  <2> QED BY <2>1, <2>2 DEF IndexInv
<1>7. PartInv'
  BY <1>1 DEF PartInv
<1>8. PollInv'
  BY <1>1 DEF PollInv
<1>9. FoundInv'
  BY <1>1 DEF FoundInv, Full
<1>10. SureInv'
  <2>1. CASE sure = {}
    BY <1>1, <2>1 DEF SureInv
  <2>2. CASE sure # {}
    <3>1. Ready /\ f \in idx[s]
      BY <1>2, <2>2, NothingNew DEF SureInv, Ready, s
    <3>2. Ready' /\ dirty' = dirty
      BY <1>1, <3>1 DEF Ready
    <3>3. \A r \in sure : Parts(r)' = Parts(r)
      BY <1>1 DEF Parts, Answered
    <3> QED BY <1>1, <3>2, <3>3 DEF SureInv
  <2> QED BY <2>1, <2>2
<1> QED BY <1>5, <1>6, <1>7, <1>8, <1>9, <1>10

\* A walk ends, well or with a read error.
LEMMA WalkEndInv ==
    ASSUME SearchInv, NEW w \in walks, Indexed(w) \/ ReadFails(w) PROVE SearchInv'
<1> USE DEF SearchInv, requests
<1>1. /\ walks' = walks \ {w} /\ UNCHANGED <<up, idx, raced, pc, part, dirty, found, yes, sure, crashed>>
      /\ \/ indexed' = indexed \cup {w.shard} /\ w.left = {} /\ faults' = faults
         \/ indexed' = indexed /\ faults' = faults + 1 /\ faults < MaxFaults
  BY DEF Indexed, ReadFails
<1>2. w.shard \in up /\ w.shard \in Shard
  BY DEF TypeOK
<1>3. TypeOK'
  BY <1>1, <1>2, SearchAssumption DEF TypeOK
<1>4. IndexInv'
  <2>1. w.left = {} /\ w.shard \notin raced => idx[w.shard] = Selected(w.shard)
    BY <1>2 DEF IndexInv, TypeOK
  <2>2. \A t \in indexed' \ raced' : idx'[t] = Selected(t)
    BY <1>1, <2>1 DEF IndexInv
  <2>3. \A u \in walks' : u.shard \notin raced' => Selected(u.shard) \subseteq idx'[u.shard] \cup u.left
    BY <1>1 DEF IndexInv
  <2> QED BY <2>2, <2>3 DEF IndexInv
<1>5. PartInv'
  BY <1>1 DEF PartInv
<1>6. PollInv'
  BY <1>1 DEF PollInv, TypeOK
<1>7. FoundInv'
  BY <1>1 DEF FoundInv, Full
<1>8. SureInv'
  <2>1. Ready => Ready'
    BY <1>1, <1>2 DEF Ready
  <2>2. \A r \in sure : Parts(r)' = Parts(r)
    BY <1>1 DEF Parts, Answered
  <2> QED BY <1>1, <2>1, <2>2 DEF SureInv
<1> QED BY <1>3, <1>4, <1>5, <1>6, <1>7, <1>8

\* A shard dies, or is started again.
LEMMA CrashInv == ASSUME SearchInv, NEW s \in Shard, Crash(s) PROVE SearchInv'
<1> USE DEF SearchInv
<1>1. /\ faults < MaxFaults /\ faults' = faults + 1 /\ up' = up \ {s}
      /\ idx' = [idx EXCEPT ![s] = {}] /\ indexed' = indexed \ {s} /\ raced' = raced \ {s}
      /\ walks' = {w \in walks : w.shard # s} /\ dirty' = {d \in dirty : d[2] # s}
      /\ sure' = {} /\ crashed' = crashed \cup {s} /\ UNCHANGED <<pc, found, yes>>
  BY DEF Crash
<1>2. /\ part' \in [Req -> [Shard -> {"none", "asked", "searching", "done", "failed"}]]
      /\ \A r \in Req, t \in Shard :
           part'[r][t] = IF t = s /\ part[r][t] = "searching" THEN "failed" ELSE part[r][t]
  BY DEF Crash, TypeOK
<1>3. /\ idx' \in [Shard -> SUBSET File]
      /\ \A t \in Shard : idx'[t] = IF t = s THEN {} ELSE idx[t]
  BY <1>1 DEF TypeOK
<1>4. faults' \in 0 .. MaxFaults
  BY <1>1, SearchAssumption DEF TypeOK
<1>5. TypeOK'
  BY <1>1, <1>2, <1>3, <1>4 DEF TypeOK
<1>6. IndexInv'
  BY <1>1, <1>3 DEF IndexInv, TypeOK
<1>7. PartInv'
  BY <1>1, <1>2 DEF PartInv
<1>8. PollInv'
  BY <1>1, <1>2 DEF PollInv
<1>9. FoundInv'
  BY <1>1 DEF FoundInv, Full
<1>10. SureInv'
  BY <1>1 DEF SureInv
<1> QED BY <1>5, <1>6, <1>7, <1>8, <1>9, <1>10

\* The master collects the responses, or a shard is started again: neither
\* touches the shards' indexes.
LEMMA CollectInv ==
    ASSUME SearchInv, NEW r \in Req, Collect(r) \/ CollectFails(r) PROVE SearchInv'
<1> USE DEF SearchInv, shards
<1>1. UNCHANGED <<up, idx, raced, indexed, walks, part, dirty, found, yes, sure, crashed, faults>>
  BY DEF Collect, CollectFails
<1>2. PICK x \in {"ok", "bad", "failed"} :
        /\ pc[r] = "sent" /\ pc' = [pc EXCEPT ![r] = x]
        /\ x = "ok" => yes[r] /\ \A s \in Shard : part[r][s] = "done"
  BY DEF Collect, CollectFails
<1>3. /\ pc' \in [Req -> {"new", "sent", "ok", "bad", "failed"}]
      /\ \A q \in Req : pc'[q] = IF q = r THEN x ELSE pc[q]
  BY <1>2 DEF TypeOK
<1>4. TypeOK'
  BY <1>1, <1>3 DEF TypeOK
<1>5. IndexInv' /\ PollInv'
  BY <1>1 DEF IndexInv, PollInv
<1>6. PartInv'
  BY <1>1, <1>2, <1>3 DEF PartInv
<1>7. FoundInv'
  BY <1>1, <1>2, <1>3 DEF FoundInv, Full, Queries
<1>8. SureInv'
  <2>1. Ready' = Ready
    BY <1>1 DEF Ready
  <2>2. \A q \in sure : q \in Req /\ Parts(q)' = Parts(q)
    BY <1>1 DEF Parts, Answered, TypeOK, Queries
  <2> QED BY <1>1, <1>2, <1>3, <2>1, <2>2 DEF SureInv
<1> QED BY <1>4, <1>5, <1>6, <1>7, <1>8

\* A shard that is started again is not yet indexed.
LEMMA RestartInv == ASSUME SearchInv, NEW s \in Shard, Restart(s) PROVE SearchInv'
<1> USE DEF SearchInv, requests
<1>1. /\ s \notin up /\ up' = up \cup {s}
      /\ UNCHANGED <<idx, raced, indexed, walks, pc, part, dirty, found, yes, sure, crashed, faults>>
  BY DEF Restart
<1>2. TypeOK'
  BY <1>1 DEF TypeOK
<1>3. IndexInv' /\ PartInv' /\ PollInv' /\ FoundInv'
  BY <1>1 DEF IndexInv, PartInv, PollInv, FoundInv, Full
<1>4. SureInv'
  <2>1. Ready => Ready'
    BY <1>1 DEF Ready
  <2>2. \A r \in sure : Parts(r)' = Parts(r)
    BY <1>1 DEF Parts, Answered
  <2> QED BY <1>1, <2>1, <2>2 DEF SureInv
<1> QED BY <1>2, <1>3, <1>4

(***************************************************************************)
(* The invariant holds in every state, whatever requests overlap,          *)
(* whichever shards die or fail to read and whatever a raced map loses.    *)
(***************************************************************************)
THEOREM SearchInvariant == Spec => []SearchInv
<1>1. ASSUME SearchInv, [Next]_vars PROVE SearchInv'
  <2> USE <1>1
  <2>1. CASE UNCHANGED vars
    <3>1. Ready' = Ready /\ \A r : Parts(r)' = Parts(r)
      BY <2>1 DEF vars, Ready, Parts, Answered
    <3>2. TypeOK' /\ IndexInv' /\ PartInv' /\ PollInv' /\ FoundInv'
      BY <2>1 DEF vars, SearchInv, TypeOK, IndexInv, PartInv, PollInv, FoundInv, Full
    <3>3. SureInv'
      BY <2>1, <3>1 DEF vars, SearchInv, SureInv
    <3> QED BY <3>2, <3>3 DEF SearchInv
  <2>2. ASSUME NEW r \in Req, Ask(r) \/ Collect(r) \/ CollectFails(r) PROVE SearchInv'
    BY <2>2, AskInv, CollectInv
  <2>3. ASSUME NEW r \in Req, NEW s \in Shard, ShardStep(r, s) PROVE SearchInv'
    BY <2>3, HandleInv, StartInv, SearchedInv DEF ShardStep
  <2>4. ASSUME WalkStep \/ \E w \in walks : ReadFails(w) PROVE SearchInv'
    BY <2>4, AddFileInv, WalkEndInv DEF WalkStep
  <2>5. ASSUME NEW s \in Shard, Crash(s) \/ Restart(s) PROVE SearchInv'
    BY <2>5, CrashInv, RestartInv
  <2>6. CASE Finished
    BY <2>1, <2>6 DEF Finished
  <2> QED BY <2>1, <2>2, <2>3, <2>4, <2>5, <2>6 DEF Next
<1> QED BY <1>1, SearchInit, PTL DEF Spec

\* Type correctness: among others, a shard's index holds only its own files.
THEOREM SearchTypes == Spec => []TypeOK
<1>1. SearchInv => TypeOK
  BY DEF SearchInv
<1> QED BY <1>1, SearchInvariant, PTL

(***************************************************************************)
(* What isIndexed reports is true, for any number of shards and of         *)
(* requests and however polls, walks and failed walks overlap: every file  *)
(* of the tree is in some shard's index, except those of a shard that has  *)
(* crashed or whose map two walks have filled at once.                     *)
(* (SearchMasterServer.isIndexed)                                          *)
(***************************************************************************)
THEOREM SearchPollIsTrue == Spec => []PollIsTrue
<1>1. SearchInv => PollIsTrue
  <2> SUFFICES ASSUME SearchInv, NEW r \in Req, Op[r].kind = "isIndexed", pc[r] = "ok",
                      NEW f \in Tree, ShardOf(f) \notin raced \cup crashed
               PROVE  \E s \in Shard : f \in idx[s]
    BY DEF PollIsTrue
  <2>1. yes[r] /\ \A s \in Shard : part[r][s] = "done"
    BY DEF SearchInv, PartInv
  <2>2. f \in File /\ ShardOf(f) \in Shard /\ f \in Selected(ShardOf(f))
    BY ShardOfFile DEF Tree, Selected
  <2>3. ShardOf(f) \in indexed
    BY <2>1, <2>2 DEF SearchInv, PollInv
  <2>4. idx[ShardOf(f)] = Selected(ShardOf(f))
    BY <2>3 DEF SearchInv, IndexInv
  <2> QED BY <2>2, <2>4
<1> QED BY <1>1, SearchInvariant, PTL
-----------------------------------------------------------------------------
\* What a step shows of the service when it changes no query's state.
LEMMA Stutters ==
    ASSUME SearchInv, Ready' = Ready, UNCHANGED <<pc, found, sure>>
    PROVE  UNCHANGED Service!vars
BY DEF Service!vars, status, answer

\* A query is asked; requests that are no queries do not show.
LEMMA AskShows == ASSUME SearchInv, NEW r \in Req, Ask(r) PROVE [Service!Next]_(Service!vars)
<1>1. /\ pc[r] = "new" /\ pc' = [pc EXCEPT ![r] = "sent"] /\ found' = found
      /\ sure' = IF Ready /\ Op[r].kind = "query" THEN sure \cup {r} ELSE sure
  BY DEF Ask
<1>2. Ready' = Ready
  BY DEF Ask, Ready, shards
<1>3. pc \in [Req -> {"new", "sent", "ok", "bad", "failed"}]
  BY DEF SearchInv, TypeOK
<1>4. answer' = answer
  BY <1>1, <1>3 DEF answer, Queries
<1>5. CASE r \in Queries
  <2>1. status[r] = "new"
    BY <1>1, <1>5 DEF status
  <2>2. status' = [status EXCEPT ![r] = "asked"]
    BY <1>1, <1>3, <1>5 DEF status, Queries
  <2>3. sure' = IF Ready THEN sure \cup {r} ELSE sure
    BY <1>1, <1>5 DEF Queries
  <2> QED BY <1>2, <1>4, <1>5, <2>1, <2>2, <2>3 DEF Service!Next, Service!Ask
<1>6. CASE r \notin Queries
  <2>1. status' = status
    BY <1>1, <1>3, <1>6 DEF status, Queries
  <2> QED BY <1>1, <1>2, <1>4, <1>6, <2>1 DEF Service!vars, Queries
<1> QED BY <1>5, <1>6

\* A query is answered, in full when it was asked while the service was ready,
\* or it fails, which such a query never does.
LEMMA CollectShows ==
    ASSUME SearchInv, NEW r \in Req, Collect(r) \/ CollectFails(r)
    PROVE  [Service!Next]_(Service!vars)
<1>1. pc[r] = "sent" /\ UNCHANGED <<found, sure>> /\ Ready' = Ready
  BY DEF Collect, CollectFails, Ready, shards
<1>2. pc \in [Req -> {"new", "sent", "ok", "bad", "failed"}]
  BY DEF SearchInv, TypeOK
<1>3. CASE r \notin Queries
  <2>1. PICK x : pc' = [pc EXCEPT ![r] = x]
    BY DEF Collect, CollectFails
  <2>2. status' = status /\ answer' = answer
    BY <1>1, <1>2, <1>3, <2>1 DEF status, answer, Queries
  <2> QED BY <1>1, <2>2 DEF Service!vars
<1>4. CASE r \in Queries /\ Collect(r)
  <2>1. pc' = [pc EXCEPT ![r] = "ok"] /\ \A s \in Shard : part[r][s] = "done"
    <3>1. yes[r]
      BY <1>4 DEF SearchInv, PartInv, Queries
    <3> QED BY <1>4, <3>1 DEF Collect
  <2>2. /\ status[r] = "asked" /\ status' = [status EXCEPT ![r] = "ok"]
        /\ answer' = [answer EXCEPT ![r] = found[r]]
    BY <1>1, <1>2, <1>4, <2>1 DEF status, answer, Queries
  <2>3. CASE r \in sure
    <3>1. Answered(r) = Shard
      BY <2>1 DEF Answered
    <3>2. Parts(r) = Full[r]
      BY <1>4, <3>1, MatchesOfTree DEF Parts, Full
    <3>3. found[r] = Full[r]
      BY <2>3, <3>2 DEF SearchInv, SureInv
    <3> QED BY <1>1, <1>4, <2>2, <2>3, <3>3 DEF Service!Next, Service!AnswerFully
  <2>4. CASE r \notin sure
    <3>1. found[r] \in SUBSET Full[r]
      BY <1>4 DEF SearchInv, FoundInv
    <3>2. Service!AnswerPartly(r)
      BY <1>1, <2>2, <2>4, <3>1 DEF Service!AnswerPartly
    <3> QED BY <1>4, <3>2 DEF Service!Next
  <2> QED BY <2>3, <2>4
<1>5. CASE r \in Queries /\ CollectFails(r)
  <2>1. pc' = [pc EXCEPT ![r] = "failed"] /\ \E s \in Shard : part[r][s] = "failed"
    BY <1>5 DEF CollectFails, Queries
  <2>2. status[r] = "asked" /\ status' = [status EXCEPT ![r] = "failed"] /\ answer' = answer
    BY <1>1, <1>2, <1>5, <2>1 DEF status, answer, Queries
  <2>3. r \notin sure
    BY <2>1 DEF SearchInv, SureInv
  <2> QED BY <1>1, <1>5, <2>2, <2>3 DEF Service!Next, Service!Fail
<1> QED BY <1>3, <1>4, <1>5

\* What a shard does for a request does not show before it is collected.
LEMMA ShardShows ==
    ASSUME SearchInv, NEW r \in Req, NEW s \in Shard, ShardStep(r, s)
    PROVE  UNCHANGED Service!vars
<1>1. CASE Handle(r, s) \/ HandleSearch(r, s) \/ Refused(r, s)
  <2>1. Ready' = Ready /\ UNCHANGED <<pc, found, sure>>
    BY <1>1 DEF Handle, HandleSearch, Refused, Ready, shards
  <2> QED BY <2>1, Stutters
<1>2. CASE Search(r, s)
  <2>1. Ready' = Ready /\ UNCHANGED <<pc, sure>>
    BY <1>2 DEF Search, Ready, shards
  <2>2. PICK m : found' = [found EXCEPT ![r] = @ \cup m]
    BY <1>2 DEF Search
  <2>3. pc[r] # "ok"
    BY <1>2 DEF Search, SearchInv, PartInv
  <2>4. \A q \in Queries : q # r => found'[q] = found[q]
    BY <2>2 DEF SearchInv, TypeOK, Queries
  <2>5. answer' = answer /\ status' = status
    BY <2>1, <2>3, <2>4 DEF answer, status
  <2> QED BY <2>1, <2>5 DEF Service!vars
<1> QED BY <1>1, <1>2 DEF ShardStep

\* The end of the last walk makes the service ready; nothing else that walks
\* do shows: while every shard is indexed they insert nothing new.
LEMMA WalkShows ==
    ASSUME SearchInv, NEW w \in walks,
           Indexed(w) \/ ReadFails(w) \/ \E f \in w.left : AddFile(w, f)
    PROVE  [Service!Next]_(Service!vars)
<1>1. UNCHANGED <<pc, found, sure>>
  BY DEF Indexed, ReadFails, AddFile, requests
<1>2. CASE Indexed(w)
  <2>1. Ready => Ready'
    BY <1>2 DEF Indexed, Ready, SearchInv, TypeOK
  <2>2. CASE Ready' = Ready
    BY <1>1, <2>2, Stutters
  <2>3. CASE ~Ready /\ Ready'
    <3>1. UNCHANGED <<status, sure, answer>> /\ Ready' = TRUE
      BY <1>1, <2>3 DEF status, answer
    <3> QED BY <2>3, <3>1 DEF Service!Next, Service!GetReady
  <2> QED BY <2>1, <2>2, <2>3 DEF Ready
<1>3. CASE ReadFails(w)
  <2>1. Ready' = Ready
    BY <1>3 DEF ReadFails, Ready
  <2> QED BY <1>1, <2>1, Stutters
<1>4. ASSUME NEW f \in w.left, AddFile(w, f) PROVE UNCHANGED Service!vars
  <2>1. /\ UNCHANGED <<up, indexed>> /\ raced' \in {raced, raced \cup {w.shard}}
        /\ f \in idx[w.shard] => raced' = raced
    BY <1>4 DEF AddFile
  <2>2. Ready => f \in idx[w.shard]
    BY NothingNew DEF Ready, SearchInv, TypeOK
  <2>3. Ready' = Ready
    BY <2>1, <2>2 DEF Ready
  <2> QED BY <1>1, <2>3, Stutters
<1> QED BY <1>2, <1>3, <1>4

\* A crash is a loss; a new start does not make the service ready.
LEMMA CrashShows ==
    ASSUME SearchInv, NEW s \in Shard, Crash(s) \/ Restart(s)
    PROVE  [Service!Next]_(Service!vars)
<1>1. CASE Crash(s)
  <2>1. Ready' = FALSE
    BY <1>1 DEF Crash, Ready
  <2>2. sure' = {} /\ UNCHANGED <<status, answer>>
    BY <1>1 DEF Crash, status, answer
  <2> QED BY <2>1, <2>2 DEF Service!Next, Service!Lose
<1>2. CASE Restart(s)
  <2>1. Ready' = Ready
    BY <1>2 DEF Restart, Ready, SearchInv, TypeOK
  <2>2. UNCHANGED <<pc, found, sure>>
    BY <1>2 DEF Restart, requests
  <2> QED BY <2>1, <2>2, Stutters
<1> QED BY <1>1, <1>2

(***************************************************************************)
(* The master and any number of shards implement the one search service,   *)
(* as far as safety goes: a query asked while every shard is indexed is    *)
(* answered with exactly what a scan of the whole tree finds, and never    *)
(* fails unless a shard is lost; any other finds nothing that is not       *)
(* there.  (SearchMasterServer.query, SearchServer.handleSearch, Indexer)  *)
(***************************************************************************)
THEOREM SearchRefinement == Spec => Service!Safety
<1>1. Init => Service!Init
  <2> SUFFICES ASSUME Init PROVE Service!Init
    OBVIOUS
  <2>1. Ready = FALSE
    <3>1. 1 \in Shard
      BY SearchAssumption DEF Shard
    <3> QED BY <3>1 DEF Init, Ready
  <2>2. status = [q \in Queries |-> "new"] /\ answer = [q \in Queries |-> {}] /\ sure = {}
    BY DEF Init, status, answer, Queries
  <2> QED BY <2>1, <2>2 DEF Service!Init
<1>2. ASSUME SearchInv, [Next]_vars PROVE [Service!Next]_(Service!vars)
  <2> USE <1>2
  <2>1. CASE UNCHANGED vars
    <3>1. Ready' = Ready /\ UNCHANGED <<pc, found, sure>>
      BY <2>1 DEF vars, Ready
    <3> QED BY <3>1, Stutters
  <2>2. ASSUME NEW r \in Req, Ask(r) \/ Collect(r) \/ CollectFails(r)
        PROVE  [Service!Next]_(Service!vars)
    BY <2>2, AskShows, CollectShows
  <2>3. ASSUME NEW r \in Req, NEW s \in Shard, ShardStep(r, s)
        PROVE  [Service!Next]_(Service!vars)
    BY <2>3, ShardShows
  <2>4. ASSUME WalkStep \/ \E w \in walks : ReadFails(w)
        PROVE  [Service!Next]_(Service!vars)
    BY <2>4, WalkShows DEF WalkStep
  <2>5. ASSUME NEW s \in Shard, Crash(s) \/ Restart(s)
        PROVE  [Service!Next]_(Service!vars)
    BY <2>5, CrashShows
  <2>6. CASE Finished
    BY <2>1, <2>6 DEF Finished
  <2> QED BY <2>1, <2>2, <2>3, <2>4, <2>5, <2>6 DEF Next
<1> QED BY <1>1, <1>2, SearchInvariant, PTL DEF Spec, Service!Safety
=============================================================================
