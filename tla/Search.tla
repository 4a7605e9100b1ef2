------------------------------- MODULE Search -------------------------------
(***************************************************************************)
(* The code search of level3: a master that fans every request out to its  *)
(* shards and collects their responses, and shards that index the files    *)
(* whose path hashes to them and search them.                              *)
(*                                                                         *)
(* A shard indexes in a thread of a pool while it goes on answering: its   *)
(* map of files is filled, iterated and filled again by a second request   *)
(* without a lock.  A search that runs while a file is inserted sees any   *)
(* part of the map.  An insertion that another walk may overlap can        *)
(* corrupt the map (entries lost, or a bucket linked to itself): from then *)
(* on a put may lose any entries, its own included, or never end, and a    *)
(* search finds any part of the map, or never ends.                        *)
(*                                                                         *)
(* Shards crash and are started anew, with an empty index; a connection to *)
(* a shard fails only then.  The directory tree does not change.           *)
(***************************************************************************)
EXTENDS Integers, Sequences, FiniteSets

CONSTANTS NumNodes,    \* number of shards
          File,        \* files of the tree
          Attr,        \* of a file: the hash of its path, whether it or a
                       \* directory above it is hidden, whether it is a regular
                       \* file, at most 1 MB, and valid UTF-8
          Text,        \* of a file: for each line, the needles it contains
          Req,         \* client requests
          Op,          \* of a request: "index", "isIndexed", "healthcheck" or
                       \* "query", and the needle
          Order,       \* <<q, r>>: one client sends r once q has ended
          MaxFaults    \* bound: crashes of shards and read errors

Shard == 1 .. NumNodes
MaxInt == 2147483647
MinInt == -MaxInt - 1

ASSUME SearchAssumption ==
    /\ NumNodes \in 1 .. MaxInt
    /\ \A f \in File : Attr[f].hash \in MinInt .. MaxInt /\ Len(Text[f]) \in Nat
    /\ \A r \in Req : Op[r].kind \in {"index", "isIndexed", "healthcheck", "query"}
    /\ Order \subseteq Req \X Req
    /\ MaxFaults \in Nat

VARIABLES
    up,        \* shards whose process runs
    idx,       \* Index.files of each shard
    raced,     \* shards whose map two walks have filled at the same time
    indexed,   \* the shards' volatile flag
    walks,     \* running walks: request, shard, files left
    pc,        \* of a request: "new", "sent", "ok", "bad" (502) or "failed"
    part,      \* of a request: where it stands on each shard
    dirty,     \* <<r, s>>: a file was inserted while r searches s
    found,     \* what the responses to a query hold together
    yes,       \* all responses so far contain "true"
    sure,      \* queries asked when Ready, no shard lost since
    crashed,   \* shards whose process has died before
    faults

shards == <<up, idx, raced, indexed, walks>>
requests == <<pc, part, dirty, found, yes, sure>>
vars == <<up, idx, raced, indexed, walks, pc, part, dirty, found, yes, sure, crashed, faults>>

-----------------------------------------------------------------------------
(***************************************************************************)
(* Which files a shard indexes, and what a search finds in a file.         *)
(***************************************************************************)

\* Java's remainder has the sign of the dividend; Math.abs of the smallest
\* int is that int.
Rem(a, b) == IF a < 0 /\ a % b # 0 THEN (a % b) - b ELSE a % b
MathAbs(a) == IF a < 0 /\ a # MinInt THEN -a ELSE a

\* Mutant of ShardOf: a negative hash gives a negative remainder.
ShardOfSigned(f) == Rem(Attr[f].hash, NumNodes) + 1

\* Math.abs(file.toString().hashCode() % 3) = indexId - 1
ShardOf(f) == MathAbs(Rem(Attr[f].hash, NumNodes)) + 1

\* Files that visitFile does not pass over.  (Its test for a NUL byte asks a
\* list of one array for the Integer 0 and never finds it.)
Indexable(f) ==
    ~Attr[f].hidden /\ Attr[f].regular /\ Attr[f].small /\ Attr[f].utf8

Selected(s) == {f \in File : Indexable(f) /\ ShardOf(f) = s}

\* The matches of tryPath: the file with the number of each line that
\* contains the needle.
TryPath(f, needle) == {<<f, n>> : n \in {i \in 1 .. Len(Text[f]) : needle \in Text[f][i]}}
Matches(files, needle) == UNION {TryPath(f, needle) : f \in files}

-----------------------------------------------------------------------------
Init ==
    /\ up = Shard /\ raced = {} /\ indexed = {} /\ walks = {}
    /\ idx = [s \in Shard |-> {}]
    /\ pc = [r \in Req |-> "new"]
    /\ part = [r \in Req |-> [s \in Shard |-> "none"]]
    /\ dirty = {} /\ sure = {}
    /\ found = [r \in Req |-> {}]
    /\ yes = [r \in Req |-> TRUE]
    /\ crashed = {} /\ faults = 0

\* Every shard answers isIndexed with success, and no map has been corrupted.
Ready == up = Shard /\ indexed = Shard /\ raced = {}

\* A request reaches the master, which sends it to every shard.
Ask(r) ==
    /\ pc[r] = "new" /\ \A q \in Req : <<q, r>> \in Order => pc[q] \notin {"new", "sent"}
    /\ pc' = [pc EXCEPT ![r] = "sent"]
    /\ part' = [part EXCEPT ![r] = [s \in Shard |-> "asked"]]
    /\ sure' = IF Ready /\ Op[r].kind = "query" THEN sure \cup {r} ELSE sure
    /\ UNCHANGED <<shards, dirty, found, yes, crashed, faults>>

\* Mutant of Handle: the flag is set when the walk starts.
HandleFlagFirst(r, s) ==
    /\ part[r][s] = "asked" /\ s \in up /\ Op[r].kind # "query"
    /\ part' = [part EXCEPT ![r][s] = "done"]
    /\ yes' = [yes EXCEPT ![r] = @ /\ (Op[r].kind = "isIndexed" => s \in indexed)]
    /\ walks' = IF Op[r].kind = "index"
                THEN walks \cup {[req |-> r, shard |-> s, left |-> Selected(s)]}
                ELSE walks
    /\ indexed' = IF Op[r].kind = "index" THEN indexed \cup {s} ELSE indexed
    /\ UNCHANGED <<up, idx, raced, pc, dirty, found, sure, crashed, faults>>

\* Requests that a shard answers at once: healthcheck, isIndexed and index,
\* which starts a walk in the pool.
Handle(r, s) ==
    /\ part[r][s] = "asked" /\ s \in up /\ Op[r].kind # "query"
    /\ part' = [part EXCEPT ![r][s] = "done"]
    /\ yes' = [yes EXCEPT ![r] = @ /\ (Op[r].kind = "isIndexed" => s \in indexed)]
    /\ walks' = IF Op[r].kind = "index"
                THEN walks \cup {[req |-> r, shard |-> s, left |-> Selected(s)]}
                ELSE walks
    /\ UNCHANGED <<up, idx, raced, indexed, pc, dirty, found, sure, crashed, faults>>

\* handleSearch: the search starts in a thread of the pool.
HandleSearch(r, s) ==
    /\ part[r][s] = "asked" /\ s \in up /\ Op[r].kind = "query"
    /\ part' = [part EXCEPT ![r][s] = "searching"]
    /\ UNCHANGED <<shards, pc, dirty, found, yes, sure, crashed, faults>>

\* Searcher.search iterates the map and sends Done, which sets the promise.
Search(r, s) ==
    /\ part[r][s] = "searching"
    /\ LET all == Matches(idx[s], Op[r].needle)
       IN  \E m \in IF <<r, s>> \in dirty \/ s \in raced THEN SUBSET all ELSE {all} :
             found' = [found EXCEPT ![r] = @ \cup m]
    /\ part' = [part EXCEPT ![r][s] = "done"]
    /\ dirty' = dirty \ {<<r, s>>}
    /\ UNCHANGED <<shards, pc, yes, sure, crashed, faults>>

\* visitFile reaches a file of the shard: read, decode, addFile.  Only the
\* insertion of a new key changes the structure of the map; when another walk
\* may be in a put of its own, and ever after, any entries may be lost.
AddFile(w, f) ==
    LET s == w.shard
        new == f \notin idx[s]
        others == {v \in walks : v.shard = s /\ v.req # w.req}
        all == idx[s] \cup {f}
    IN  /\ w \in walks /\ f \in w.left
        /\ walks' = (walks \ {w}) \cup {[w EXCEPT !.left = @ \ {f}]}
        /\ raced' = IF new /\ others # {} THEN raced \cup {s} ELSE raced
        /\ \E kept \in IF s \in raced' THEN SUBSET all ELSE {all} :
             idx' = [idx EXCEPT ![s] = kept]
        /\ dirty' = IF new THEN dirty \cup {<<r, s>> : r \in {q \in Req : part[q][s] = "searching"}}
                    ELSE dirty
        /\ UNCHANGED <<up, indexed, pc, part, found, yes, sure, crashed, faults>>

\* Mutant of Indexed: the decoder's exception is not caught, and a file of the
\* shard that is not UTF-8 ends the walk before the flag is set.
IndexedUnlessMalformed(w) ==
    /\ w \in walks /\ w.left = {}
    /\ walks' = walks \ {w}
    /\ indexed' = IF \E f \in File : ShardOf(f) = w.shard /\ ~Attr[f].utf8
                  THEN indexed ELSE indexed \cup {w.shard}
    /\ UNCHANGED <<up, idx, raced, requests, crashed, faults>>

\* The walk is over: indexed = true.
Indexed(w) ==
    /\ w \in walks /\ w.left = {}
    /\ walks' = walks \ {w}
    /\ indexed' = indexed \cup {w.shard}
    /\ UNCHANGED <<up, idx, raced, requests, crashed, faults>>

\* readAllBytes stands outside the try block: a file that cannot be read ends
\* the walk, and the walk does not mark the shard as indexed.
ReadFails(w) ==
    /\ faults < MaxFaults /\ faults' = faults + 1
    /\ w \in walks /\ w.left # {}
    /\ walks' = walks \ {w}
    /\ UNCHANGED <<up, idx, raced, indexed, requests, crashed>>

\* A connection to a shard that does not run is refused.
Refused(r, s) ==
    /\ part[r][s] = "asked" /\ s \notin up
    /\ part' = [part EXCEPT ![r][s] = "failed"]
    /\ UNCHANGED <<shards, pc, dirty, found, yes, sure, crashed, faults>>

-----------------------------------------------------------------------------
\* Future.collect when every shard has answered.  Of a query or an index
\* request the status of the responses is not looked at.
Collect(r) ==
    /\ pc[r] = "sent" /\ \A s \in Shard : part[r][s] = "done"
    /\ pc' = [pc EXCEPT ![r] = IF yes[r] THEN "ok" ELSE "bad"]
    /\ UNCHANGED <<shards, part, dirty, found, yes, sure, crashed, faults>>

\* Mutant of CollectFails: the failure of every shard is waited for.
CollectAllFail(r) ==
    /\ pc[r] = "sent" /\ \A s \in Shard : part[r][s] = "failed"
    /\ pc' = [pc EXCEPT ![r] = IF Op[r].kind \in {"isIndexed", "healthcheck"}
                               THEN "bad" ELSE "failed"]
    /\ UNCHANGED <<shards, part, dirty, found, yes, sure, crashed, faults>>

\* Future.collect when one shard has failed, which is enough: isIndexed and
\* healthcheck turn it into a 502, index and query pass the exception on.
CollectFails(r) ==
    /\ pc[r] = "sent" /\ \E s \in Shard : part[r][s] = "failed"
    /\ pc' = [pc EXCEPT ![r] = IF Op[r].kind \in {"isIndexed", "healthcheck"}
                               THEN "bad" ELSE "failed"]
    /\ UNCHANGED <<shards, part, dirty, found, yes, sure, crashed, faults>>

-----------------------------------------------------------------------------
\* Mutant of Crash: the search of a shard that died is not given up.
CrashSearchesOn(s) ==
    /\ faults < MaxFaults /\ faults' = faults + 1
    /\ s \in up /\ up' = up \ {s} /\ crashed' = crashed \cup {s}
    /\ idx' = [idx EXCEPT ![s] = {}]
    /\ indexed' = indexed \ {s} /\ raced' = raced \ {s}
    /\ dirty' = {d \in dirty : d[2] # s}
    /\ sure' = {}
    /\ UNCHANGED <<walks, pc, part, found, yes>>

\* A shard's process dies, with its index and all it was doing.
Crash(s) ==
    /\ faults < MaxFaults /\ faults' = faults + 1
    /\ s \in up /\ up' = up \ {s} /\ crashed' = crashed \cup {s}
    /\ idx' = [idx EXCEPT ![s] = {}]
    /\ indexed' = indexed \ {s} /\ raced' = raced \ {s}
    /\ walks' = {w \in walks : w.shard # s}
    /\ part' = [r \in Req |-> [part[r] EXCEPT ![s] = IF @ = "searching" THEN "failed" ELSE @]]
    /\ dirty' = {d \in dirty : d[2] # s}
    /\ sure' = {}
    /\ UNCHANGED <<pc, found, yes>>

\* startSearchServer once more.
Restart(s) ==
    /\ s \notin up /\ up' = up \cup {s}
    /\ UNCHANGED <<idx, raced, indexed, walks, requests, crashed, faults>>

ShardStep(r, s) == Handle(r, s) \/ HandleSearch(r, s) \/ Search(r, s) \/ Refused(r, s)
WalkStep == \E w \in walks : Indexed(w) \/ \E f \in w.left : AddFile(w, f)

Finished ==
    /\ \A r \in Req : pc[r] \notin {"new", "sent"}
    /\ UNCHANGED vars

Next ==
    \/ \E r \in Req : Ask(r) \/ Collect(r) \/ CollectFails(r)
                      \/ \E s \in Shard : ShardStep(r, s)
    \/ WalkStep \/ \E w \in walks : ReadFails(w)
    \/ \E s \in Shard : Crash(s) \/ Restart(s)
    \/ Finished

Spec == Init /\ [][Next]_vars

(***************************************************************************)
(* Finagle's threads and the pools, which are unbounded, run every handler *)
(* and every walk: as long as one of them has something to do, something   *)
(* is done.  A put into a corrupted map and a search of it need not end.   *)
(* Nobody is bound to start a crashed shard again.                         *)
(***************************************************************************)
Progress ==
    \/ \E r \in Req : Collect(r) \/ CollectFails(r)
    \/ \E r \in Req, s \in Shard : ShardStep(r, s) /\ ~(s \in raced /\ part[r][s] = "searching")
    \/ \E w \in walks : Indexed(w) \/ \E f \in w.left : AddFile(w, f) /\ w.shard \notin raced

Fairness == WF_vars(Progress)

FairSpec == Spec /\ Fairness

-----------------------------------------------------------------------------
Queries == {r \in Req : Op[r].kind = "query"}

\* Types of the shards' state and of the requests'.
TypeOK ==
    /\ up \subseteq Shard /\ raced \subseteq up /\ indexed \subseteq up
    /\ idx \in [Shard -> SUBSET File] /\ \A s \in Shard : idx[s] \subseteq Selected(s)
    /\ walks \subseteq [req : Req, shard : Shard, left : SUBSET File]
    /\ \A w \in walks : w.shard \in up /\ w.left \subseteq Selected(w.shard)
    /\ pc \in [Req -> {"new", "sent", "ok", "bad", "failed"}]
    /\ part \in [Req -> [Shard -> {"none", "asked", "searching", "done", "failed"}]]
    /\ dirty \subseteq {d \in Req \X Shard : part[d[1]][d[2]] = "searching"}
    /\ found \in [Req -> SUBSET (File \X Nat)] /\ yes \in [Req -> BOOLEAN]
    /\ sure \subseteq Queries /\ crashed \subseteq Shard /\ faults \in 0 .. MaxFaults

Tree == {f \in File : Indexable(f)}

(***************************************************************************)
(* The master and its shards are one search service: a query asked when    *)
(* every shard has indexed finds what a scan of the whole tree finds (each *)
(* file belongs to exactly one shard, whatever the sign of its hash, and   *)
(* no search overlaps an insertion), and it is answered; any other query   *)
(* finds nothing that is not there.  (SearchMasterServer.query,            *)
(* SearchServer.handleSearch, Indexer.index)                               *)
(***************************************************************************)
Full == [q \in Queries |-> Matches(Tree, Op[q].needle)]
status == [q \in Queries |-> IF pc[q] = "sent" THEN "asked" ELSE pc[q]]
answer == [q \in Queries |-> IF pc[q] = "ok" THEN found[q] ELSE {}]

Service == INSTANCE CodeSearch WITH Query <- Queries, ready <- Ready

ImplementsCodeSearch == Service!Spec

(***************************************************************************)
(* A client that is told the nodes are indexed can rely on it: when the    *)
(* master says so every file of the tree is in some shard's index, however *)
(* its poll overlapped the walks, walks that a read error ended included.  *)
(* Excepted are the files of a shard that has crashed, and of one whose    *)
(* map two walks filled at once, which may have lost them.                 *)
(* (SearchMasterServer.isIndexed, Indexer.index)                           *)
(***************************************************************************)
PollIsTrue ==
    \A r \in Req : Op[r].kind = "isIndexed" /\ pc[r] = "ok" =>
        \A f \in Tree : \/ \E s \in Shard : f \in idx[s]
                       \/ ShardOf(f) \in raced \cup crashed

(***************************************************************************)
(* What index() has accepted is carried out: after its response every      *)
(* shard comes to be indexed, files that cannot be decoded or not, unless  *)
(* a shard crashes or cannot read a file.  Excepted is a shard whose map   *)
(* two walks filled at once, where a put need not end.                     *)
(* (SearchServer.index, Indexer.visitFile)                                 *)
(***************************************************************************)
IndexTakesEffect ==
    (\E r \in Req : Op[r].kind = "index" /\ pc[r] = "ok")
        ~> (Shard \ raced \subseteq indexed \/ faults > 0)

(***************************************************************************)
(* Every request ends, crashed shards or not, as long as no shard's map is *)
(* corrupted: one failed connection is enough to end it, and no request    *)
(* stays outstanding.  (Future.collect, rescue)                            *)
(***************************************************************************)
EveryRequestEnds ==
    []<>(raced # {} \/ \A r \in Req : pc[r] # "sent")
=============================================================================
