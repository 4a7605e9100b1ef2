# Verification of the CTF3 solutions

This directory holds TLA+ models of the programs in this repository, the TLC
configurations that check them on small instances, and TLAPS proofs of their
main properties for every instance. `PROJECT.json` is the machine-readable
index: components, runs, the map from definitions to source lines, hazards,
findings and theorems.

The repository is five independent programs, one per level of the contest:

| Level | Program | Own source | Modelled by |
|---|---|---|---|
| 0 | spell filter: marks words that are not in a dictionary | C | `Spell` |
| 1 | coin miner: searches git commits with small hashes on a GPU | C, CUDA | `Miner`, `Hasher`, `CudaHasher`, `Sha1Block` |
| 2 | shield: reverse proxy that turns greedy clients away | JavaScript | `Shield` |
| 3 | sharded code search | Scala | `CodeSearch`, `Search` |
| 4 | SQL front end on a Raft-replicated table | Go | `Table`, `SqlCluster`; `Dial`, `ClusterJoin` |

`libgit2` and `libssh2`, which level 1 links, are vendored and not verified.

Contents: [inventory](#1-inventory) · [modules](#2-modules-and-how-they-correspond-to-the-code) ·
[runs](#3-runs) · [fairness](#4-fairness) · [proofs](#5-proofs) ·
[findings](#6-findings) · [limits](#7-what-is-not-modelled) · [plan](#8-plan)

## 1. Inventory

### Level 1: the miner (`level1/src/level1.c`)

*State.* The flags `stop` and `updated`; the pointer `push_commit` and the one
`curr_commit` it can point to; two mutexes; the arguments of the running search;
`LEDGER.txt`, HEAD and `refs/remotes/origin/master` of the local repository.

*Operations.* `main()` loops: reset to `origin/master` if `updated`, add a coin
to the ledger and format a commit (`prepare_index`), search a nonce in a thread
(`force_hash`), wait until the previous push is over, write the commit
(`commit_result`) and publish it through `push_commit`. The update thread
(`check_updates_worker`) pushes what is published, and fetches and sets
`updated` when the push is refused. SIGINT sets both flags.

*Interaction.* Two threads and a signal handler share the flags and the pointer,
in several places without a lock; git commands are child processes; the remote
is raced for by other miners.

*Hard.* Reads without a lock that are used later; `main()` mining on top of a
commit that is still being pushed; a push refused or its status lost; death of
the process with a git child still running; SIGINT at any point.

*Correct if* no coin is mined on a parent that the remote never had, each commit
pays one coin, a commit being pushed is not overwritten, a push always names a
commit, nobody's commits are taken off the remote, every push is settled and
SIGINT ends the program.

### Level 1: the GPU search (`cuda.c`, `sha1.cu`, `common.c`)

*State.* The host's counter `i`, the result word on the device, the threads'
rounds. *Operations.* The host launches a grid per value of `i` until the result
word is set or the stop flag is; each GPU thread tries one id per round and
reports its first hit with `atomicMax`. The digest is computed by 80 unrolled
rounds over a window of 16 words that is overwritten in place.

*Hard.* Thousands of threads reporting into one word; a word left over from the
previous search; `0` meaning "none" although `0` is an id; thresholds that have
to agree across files; 80 copies of hand-written code.

*Correct if* a reported nonce really wins, no winning nonce is passed over, the
result does not depend on the interleaving, the search ends, and the unrolled
code is SHA-1.

### Level 2: the shield (`level2/shield`)

*State.* A queue of requests; per backend `inFlight`; per client the times of
its requests and a blackhole flag. *Operations.* A request arrives
(`takeRequest`), a backend ends one (`'end'`, then `tryProxyNext`), a client
hangs up (`'close'`).

*Interaction.* Callbacks of one Node process, and a proxy library that reports
ends. *Hard.* Order of callbacks; an `'end'` that never comes; the queue is only
looked at when something ends; a score that reorders the queue.

*Correct if* no backend is overfilled, no request waits while a slot is free,
overtaking is bounded, clients within the limits are never rejected, and the
queue drains.

### Level 4: the replicated table (`server`, `db`, `cluster`, `transport`)

*State.* Per node the list `DB.actions` with a mutex and condition variable, and
what its Raft library believes about the leader. *Operations.* `sqlHandler`
parses a statement, `Do` runs it through Raft locally or by posting it to the
leader's `doHandler`, Raft calls `Apply`/`Put` on each node, and the node that
was asked waits in `GetWhenReady` until its own list is long enough.

*Interaction.* HTTP between nodes, goroutines on one node, the Raft library.
*Hard.* A leader that changes between two reads; a response lost after the
action was executed; a node far behind; a restart with an empty table; text cut
down to eight bits.

*Correct if* every response shows exactly the updates up to its own, updates are
numbered in real-time order and executed at most once, a refused statement has
no effect, no handler sleeps for ever.

### Level 4: how the cluster comes together (`cluster.go`, `transport`)

*State.* Per node: how far `ListenAndServe` has got, whether its Raft log is
empty, its socket. Of the cluster: the members, the leader, join commands that
are not committed. *Operations.* A node founds the cluster (`Do` of its own join
command), or posts a join command to one configured address until that succeeds
(`Join`, `joinHandler`), or recovers from its log; then it listens. Addresses
travel through the HTTP library in disguise (`dial.go`).

*Interaction.* A join commits only with a majority of the members so far, and a
member answers only once it listens, which it does after it has joined.
*Hard.* Start in any order; a crash between being counted as a member and
listening; a leader that is not the configured one; the socket file of a node
that died.

*Correct if* a node serves only as a member, joining does not take the majority
away, the cluster of the usage text forms, and nobody is left joining for ever.

### Level 3: the code search (`SearchMasterServer`, `SearchServer`, `Indexer`, `Searcher`)

*State.* Per shard a mutable map of files and the volatile flag `indexed`.
*Operations.* The master passes `index`, `isIndexed`, `healthcheck` and queries
on to three shards and collects the responses. A shard walks the tree in a pool
thread and keeps the files with `Math.abs(hash % 3) = id - 1`; a query iterates
the map in another thread.

*Interaction.* HTTP between master and shards; on a shard, walks and searches
share the map without a lock. *Hard.* Queries while a walk inserts; a second
index request; a negative hash; an unreadable file in the middle of a walk; a
shard that dies, or comes back empty, during a request.

*Correct if* a query asked after the poll has said yes finds what a scan of all
files finds, the poll tells the truth, an accepted index request takes effect
and every request ends.

### Level 0: the spell filter (`bloom.c`, `level0.c`, `hash.c`)

*State.* The Bloom filter; the word, input and output buffers and their
positions. *Operations.* At build time `bloom.c` sets the bits of each
dictionary word; `level0.c` reads its input in chunks, collects words and puts
the unknown ones into angle brackets. (The README's table of solutions speaks of
a trie for level 0; the code is a Bloom filter.)

*Hard.* Words across reads; a non-blocking read that ends the program early;
buffers of 64 and 3078 bytes that nothing checks; two programs that must hash
alike. *Correct if* the output does not depend on how the input arrives, no
dictionary word is marked, and reasonable input stays inside the buffers.

## 2. Modules and how they correspond to the code

`MC*` modules only give constants their values. Definitions called "Mutant of X"
are wrong versions of the definition that follows them; the mutants in
`PROJECT.json` replace X by them to show that the properties notice. They are
not part of any specification.

**Miner.** `main` and `worker` are program counters; a label stands before each
access that another thread, the handler or the remote can observe. Names of
actions are the functions' where an action is a whole function
(`prepare_index`, `commit_result`, `reset_hard`, `check_updates`,
`push_result_shell`), and describe the statement otherwise (`WaitPush`,
`Retest`, `WorkerTest1`, ...). Commits are numbered by their position in `odb`
and keep parent, coins and ancestors. Git is modelled by what its commands do:
a push lands if it is a fast-forward, its status may be lost, a fetch may do
nothing, and `git push origin :master` deletes the branch. `Exit` stands for
`exit(1)` and for a kill and leaves git children in `orphans`; `Restart` is
`main()`'s prologue on the repository as it was left. The flags are plain ints;
the places where a compiler might merge two reads are covered by the
interleavings in which nothing happens between them.

**Hasher** is the contract between the miner and a search: end with a winning
nonce, or without one only after the flag was set. `Miner`'s `HashLoop`,
`HashFound` and `HashMissed` use exactly this much of it.

**CudaHasher.** `Begin`, `Launch`, `Copy` are the parts of `force_hash` between
its accesses to the device, `Step(t)` one round of thread `t`. The digest of
each nonce is an arbitrary function `hash`, chosen anew by each call, so the
model covers every commit text. `Id(t, r)` is `global_id | (r << 24)`, which is
a sum because a grid has fewer than 2^24 threads (`Threads <= Stride`). `i` is
a `uint32_t` and wraps (`% Indices`). The difficulty takes no part in the
search, as the kernel never reads it; `parse_difficulty` is the two string
comparisons of `common.c` as they behave on forty digits and `Meets` the
benchmark's comparison of all of a digest's digits, and a theorem relates both
to the kernel's threshold.

**Sha1Block.** A `uint32_t` is the set of the places of its ones: the bit
operations are set operations, a rotation moves places modulo 32, and `Add` adds
with a carry that is lost beyond place 31. `Load`, the five groups of rounds and
`Return` follow `sha1.cu`; the 80 unrolled rounds follow one pattern per group,
and the model has one action per group that takes one round. The reference is
FIPS 180's definition: `MessageSchedule` is the schedule of 80 words, `Working`
the working variables before and after each round, both recursive functions.

**Shield.** One action per callback. The queue is a set, since its order shows
only in ties of the score; the list of a client's request times is kept as its
length and first element, since their mean distance telescopes. `ip` is fixed by
`Init` for each request. Comparison with the missing field `start` is the
comparison with NaN that it is in JavaScript: false.

**SqlCluster.** A request walks through `Route`, `Lookup`, `Peer`, `Propose`,
`Return`, `GetWhenReady`, `Respond`: one action between two points at which
other goroutines or Raft may run. `State()` and `Leader()` are read again at
each step, as in the code. Raft is external and modelled by contract (see the
module's header); `view` is what a node believes. A statement is a record of
kind, row, digits, word and length; `ParseUint` reads digits as Go does with
base 0, `Wire` is `Encode` followed by `Decode`.

**Table** is what clients may expect: one table, each statement executed in one
step between its arrival and its response (linearizability), refused ones
never, failed ones at most once. In `SqlCluster` the actions in Raft's log are
its `order`, a request's step gives its `status`, and the value that `Do`
returned its `place`.

**Dial** has the pure functions of `dial.go` on sequences of characters,
together with the port that the HTTP library adds in between.

**ClusterJoin.** `pc` follows `ListenAndServe`: `boot`, `joining`, `posted`,
`answered`, `ready`, `listening`. The retries of `Join` that fail change nothing
and so are no steps. Raft's part is a contract: `Quorum(n)` asks that a majority
of the members acknowledge `n`, and a member acknowledges only while it listens
at an address that can be dialled (`SendAppendEntriesRequest` and
`SendVoteRequest` give up otherwise). `hasLog` is `!IsLogEmpty()`. A node started
again on a Unix address finds its socket file and ends, until `CleanUp`.

**CodeSearch** is one search service: exact while it is ready; before that, or
after the loss of a shard, a query may miss matches or fail but invents none.
`Safety` is the specification without its fairness.

**Search.** `part[r][s]` is where request `r` stands on shard `s`; `walks` are
the running bodies of `SearchServer.index`, one file per step. The map without a
lock is undefined behaviour: a search during which a file was inserted
(`dirty`) sees any part of the map. A new file inserted while another walk of
the shard runs, which may be in a `put` of its own, leaves the map `raced`:
that `AddFile` and every later one keep any part of the map, their own file
included or not, or never happen (no fairness; a `put` that throws looks the
same from outside), and a search sees any part or never ends. `ShardOf` uses
Java's remainder and `Math.abs`. `indexed` is set by `Indexed`, which a read
error (`ReadFails`) skips. `crashed` only records which shards have died.

**Spell.** `Build` is `bloom.c`'s loop; `Read`, `Scan` (with `EndWord` and
`AddChar`) and `Write` are `level0.c`'s. A text is a sequence of characters,
since the properties are about where it is cut; `hash.c` is a constant operator
from a lower-case word to a set of bits. `Filtered`, the reference of
`FiltersStream`, knows nothing of reads or buffers: it is a recursive function
of the number of characters, and finds each word by looking back from its
separator. A byte outside a buffer leads to `undefined`, from which nothing is
concluded. `shared` says that standard input
and output are one open file, so that `O_NONBLOCK` makes `write` partial.

## 3. Runs

Each passing run explores between a thousand and 800 thousand distinct states
and takes less than two minutes with two workers.

| Run | Instance | Checks | Shows |
|---|---|---|---|
| `miner` | 2 finds, 1 rival, 1 death, SIGINT | `TypeOK`, `ParentAccepted`, `OneCoinPerCommit`, `PushHasCommitUnlessInterrupted`, `PendingCommitStable`, `RemoteFastForward`, `PushSettled`, `StopEnds`, `UpdateConsumed` | the handshake over `push_commit` and `updated` is safe; pushes are settled; SIGINT ends the program except in the state `Hung` |
| `miner_nullpush` | 2 finds, SIGINT | `PushHasCommit` (violated) | finding 1 |
| `cuda_search` | 2 threads, 2 rounds, 2 grids, every distribution of hits | `TypeOK`, `NothingSkipped`, `LargestFirstHit`, `ImplementsHasher`, `SearchEnds` | the search is right, exhaustive and deterministic, implements `Hasher`, and ends although `i` wraps |
| `sha1_vectors` | the examples of FIPS 180 and 9 nonces | `TypeOK`, `ReturnsSha1` | the kernel computes SHA-1 |
| `shield_backends` | 2 backends, 4 requests, 3 clients, a lost end | `TypeOK`, `BackendBound`, `WorkConserving`, `PoliteNeverRejected`, `BoundedOvertaking`, `QueueDrains` | backends are neither overfilled nor idle, clients within the limits are served, the queue drains |
| `shield_expired` | 4 requests | `ExpiredNotForwarded` (violated) | finding 2 |
| `sql` | 2 nodes; octal increment and long word, INSERT; 1 election, 1 crash | `TypeOK`, `ImplementsTable`, `EveryRequestEnds` | the cluster is one table; every request ends |
| `sql_word` | 2 updates | `AnswerIsSql` (violated) | finding 3 |
| `join` | 5 nodes, one with an address that cannot be encoded; 2 crashes, 1 election | `TypeOK`, `ServesAsMember`, `AbsentAtMostHalf`, `ClusterForms`, `JoinEnds` | the cluster forms in any order of starts, and what joining can cost |
| `join_retry` | 3 nodes, 1 crash | `JoinSurvivesCrash` (violated) | finding 4 |
| `search_service` | 2 shards, 3 files, 2 index requests, a poll, a query; 1 fault | `TypeOK`, `PollIsTrue`, `ImplementsCodeSearch`, `IndexTakesEffect`, `EveryRequestEnds` | master and shards are one exact service once they say so; the poll is true, also after a read error, and indexing takes effect, on every shard whose map is not `raced` |
| `spell_stream` | every text of up to 6 characters, buffers of 3, 3 and 7 | `TypeOK`, `FiltersStream`, `KnownWordsPass`, `TameInputStaysInBuffers` | output independent of the reads; no false alarm; when the buffers hold |

Pure definitions are checked by `ASSUME`s that TLC evaluates with these runs: the
reference of `Sha1Block` against FIPS 180's digests, `Dial`'s round trip on
every address of up to four characters (`DialledAsGiven` proves it for all), `ShardOf` with three shards,
`DifficultiesServed` around the kernel's threshold, and which statements
`Accepted` refuses.

### Bounds and why they are enough

* *Miner.* `MaxFinds` = 2 gives a commit being pushed and one mined on it or
  after a reset; `MaxRivals` = 1 is what it takes to refuse a push;
  `MaxExits` = 1 lets a git child outlive the process and meet its successor.
  Finds are counted only while they can still become commits. The theorems of
  `MinerProofs` have no bound.
* *CudaHasher.* All of the interleavings of two threads over two rounds, over
  every one of the 256 ways in which eight nonces can win or lose, including
  several searches in a row. The digests are the largest one that the kernel
  accepts and one that it does not. Theorems cover every size.
* *Sha1Block.* Inputs are sampled: 2^512 blocks are out of reach. Control does
  not depend on the data, and every call runs through all 80 rounds, so a
  wrong index, constant or function shows in any of them. `Sha1Correct` covers
  every input; the run is what ties the reference to the standard's digests.
* *Shield.* Limits are scaled down (two requests instead of four, ticks instead
  of milliseconds) so that four requests suffice to exceed each of them, fill
  every slot and leave two requests competing in the queue. In
  `shield_backends` a backend has one place (`backendQueue` = 0): with a second
  one it takes six requests, and too many states, for two of them to compete. A
  backend that is neither waiting nor full, and to which `shouldReject` applies,
  occurs in `shield_expired` (`backendQueue` = 1) and in the theorems, which
  cover every value of the parameters. `CHECK_DEADLOCK FALSE`: once all requests are served
  and time is up nothing is left to do.
* *SqlCluster.* Two nodes are a leader and a follower that lags, forwards and
  crashes; the data path of an answer involves only the node asked and the
  leader. One election makes each stale belief about the leader possible.
* *ClusterJoin.* Five nodes make four that can join, so that joins overlap and a
  majority can be short by one; two crashes let a node die and the leader die
  after it. `JoinSurvivesCrash` needs three nodes and one crash.
* *Search.* Two shards in place of three: a shard only ever meets the master,
  and one shard that lags, dies or fails beside one that does not is every case
  of `Future.collect`. One file on each shard is enough for a walk to be ahead of
  another, for entries to be lost and for a search to overlap an insertion; the
  theorems have any number of files. The remainder by 3 is checked by an `ASSUME`. Two
  clients, one of which indexes and polls while the other's query follows the
  poll, with a second index request at any time. `healthcheck` is modelled, but
  takes the path of `isIndexed` without reading state, and no request of the run
  is one.
* *Spell.* Buffers are scaled down to 3, 3 and 7 bytes, so six characters fill
  each of them, span three reads and make words too long; an upper-case letter,
  a word that shares its bits with a dictionary word and one that the filter
  refuses all occur.
* `CHECK_DEADLOCK FALSE`: in `miner` a dead process that finds no
  `origin/master` cannot be started again; in the shield's runs everything may
  have been served; in the joins' runs the cluster has formed, or is stuck,
  which is what the liveness properties are about.
* Symmetry: `MCShield` lets requests arrive, and clients appear, in one order
  (`OrderedSpec`), since they are told apart only by equality; unlike TLC's
  symmetry sets this is sound for liveness too. `sql_word` permutes nodes.

## 4. Fairness

* *Miner.* Weak fairness of each thread and of a handler that has begun: the
  kernel schedules them. `main()` and the update thread poll in loops, so their
  actions stay enabled. Strong fairness of `HashFound`: a search that is repeated
  for ever finds a nonce, as the target is finite and nonces are many; nothing
  is assumed of a single search, which `updated` may stop. Nothing is assumed of
  SIGINT, rivals, deaths or restarts, except that a process without `origin/master`
  does reach `exit(1)`.
* *CudaHasher.* Weak fairness of the host and of each GPU thread: a launched grid
  runs to its end.
* *Shield.* Weak fairness of `onEnd`: backends answer what they were given.
  `QueueDrains` excepts the state in which every slot is lost, because the code
  does not recover a slot whose end never came.
* *SqlCluster.* Weak fairness of `Progress`, the disjunction of the handlers'
  steps, Raft committing what was proposed, nodes applying their log and crashed
  nodes coming back: Go's scheduler and Raft's promise while a majority is up.
  One condition for all is weaker than one for each, and enough, as a request
  takes finitely many steps. Elections and changes of belief are not fair.
* *ClusterJoin.* Weak fairness of `Progress`: every `main()` goes on, `Join`
  retries for ever, Raft replicates, commits and elects while it can. Crashes,
  needless elections and removals of socket files are not fair.
* *Search.* Weak fairness of `Progress`: the pools are unbounded, so every walk
  and handler runs; a `put` into a corrupted map and a search of it are excepted.
  Nothing says that a crashed shard is started again, or that a client asks.
* *Spell* has no liveness property.

## 5. Proofs

TLAPS checks eight proof modules, one for each specification of a program. Each
rests on an inductive invariant, which TLC has checked on the run's instance
before it was proved. Every safety property of every passing run is a theorem;
what is left to TLC is listed at the end of this section.

Some properties speak of recursive functions (`ActionsOf`, `Filtered`,
`MessageSchedule`, `Working`). TLAPS 1.4.5 cannot use the library's induction
schemes, which take an operator, so these modules do induction over sets: a
nonempty set of naturals has a least element (`WFMin` for `<`), hence a set that
contains 0 and is closed under successor up to a bound contains all of
`0 .. n`. With it each function is shown to exist, to satisfy its recursion and
to have the type needed, and only these facts are used afterwards.

**`MinerProofs`** (for every number of finds, rivals and deaths, with and without
SIGINT). `ParentAccepted` is not inductive: that a parent was accepted depends
on what `main()` knew when it left its wait loop. `IInv` therefore says

* `LockInv`: which labels hold which mutex;
* `HeadInv`: HEAD was accepted, *or* `updated` is set, *or* HEAD is the commit
  being pushed. The update thread sets `updated` before it clears the pointer,
  so at `lockR`, after the wait and the second test of `updated`, only the
  first case is left;
* `LedgerInv`: at which labels the ledger is one coin ahead of HEAD, and that a
  round given up implies a reset;
* `PushInv`: before a SIGINT the update thread's tests stay true until it holds
  the lock, because only that thread sets `updated`;
* `RepoInv`: refs point to commits that the remote once had.

From it follow `MinerTypes`, `MinerParentAccepted`, `MinerOneCoin`,
`MinerPushHasCommit`, and the action properties `MinerPendingStable` and
`MinerFastForward`. (`MCMiner` extends the proof module, so that `IInv` can be
added to its run.) Assumption: the bounds are natural numbers.

**`ShieldProofs`** (for every finite set of requests, any clients, backends and
parameters). `ShieldInv` joins `BackendBound`, `WorkConserving` and
`NeverUnready` with `PlaceInv` (a request is at a backend exactly while proxied)
and `StatsInv` (a client that is not blackholed has at most `maxRequests`
requests). `WorkConserving` needs the other two: with a request in the queue
every backend is full, hence the slot just freed is the only one, and refilling
it restores the property. `StatsInv` bounds the score's bonus, which gives
`BoundedOvertaking`. `PoliteNeverRejected` needs more, since the shield keeps
only the mean distance of a client's requests: `PoliteInv` says that a client
whose requests are `Apart` sent its latest one at least `maxRate * (count - 1)`
after its first (`Late`), by induction over the client's requests, so that a
mean below `maxRate` convicts only clients that really were too fast.
Assumptions: `Req` is finite, at least one backend, one
flight slot and one request per client.

**`CudaHasherProofs`** (for every number of threads, rounds, grids and every hash
function). `HashInv` adds to the properties: the result word is 0 or a hit of
the current grid (`ResultInv`); a thread that has passed a round did not hit in
it, or its hit is in the word (`RoundInv`); what was found is a hit of the
current commit (`FoundInv`). From it follow exhaustiveness, determinism,
`HasherTypes`, and `HasherRefinement`: every step is a step of
`Hasher` or leaves its variables alone. `DifficultiesServed` is about the
kernel's threshold alone: every hit passes the benchmark's test exactly if the
largest hit does, which is so for the difficulties of at most nine zeros and not
for all that `parse_difficulty` accepts. Assumptions: ids of two rounds do not
overlap (`Threads <= Stride`), digests are two naturals and a rest.

**`ClusterJoinProofs`** (for every finite set of nodes and addresses, any number
of crashes and elections). `JoinInv` is `TypeOK`, `JoinedInv` (a node past
`Join` is a member) and `FoundingInv` (the cluster is founded once, by the first
node); `ServesAsMember` follows. `AbsentAtMostHalf` is not inductive alone:
`SeenInv` adds that whoever holds an entry of the log has listened or is the
founder. The majority that acknowledges a join is then disjoint from the absent
members, so they are a strict minority before the commit and at most half after
it. Assumption: `JoinAssumption`. `DialledAsGiven` is about `Dial` alone: an address
of any length that `Encode` accepts, if it is a path or names its port, is the
one that is dialled.

**`SqlClusterProofs`** (for any nodes, statements, elections and crashes).
`SqlInv` is `TypeOK` with

* `OrderInv`: the actions of a part of the log begin the list of all of them,
  `order`;
* `TableInv`: a node's `DB.actions` are those of the part it has applied;
* `OnceInv`: a statement is proposed only from `do`, and is in the log at most
  once;
* `PlaceInv`: what `Do` returned is the statement's place in `order`;
* `HomeInv`: whoever answers lives, and after `GetWhenReady` its table is long
  enough.

`SqlRefinement` then maps each step: `Commit` is `Table`'s `Execute`, `Respond`
shows `SubSeq(order, 1, index)` although the node's table may have grown since
`GetWhenReady` unlocked, `Issue` and the failures map to their namesakes, and
everything else leaves the table alone. Assumption: `ClusterAssumption`.

**`SearchProofs`** (for any files, texts, hashes and number of shards). `IndexInv`
says that a walk and the index it fills together hold every file of the shard,
and that a set flag means a complete index, both of shards whose map has not
been raced for; `PollInv` carries the yes of a shard that has not crashed until
the poll is collected; `FoundInv` and `SureInv` describe what a query has so far,
the latter for a query asked of a ready service, whose searches no insertion can
have disturbed. `ShardOfFile` and the lemmas around it show that a file belongs to a
shard whatever the sign of its hash. `SearchTypes`, `SearchPollIsTrue` and
`SearchRefinement` follow. The last is about `Service!Safety`: the fairness of
`CodeSearch` is liveness. Assumption: hashes are 32-bit integers and there are
at most `MaxInt` shards.

**`SpellProofs`** (for every dictionary, input, hash function, way of arriving and
size of buffers). `BuildInv`: the bits of every line that counts are set;
`WordInv`: `word` is the part of the input since the last separator, however
many reads ago; `StreamInv`: `written` and `output` together are the filtered form
of what was scanned; `RoomInv`: how full the output buffer is, as the number of
characters since the word that was open at the last read began, plus two for
each word marked since. A tame input bounds both, which gives
`SpellStaysInBuffers`; `SpellFiltersStream`, `SpellKnownWordsPass` and
`SpellTypes` follow from the others. Assumption: `SpellAssumption`, which says
nothing about `Hash`.

**`Sha1BlockProofs`** (for every block, chaining value and nonce). `WindowInv`:
before round `n` the window holds words `n` to `n + 15` of the message schedule,
each at its place modulo 16, as far as there are any; `RegsInv`: the registers
are the standard's working variables. The word that round `n` overwrites is then
the one that the schedule needs sixteen rounds later, the kernel's `f1` and its
majority are the standard's `Ch` and `Maj`, and `Sha1Correct` says that the two words
returned are those of the hash. Assumption: the arguments are words of 32 bits.

**Only model-checked.** The liveness properties (`PushSettled`, `StopEnds`,
`UpdateConsumed`, `SearchEnds`, `QueueDrains`, both `EveryRequestEnds`,
`IndexTakesEffect`, `ClusterForms`, `JoinEnds`) and the fairness of
`ImplementsCodeSearch`: liveness under fairness is outside the prover's reach.
That the reference of `Sha1Block` gives the standard's digests, and the pure
definitions checked by `ASSUME`s (section 3), are evaluations, which is TLC's
work.

## 6. Findings

Each is a counterexample found by the run named, and is quoted against its
source in `PROJECT.json`.

1. `miner_nullpush`: a SIGINT between the update thread's unlocked tests and its
   lock lets `main()` clear `push_commit`; the push then has an empty commit
   name, which for git means: delete master.
2. `shield_expired`: requests are never rejected for their age, because
   `shouldReject` reads a field that does not exist.
3. `sql_word`: a word of 256 letters is stored as the empty word.
4. `join_retry`: a node that dies after its join command was sent, and before it
   listens, can never join again when it is the second one: the cluster counts
   it as a member, needs its acknowledgement for the second join command, and
   the node listens only after that command has committed.

The models also make visible, without a run of their own:

* a blackholed client is still served whenever a backend has a free flight slot
  (`takeRequest`);
* an UPDATE by 0 is treated as an INSERT, so it does not count in `requestCount`
  (`ApplyTo`), and an INSERT erases gdb's word;
* `parse_difficulty` compares forty digits with eight by `strcmp`, so it never
  refuses a target of eight zeros and more, although the kernel looks for nine
  only: such a repository is mined with commits that it may refuse, and the
  benchmark ends with "Bad hash" (`DifficultiesServed` proves which difficulties
  are concerned);
* `StopEnds` documents a hang: SIGINT while `main()` waits for a push can leave
  it waiting after the update thread has ended;
* a second index request while the first one's walk runs may corrupt a shard's
  map (`raced`), which every property of `Search` has to except for that shard;
  a file that cannot be read leaves a shard unindexed for good, which
  `IndexTakesEffect` excepts; the test for NUL bytes in `visitFile` and the
  test `if(!isalpha)` in `level0.c` never do anything (`Indexable`,
  `WriteWord`);
* the last word of an input without a final newline is never written
  (`FiltersStream`).

## 7. What is not modelled

* Failing CUDA calls, whose effect on the result word is the driver's.
* A wall clock that is set back (`Shield`).
* The OpenCL and thread-based searches, the benchmark's loop and the in-process push of
  level 1, the snapshot calls, connection multiplexer and binary transporter of
  level 4, `readIndex` of level 3: not built or never called. A model of code
  that cannot run would have no behaviour to be faithful to.
* An independent reading of octal increments and of INSERT as SQL: the `sql` run
  executes them as the code reads them, and `AnswerIsSql` is about the length of
  a word only.
* Which bits `hash.c` computes: no property depends on them, and the rate of
  false positives is not a property of a behaviour.
* Short writes of level 0, beyond having them in the model: the code drops
  output there and nothing can be claimed.
* Flags, logging, formatting of tables.
* libgit2 and libssh2. They are unmodified third-party releases and make up 98%
  of the lines under `src/`; measured against all of them the map stays below
  one or two percent however much of this repository's own code it covers.
  Level 1 uses libgit2 for a handful of calls on refs, the index and objects,
  which `Miner` models by contract; libssh2 is not called by the code at all.

## 8. Plan

Every program of the repository is modelled and every safety property that a
run checks is proved. What is left is to state more where a proof shows more
than is claimed so far:

1. `ClusterJoin`: which nodes can be reached, from `DialledAsGiven` and
   `ServesAsMember` together.
2. `Search`: that a file is in one shard only, so that no match is reported
   twice.
