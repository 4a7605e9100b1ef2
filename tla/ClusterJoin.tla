----------------------------- MODULE ClusterJoin -----------------------------
(***************************************************************************)
(* How the cluster of level4 comes together (cluster.go ListenAndServe,    *)
(* Join, joinHandler).  The first node founds the cluster by joining       *)
(* itself; every other node posts a join command to the first one, again   *)
(* and again until it succeeds, and only then starts to listen; a node     *)
(* whose Raft log is not empty does neither.                               *)
(*                                                                         *)
(* Raft, a library, is modelled by its contract: a join command commits    *)
(* when a majority of the members so far has it, which a member gets only  *)
(* by listening (SendAppendEntriesRequest); it then counts as a member. A  *)
(* leader is elected by a majority (SendVoteRequest), from those that have *)
(* every committed entry.                                                  *)
(*                                                                         *)
(* Nodes crash and are started again.  The socket file of a Unix address   *)
(* is never unlinked, so such a node cannot listen a second time until     *)
(* somebody removes it.  HTTP requests between nodes fail only by a crash. *)
(***************************************************************************)
EXTENDS Dial, FiniteSets

CONSTANTS Node,
          First,         \* the node started without --join; the others join it
          Address,       \* -l of each node
          Alnum,         \* alphanumeric characters
          None,          \* no leader
          MaxCrashes,    \* bound: crashes of nodes
          MaxElections   \* bound: leaders replaced without a crash

ASSUME JoinAssumption ==
    /\ First \in Node /\ None \notin Node /\ IsFiniteSet(Node)
    /\ \A n \in Node : Address[n] # <<>>
    /\ \A m, n \in Node : Address[m] = Address[n] => m = n
    /\ MaxCrashes \in Nat /\ MaxElections \in Nat

VARIABLES
    pc,          \* of a node: "down", "boot", "joining", "posted", "answered",
                 \* "ready" (to listen), "listening" or "fatal"
    members,     \* nodes whose join command is committed
    hasLog,      \* nodes whose Raft log is not empty
    synced,      \* nodes whose log holds everything committed
    leader,
    proposals,   \* nodes whose join command is in the leader's log only
    sockets,     \* nodes whose socket has been created
    seen,        \* nodes that have been listening at some time
    crashes, elections

vars == <<pc, members, hasLog, synced, leader, proposals, sockets, seen, crashes, elections>>
raft == <<members, hasLog, synced, leader>>
bounds == <<crashes, elections>>

-----------------------------------------------------------------------------
\* The nodes whose connection string leads back to them, and those whose
\* address Encode accepts.
Diallable == {n \in Node : Dialled(Address[n]) = Address[n]}
Valid == {n \in Node : Encodable(Address[n], Alnum)}

\* A connection to the node is accepted.
Reachable(n) == pc[n] = "listening" /\ n \in Diallable

\* The members that answer AppendEntries or RequestVote of node n.
Acks(n) == {m \in members : m = n \/ Reachable(m)}
Quorum(n) == 2 * Cardinality(Acks(n)) > Cardinality(members)

Init ==
    /\ pc = [n \in Node |-> "down"]
    /\ members = {} /\ hasLog = {} /\ synced = {} /\ leader = None
    /\ proposals = {} /\ sockets = {} /\ seen = {}
    /\ crashes = 0 /\ elections = 0

\* The process starts; ListenAndServe as far as the three ways to begin.
\* An address that cannot be encoded ends it (log.Fatal).
Start(n) ==
    /\ pc[n] = "down"
    /\ pc' = [pc EXCEPT ![n] =
                IF n \in hasLog THEN "ready"
                ELSE IF ~({n, First} \subseteq Valid) THEN "fatal"
                ELSE IF n = First THEN "boot" ELSE "joining"]
    /\ UNCHANGED <<raft, proposals, sockets, seen, bounds>>

\* raftServer.Do(DefaultJoinCommand of itself): alone, it leads and commits.
SelfJoin ==
    /\ pc[First] = "boot"
    /\ pc' = [pc EXCEPT ![First] = "ready"]
    /\ members' = {First} /\ hasLog' = {First} /\ synced' = {First} /\ leader' = First
    /\ UNCHANGED <<proposals, sockets, seen, bounds>>

\* Mutant of Post: Join returns the error of a post that fails.
PostOnce(n) ==
    /\ pc[n] = "joining"
    /\ IF Reachable(First) /\ leader = First
       THEN pc' = [pc EXCEPT ![n] = "posted"] /\ proposals' = proposals \cup {n}
       ELSE pc' = [pc EXCEPT ![n] = "fatal"] /\ UNCHANGED proposals
    /\ UNCHANGED <<raft, sockets, seen, bounds>>

\* Join posts the command and joinHandler hands it to raftServer.Do.  If the
\* first node cannot be reached or does not lead, the post fails and Join
\* tries again: nothing has changed.
Post(n) ==
    /\ pc[n] = "joining" /\ Reachable(First) /\ leader = First
    /\ pc' = [pc EXCEPT ![n] = "posted"]
    /\ proposals' = proposals \cup {n}
    /\ UNCHANGED <<raft, sockets, seen, bounds>>

\* Mutant of Commit: no majority is asked.
CommitAlone(n) ==
    /\ n \in proposals /\ leader # None
    /\ members' = members \cup {n}
    /\ synced' = Acks(leader) /\ hasLog' = hasLog \cup Acks(leader)
    /\ proposals' = proposals \ {n}
    /\ pc' = [pc EXCEPT ![n] = IF @ = "posted" THEN "answered" ELSE @]
    /\ UNCHANGED <<leader, sockets, seen, bounds>>

\* A majority acknowledges the command (others may lag behind), it commits, Do
\* returns and joinHandler answers.
Commit(n) ==
    /\ n \in proposals /\ leader # None
    /\ members' = members \cup {n}
    /\ \E acks \in SUBSET Acks(leader) :
         /\ leader \in acks /\ 2 * Cardinality(acks) > Cardinality(members)
         /\ synced' = acks /\ hasLog' = hasLog \cup acks
    /\ proposals' = proposals \ {n}
    /\ pc' = [pc EXCEPT ![n] = IF @ = "posted" THEN "answered" ELSE @]
    /\ UNCHANGED <<leader, sockets, seen, bounds>>

\* Mutant of Answer: Join gives up after the first failure and goes on.
AnswerAnyhow(n) ==
    /\ pc[n] \in {"joining", "answered"}
    /\ pc' = [pc EXCEPT ![n] = "ready"]
    /\ UNCHANGED <<raft, proposals, sockets, seen, bounds>>

\* The answer arrives, and Join returns.
Answer(n) ==
    /\ pc[n] = "answered"
    /\ pc' = [pc EXCEPT ![n] = "ready"]
    /\ UNCHANGED <<raft, proposals, sockets, seen, bounds>>

\* transport.Listen, then Serve.
Listen(n) ==
    /\ pc[n] = "ready"
    /\ IF Unix(Address[n]) /\ n \in sockets
       THEN pc' = [pc EXCEPT ![n] = "fatal"] /\ UNCHANGED <<sockets, seen>>
       ELSE /\ pc' = [pc EXCEPT ![n] = "listening"]
            /\ sockets' = sockets \cup {n} /\ seen' = seen \cup {n}
    /\ UNCHANGED <<raft, proposals, bounds>>

\* SendAppendEntriesRequest brings a member up to date.
Replicate(n) ==
    /\ leader # None /\ n \in members \ synced /\ Reachable(n)
    /\ synced' = synced \cup {n} /\ hasLog' = hasLog \cup {n}
    /\ UNCHANGED <<pc, members, leader, proposals, sockets, seen, bounds>>

\* What becomes of the join commands that a leader has not committed.
Orphaned == proposals' \in {proposals, {}}

\* The posts that the first node has not answered fail.
Failing(p) == IF p \in {"posted", "answered"} THEN "joining" ELSE p

\* Mutant of Elect: a node that has not joined yet stands as well.
ElectUnjoined(n) ==
    /\ pc[n] \in {"joining", "ready", "listening"} /\ n # leader /\ Quorum(n)
    /\ IF leader = None THEN UNCHANGED elections
       ELSE elections < MaxElections /\ elections' = elections + 1
    /\ leader' = n /\ Orphaned
    /\ pc' = [m \in Node |-> IF pc[m] = "posted" THEN "joining" ELSE pc[m]]
    /\ UNCHANGED <<members, hasLog, synced, sockets, seen, crashes>>

\* Mutant of Elect: Do on the old leader never returns.
ElectUnnoticed(n) ==
    /\ n \in synced /\ pc[n] \in {"ready", "listening"} /\ n # leader /\ Quorum(n)
    /\ IF leader = None THEN UNCHANGED elections
       ELSE elections < MaxElections /\ elections' = elections + 1
    /\ leader' = n /\ Orphaned
    /\ UNCHANGED <<pc, members, hasLog, synced, sockets, seen, crashes>>

\* SendVoteRequest: a majority elects another leader; Do fails on the old one.
Elect(n) ==
    /\ n \in synced /\ pc[n] \in {"ready", "listening"} /\ n # leader /\ Quorum(n)
    /\ IF leader = None THEN UNCHANGED elections
       ELSE elections < MaxElections /\ elections' = elections + 1
    /\ leader' = n /\ Orphaned
    /\ pc' = [m \in Node |-> IF pc[m] = "posted" THEN "joining" ELSE pc[m]]
    /\ UNCHANGED <<members, hasLog, synced, sockets, seen, crashes>>

Crash(n) ==
    /\ crashes < MaxCrashes /\ crashes' = crashes + 1
    /\ pc[n] \notin {"down", "fatal"}
    /\ pc' = [m \in Node |-> IF m = n THEN "down"
                             ELSE IF n = First THEN Failing(pc[m]) ELSE pc[m]]
    /\ IF leader = n THEN leader' = None /\ Orphaned ELSE UNCHANGED <<leader, proposals>>
    /\ UNCHANGED <<members, hasLog, synced, sockets, seen, elections>>

\* Somebody removes the socket file and starts the node again.
CleanUp(n) ==
    /\ pc[n] = "fatal" /\ n \in sockets
    /\ pc' = [pc EXCEPT ![n] = "down"] /\ sockets' = sockets \ {n}
    /\ UNCHANGED <<raft, proposals, seen, bounds>>

NodeStep(n) ==
    \/ Start(n) \/ Post(n) \/ Commit(n) \/ Answer(n) \/ Listen(n) \/ Replicate(n)
    \/ leader = None /\ Elect(n)

Next ==
    \/ SelfJoin
    \/ \E n \in Node : NodeStep(n) \/ Elect(n) \/ Crash(n) \/ CleanUp(n)

Spec == Init /\ [][Next]_vars

(***************************************************************************)
(* Every node's main goroutine goes on, Join tries for ever, and Raft      *)
(* replicates, commits and elects while it can.                            *)
(***************************************************************************)
Progress == SelfJoin \/ \E n \in Node : NodeStep(n)

FairSpec == Spec /\ WF_vars(Progress)

-----------------------------------------------------------------------------
\* Types of the nodes' control state and of Raft's.
TypeOK ==
    /\ pc \in [Node -> {"down", "boot", "joining", "posted", "answered", "ready",
                        "listening", "fatal"}]
    /\ members \subseteq Node /\ hasLog \subseteq members /\ synced \subseteq hasLog
    /\ leader \in members \cup {None}
    /\ proposals \subseteq Node /\ sockets \subseteq Node /\ seen \subseteq Node
    /\ crashes \in 0 .. MaxCrashes /\ elections \in 0 .. MaxElections

(***************************************************************************)
(* A node serves statements only as a member of the one cluster, although  *)
(* it may crash, retry and come back at any step of joining it.            *)
(***************************************************************************)
ServesAsMember == \A n \in Node : pc[n] = "listening" => n \in members

(***************************************************************************)
(* Joining may take away the majority, but only by one answer: of the      *)
(* members, at most half have joined and never listened.  (A node becomes  *)
(* a member before it listens.)                                            *)
(***************************************************************************)
AbsentAtMostHalf ==
    2 * Cardinality((members \ seen) \ {First}) <= Cardinality(members)

Undisturbed == crashes + elections = 0

(***************************************************************************)
(* The cluster of the usage text (main.go 47-52) forms, in whatever order  *)
(* the commands are run: undisturbed, every node that has a valid address  *)
(* comes to serve.  Addresses survive their way through the HTTP library.  *)
(***************************************************************************)
ClusterForms == <>(~Undisturbed \/ \A n \in Valid : pc[n] = "listening")

(***************************************************************************)
(* What Join's endless loop needs: once the first node leads for good and  *)
(* has a majority, no node is left joining.                                *)
(***************************************************************************)
JoinEnds ==
    <>[](leader = First /\ Reachable(First) /\ Quorum(First))
        => []<>(\A n \in Node : pc[n] \notin {"joining", "posted", "answered"})

(***************************************************************************)
(* "Joins to the leader of an existing cluster." (cluster.go 130): as long *)
(* as nobody takes the first node's lead, a node that has to join comes to *)
(* serve, if it or the first node crashes on the way too.                  *)
(***************************************************************************)
JoinSurvivesCrash ==
    \/ <>(elections > 0)
    \/ []<>(\A n \in Node : pc[n] \notin {"joining", "posted", "answered"})
=============================================================================
