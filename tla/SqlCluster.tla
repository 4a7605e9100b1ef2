----------------------------- MODULE SqlCluster -----------------------------
(***************************************************************************)
(* The replicated table of level4: server.go takes SQL statements over     *)
(* HTTP, cluster.go runs them through Raft, locally or by forwarding them  *)
(* to the leader, and db.go keeps on every node the list of actions that   *)
(* Raft applied, from which a response is computed once the node's own     *)
(* list is long enough.                                                    *)
(*                                                                         *)
(* Raft itself is a library outside the repository.  It is modelled by its *)
(* contract as the code uses it: Do() on a node that believes it is leader *)
(* proposes a command; a proposal commits at most once, at any later time, *)
(* even if Do() has meanwhile returned an error; all nodes apply the same  *)
(* log in order; leaders change and nodes learn of it late.  HTTP between  *)
(* nodes may lose a request or its response.                               *)
(*                                                                         *)
(* The cluster is one whose nodes have joined.                             *)
(***************************************************************************)
EXTENDS Integers, Sequences, SequencesExt

CONSTANTS Node,        \* cluster members
          Req,         \* client requests
          Stmt,        \* the statement of each request: its kind and, of an
                       \* update, row name, digits of the increment, word and
                       \* length of the word
          RowNames,    \* the names the table knows
          Gdb,         \* the name that an INSERT is turned into an update of
          None,        \* no leader known
          MaxElections,\* bound: changes of leader
          MaxCrashes   \* bound: node crashes

NOP == "nop"       \* the entry a new leader writes; it is not an action

ASSUME ClusterAssumption ==
    /\ None \notin Node /\ NOP \notin Req /\ Gdb \in RowNames
    /\ \A q \in Req : /\ Stmt[q].kind \in {"update", "insert", "other"}
                      /\ Stmt[q].digits \in Seq(0 .. 9) /\ Stmt[q].digits # <<>>
                      /\ Stmt[q].len \in Nat
    /\ MaxElections \in Nat /\ MaxCrashes \in Nat

VARIABLES
    leader, view,      \* the elected leader; raftServer.Leader() of each node
    up,                \* is the process of a node running?
    log, pending,      \* committed Raft log; proposals not yet committed
    applied,           \* how much of the log each node has applied
    actions,           \* DB.actions of each node
    pc, at, home,      \* of a request: its step, where Do() runs, who took it
    index,             \* the value Do() returned for it
    answer,            \* the rows in its response
    elections, crashes

raft  == <<leader, view, log, pending>>
nodes == <<up, applied, actions>>
bounds == <<elections, crashes>>
vars == <<leader, view, up, log, pending, applied, actions, pc, at, home,
          index, answer, elections, crashes>>

-----------------------------------------------------------------------------
(***************************************************************************)
(* Statements and the actions made of them.                                *)
(***************************************************************************)

\* strconv.ParseUint(digits, 0, 8): base 0 reads a leading 0 as octal.
Base(digits) == IF digits[1] = 0 THEN 8 ELSE 10
ParseUint(digits) ==
    FoldLeft(LAMBDA v, d : v * Base(digits) + d, 0, digits)
Parses(digits) ==
    /\ \A i \in 1 .. Len(digits) : digits[i] < Base(digits)
    /\ ParseUint(digits) <= 255

\* The statements that reach s.do(action).
Accepted(st) ==
    \/ st.kind = "insert"
    \/ st.kind = "update" /\ Parses(st.digits) /\ st.row \in RowNames

NoWord == [text |-> "", len |-> 0]
Word(text, len) == IF len = 0 THEN NoWord ELSE [text |-> text, len |-> len]

\* The action of a statement; an INSERT is updateHandler(w, "gdb", 0, "").
ActionOf(st) ==
    IF st.kind = "insert" THEN [row |-> Gdb, inc |-> 0, word |-> NoWord]
    ELSE [row |-> st.row, inc |-> ParseUint(st.digits), word |-> Word(st.word, st.len)]

\* Action.Encode, then Decode: the length of the word travels as a uint8, and
\* only so many of its characters are read back.
Wire(action) ==
    [action EXCEPT !.word = Word(@.text, @.len % 256)]

(***************************************************************************)
(* The table.  Rows are computed from the list of actions on every read.   *)
(***************************************************************************)
NewRow == [friendCount |-> 0, requestCount |-> 0, favoriteWord |-> NoWord]
NewRows == [r \in RowNames |-> NewRow]

\* One round of the loop in DB.Get.
ApplyTo(rows, q) ==
    LET a == Wire(ActionOf(Stmt[q]))
    IN  [rows EXCEPT ![a.row] =
            [friendCount  |-> @.friendCount + a.inc,
             requestCount |-> IF a.inc > 0 THEN @.requestCount + 1
                              ELSE @.requestCount,
             favoriteWord |-> a.word]]

RowsAfter(qs) == FoldLeft(ApplyTo, NewRows, qs)

\* Mutant of Get: all actions instead of the first i.
GetAll(n, i) == RowsAfter(actions[n])

\* DB.Get(i)
Get(n, i) == RowsAfter(SubSeq(actions[n], 1, i))

\* The actions among Raft's log entries.
IsAction(e) == e # NOP
ActionsOf(entries) ==
    LET first[i \in 0 .. Len(entries)] ==
          IF i = 0 THEN <<>>
          ELSE IF IsAction(entries[i]) THEN Append(first[i - 1], entries[i])
               ELSE first[i - 1]
    IN  first[Len(entries)]

-----------------------------------------------------------------------------
Init ==
    /\ leader \in Node
    /\ view \in {[n \in Node |-> leader], [n \in Node |-> None]}
    /\ up = [n \in Node |-> TRUE]
    /\ log = <<>> /\ pending = {}
    /\ applied = [n \in Node |-> 0]
    /\ actions = [n \in Node |-> <<>>]
    /\ pc = [q \in Req |-> "new"]
    /\ at = [q \in Req |-> None]
    /\ home = [q \in Req |-> None]
    /\ index = [q \in Req |-> 0]
    /\ answer = [q \in Req |-> NewRows]
    /\ elections = 0 /\ crashes = 0

\* A client's statement reaches a node: sqlHandler, then updateHandler up to
\* s.do(action).  The others are bad requests.
Issue(q, n) ==
    /\ pc[q] = "new" /\ up[n]
    /\ pc' = [pc EXCEPT ![q] = IF Accepted(Stmt[q]) THEN "route" ELSE "refused"]
    /\ home' = [home EXCEPT ![q] = n]
    /\ UNCHANGED <<raft, nodes, at, index, answer, bounds>>

\* switch c.raftServer.State().  The case raft.Stopped does not occur: a node
\* serves requests only after Start, and nothing calls Stop.
Route(q) ==
    /\ pc[q] = "route"
    /\ IF view[home[q]] = home[q]
       THEN pc' = [pc EXCEPT ![q] = "do"] /\ at' = [at EXCEPT ![q] = home[q]]
       ELSE pc' = [pc EXCEPT ![q] = "lookup"] /\ UNCHANGED at
    /\ UNCHANGED <<raft, nodes, home, index, answer, bounds>>

\* if c.raftServer.Leader() == "" : No leader elected
Lookup(q) ==
    /\ pc[q] = "lookup"
    /\ pc' = [pc EXCEPT ![q] = IF view[home[q]] = None THEN "refused" ELSE "peer"]
    /\ UNCHANGED <<raft, nodes, at, home, index, answer, bounds>>

\* c.raftServer.Peers()[c.raftServer.Leader()] reads the leader once more; a
\* node is not among its own peers.
Peer(q) ==
    LET n == home[q]
    IN  /\ pc[q] = "peer"
        /\ IF view[n] \in {None, n}
           THEN pc' = [pc EXCEPT ![q] = "refused"] /\ UNCHANGED at
           ELSE pc' = [pc EXCEPT ![q] = "do"] /\ at' = [at EXCEPT ![q] = view[n]]
        /\ UNCHANGED <<raft, nodes, home, index, answer, bounds>>

\* The forwarded request is lost, or the leader is down.
PostFails(q) ==
    /\ pc[q] = "do" /\ at[q] # home[q]
    /\ pc' = [pc EXCEPT ![q] = "failed"]
    /\ UNCHANGED <<raft, nodes, at, home, index, answer, bounds>>

\* raftServer.Do(cmd), in Do or in doHandler of the node it was forwarded to.
Propose(q) ==
    /\ pc[q] = "do" /\ up[at[q]]
    /\ IF view[at[q]] = at[q]
       THEN pc' = [pc EXCEPT ![q] = "proposed"] /\ pending' = pending \cup {q}
       ELSE pc' = [pc EXCEPT ![q] = "refused"] /\ UNCHANGED pending
    /\ UNCHANGED <<leader, view, log, nodes, at, home, index, answer, bounds>>

\* Do() returns an error after all, for instance because the leader stepped
\* down: the proposal may be dropped or may still commit.
DoFails(q) ==
    /\ pc[q] = "proposed"
    /\ pc' = [pc EXCEPT ![q] = "failed"]
    /\ pending' \in {pending, pending \ {q}}
    /\ UNCHANGED <<leader, view, log, nodes, at, home, index, answer, bounds>>

\* Raft commits a proposal.
Commit(q) ==
    /\ q \in pending
    /\ log' = Append(log, q) /\ pending' = pending \ {q}
    /\ UNCHANGED <<leader, view, nodes, pc, at, home, index, answer, bounds>>

\* Mutant of Put: Broadcast is forgotten.
PutSilently(n, q) ==
    /\ actions' = [actions EXCEPT ![n] = Append(@, q)]
    /\ index' = [index EXCEPT ![q] = IF at[q] = n /\ pc[q] = "proposed"
                                     THEN Len(actions[n]) + 1 ELSE @]
    /\ pc' = [pc EXCEPT ![q] = IF at[q] = n /\ @ = "proposed" THEN "done" ELSE @]

\* Mutant of Put: the length is taken before the append.
PutEarlyLen(n, q) ==
    /\ actions' = [actions EXCEPT ![n] = Append(@, q)]
    /\ index' = [index EXCEPT ![q] = IF at[q] = n /\ pc[q] = "proposed"
                                     THEN Len(actions[n]) ELSE @]
    /\ pc' = [p \in Req |->
                IF p = q /\ at[q] = n /\ pc[q] = "proposed" THEN "done"
                ELSE IF home[p] = n /\ pc[p] = "wait" THEN "get" ELSE pc[p]]

\* DB.Put: append, broadcast to the waiters of GetWhenReady on this node, and
\* return the new length, which is what a Do() waiting here returns.
Put(n, q) ==
    /\ actions' = [actions EXCEPT ![n] = Append(@, q)]
    /\ index' = [index EXCEPT ![q] = IF at[q] = n /\ pc[q] = "proposed"
                                     THEN Len(actions[n]) + 1 ELSE @]
    /\ pc' = [p \in Req |->
                IF p = q /\ at[q] = n /\ pc[q] = "proposed" THEN "done"
                ELSE IF home[p] = n /\ pc[p] = "wait" THEN "get" ELSE pc[p]]

\* A node applies the next log entry: Action.Apply for an action.
Apply(n) ==
    /\ up[n] /\ applied[n] < Len(log)
    /\ applied' = [applied EXCEPT ![n] = @ + 1]
    /\ LET e == log[applied[n] + 1]
       IN  IF IsAction(e) THEN Put(n, e) ELSE UNCHANGED <<actions, index, pc>>
    /\ UNCHANGED <<raft, up, at, home, answer, bounds>>

\* Do() returns: locally, or as doHandler's response, which may get lost.
Return(q) ==
    /\ pc[q] = "done"
    /\ \/ pc' = [pc EXCEPT ![q] = "get"]
       \/ at[q] # home[q] /\ pc' = [pc EXCEPT ![q] = "failed"]
    /\ UNCHANGED <<raft, nodes, at, home, index, answer, bounds>>

\* GetWhenReady: under the mutex, compare; then unlock, or Wait() on the cond.
GetWhenReady(q) ==
    /\ pc[q] = "get"
    /\ pc' = [pc EXCEPT ![q] = IF Len(actions[home[q]]) >= index[q]
                               THEN "ready" ELSE "wait"]
    /\ UNCHANGED <<raft, nodes, at, home, index, answer, bounds>>

\* db.Get(index), under a lock taken anew; then the response, which shows the
\* rows unless the increment is 0.
Respond(q) ==
    /\ pc[q] = "ready"
    /\ answer' = [answer EXCEPT ![q] = IF ActionOf(Stmt[q]).inc > 0
                                       THEN Get(home[q], index[q]) ELSE @]
    /\ pc' = [pc EXCEPT ![q] = "ok"]
    /\ UNCHANGED <<raft, nodes, at, home, index, bounds>>

-----------------------------------------------------------------------------
\* Raft elects another leader, which writes a NOP.
Elect(n) ==
    /\ elections < MaxElections /\ up[n] /\ n # leader
    /\ leader' = n /\ elections' = elections + 1
    /\ view' = [view EXCEPT ![n] = n]
    /\ log' = Append(log, NOP)
    /\ UNCHANGED <<pending, nodes, pc, at, home, index, answer, crashes>>

\* A node learns who leads, or times out and stops believing in its leader.
Learn(n) ==
    /\ up[n]
    /\ view' \in {[view EXCEPT ![n] = leader], [view EXCEPT ![n] = None]}
    /\ view' # view
    /\ view'[n] = None => n # leader
    /\ UNCHANGED <<leader, log, pending, nodes, pc, at, home, index, answer, bounds>>

\* A node dies; its handlers and the answers they owe die with it.
Crash(n) ==
    /\ crashes < MaxCrashes /\ up[n] /\ crashes' = crashes + 1
    /\ up' = [up EXCEPT ![n] = FALSE]
    /\ pc' = [q \in Req |->
                IF \/ home[q] = n /\ pc[q] \notin {"new", "ok", "refused", "failed"}
                   \/ at[q] = n /\ pc[q] \in {"proposed", "done"}
                THEN "failed" ELSE pc[q]]
    /\ UNCHANGED <<raft, applied, actions, at, home, index, answer, elections>>

\* The node comes back with an empty DB; Raft replays its log into it.
Restart(n) ==
    /\ ~up[n]
    /\ up' = [up EXCEPT ![n] = TRUE]
    /\ view' = [view EXCEPT ![n] = None]
    /\ applied' = [applied EXCEPT ![n] = 0]
    /\ actions' = [actions EXCEPT ![n] = <<>>]
    /\ UNCHANGED <<leader, log, pending, pc, at, home, index, answer, bounds>>

RequestStep(q) ==
    \/ Route(q) \/ Lookup(q) \/ Peer(q) \/ PostFails(q) \/ Propose(q)
    \/ DoFails(q) \/ Return(q) \/ GetWhenReady(q) \/ Respond(q)

Finished ==
    /\ \A q \in Req : pc[q] \in {"ok", "refused", "failed"}
    /\ UNCHANGED vars

Next ==
    \/ \E q \in Req : RequestStep(q) \/ Commit(q) \/ \E n \in Node : Issue(q, n)
    \/ \E n \in Node : Apply(n) \/ Elect(n) \/ Learn(n) \/ Crash(n) \/ Restart(n)
    \/ Finished

Spec == Init /\ [][Next]_vars

(***************************************************************************)
(* Go schedules every handler; Raft commits what is proposed or gives it   *)
(* up; nodes that crashed come back and every node catches up.  A request  *)
(* needs finitely many of these steps, so it is enough that one of them is *)
(* taken whenever one can be.                                              *)
(***************************************************************************)
Progress ==
    \/ \E q \in Req : RequestStep(q) \/ Commit(q)
    \/ \E n \in Node : Apply(n) \/ Restart(n)

Fairness == WF_vars(Progress)

FairSpec == Spec /\ Fairness

-----------------------------------------------------------------------------
Steps == {"new", "route", "lookup", "peer", "do", "proposed", "done", "get",
          "wait", "ready", "ok", "refused", "failed"}
Entries == Req \cup {NOP}

\* Types of Raft's state, the nodes' and the requests'.
TypeOK ==
    /\ leader \in Node /\ view \in [Node -> Node \cup {None}]
    /\ up \in [Node -> BOOLEAN]
    /\ log \in Seq(Entries) /\ pending \in SUBSET Req
    /\ applied \in [Node -> Nat] /\ \A n \in Node : applied[n] <= Len(log)
    /\ actions \in [Node -> Seq(Req)]
    /\ pc \in [Req -> Steps]
    /\ at \in [Req -> Node \cup {None}] /\ home \in [Req -> Node \cup {None}]
    /\ index \in [Req -> Nat]
    /\ \A q \in Req : pc[q] \in {"done", "get", "wait", "ready", "ok"} => index[q] > 0
    /\ elections \in Nat /\ crashes \in Nat

(***************************************************************************)
(* The cluster is one table (linearizability): whichever node answers and  *)
(* however far it is behind or ahead of the leader, a response reports the *)
(* place of its own update among all updates and the rows as of it; the    *)
(* update took effect once, after the statement arrived and before the     *)
(* response; a refused statement has no effect, then or later; a failed    *)
(* one has at most one.                                                    *)
(***************************************************************************)
order == ActionsOf(log)
status == [q \in Req |-> IF pc[q] \in {"new", "ok", "refused", "failed"} THEN pc[q]
                         ELSE "open"]
place == [q \in Req |-> IF pc[q] = "ok" THEN index[q] ELSE 0]
Shows(q) == ActionOf(Stmt[q]).inc > 0

TheTable == INSTANCE Table

ImplementsTable == TheTable!Spec

(***************************************************************************)
(* Every statement a node takes is answered, refused or fails: none stays  *)
(* outstanding.  In particular a handler that waits in GetWhenReady is not *)
(* left asleep: the Put that completes its actions wakes it.               *)
(***************************************************************************)
EveryRequestEnds ==
    []<>(\A q \in Req : pc[q] \in {"new", "ok", "refused", "failed"})

\* An update as its text reads, and as SQL would run it.
Decimal(digits) == FoldLeft(LAMBDA v, d : v * 10 + d, 0, digits)
Sql(rows, q) ==
    IF Stmt[q].kind = "insert" THEN rows
    ELSE [rows EXCEPT ![Stmt[q].row] =
            [friendCount  |-> @.friendCount + Decimal(Stmt[q].digits),
             requestCount |-> @.requestCount + 1,
             favoriteWord |-> Word(Stmt[q].word, Stmt[q].len)]]

(***************************************************************************)
(* What the statements that updateMatcher accepts say (server.go line 43): *)
(* friendCount=friendCount+n, requestCount=requestCount+1,                 *)
(* favoriteWord="w".  The rows in a response are the result of running the *)
(* updates up to it as SQL.                                                *)
(***************************************************************************)
AnswerIsSql ==
    \A q \in Req : pc[q] = "ok" /\ ActionOf(Stmt[q]).inc > 0 =>
        answer[q] = FoldLeft(Sql, NewRows, SubSeq(ActionsOf(log), 1, index[q]))
=============================================================================
