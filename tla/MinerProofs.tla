---------------------------- MODULE MinerProofs ----------------------------
(***************************************************************************)
(* Proofs about the miner, for every number of finds, rivals and exits.    *)
(* They rest on one inductive invariant, IInv, whose parts say which label *)
(* holds which lock, what is known of the commit under HEAD, and in which  *)
(* round LEDGER.txt is one coin ahead of HEAD.                             *)
(***************************************************************************)
EXTENDS Miner, TLAPS

\* Labels at which each thread holds commit_mutex and update_mutex.
MainC == {"lockU", "reset", "clear", "drop", "unlock", "commit", "publish"}
MainU == {"reset", "clear", "drop", "unlock"}
WorkerC == {"push", "lockU", "fetch", "clear"}
WorkerU == {"fetch", "flag"}

\* Labels between prepare_index() and commit_result().
Mining == {"spawn", "hash", "kernel", "test", "wait", "retest", "lockR", "commit"}

Alive == main # "dead"

\* The repositories: refs point to commits the remote once had, and the
\* ancestors of a commit are commits.
RepoInv ==
    /\ remote_master # 0 => remote_master \in accepted
    /\ origin_master # 0 => origin_master \in accepted
    /\ \A c \in Ids : odb[c].anc \in SUBSET Ids /\ odb[c].parent \in 0 .. Len(odb)
    /\ \A c \in Mined : odb[c].parent \in Ids

\* Every lock has the owner that the labels say.
LockInv ==
    /\ main = "dead" <=> worker = "dead"
    /\ Alive =>
         /\ commit_mutex = "main" <=> main \in MainC
         /\ commit_mutex = "worker" <=> worker \in WorkerC
         /\ update_mutex = "main" <=> main \in MainU
         /\ update_mutex = "worker" <=> worker \in WorkerU

\* HEAD was accepted, or is being pushed, or will be reset.
HeadInv ==
    /\ push_commit = Curr => curr_commit \in Ids
    /\ Alive =>
         /\ \/ head \in accepted
            \/ updated = 1
            \/ head = curr_commit /\ (push_commit = Curr \/ main = "publish")
         /\ worker = "clear" => head \in accepted \/ updated = 1
         /\ main \in {"clear", "drop", "lockR", "commit"} => head \in accepted
         /\ main \in {"retest", "lockR", "commit", "publish"} => push_commit = NULL
         /\ main = "publish" => head = curr_commit /\ curr_commit \in Ids
         /\ main \in Mining => msg.parent = head

\* LEDGER.txt is what HEAD's tree says, plus the coin being mined.
LedgerInv ==
    Alive =>
      /\ main = "top" => ledger = odb[head].coins \/ updated = 1 \/ stop = 1
      /\ main \in {"lockC", "lockU", "reset"} => ledger = odb[head].coins \/ updated = 1
      /\ main \in {"clear", "drop", "unlock", "prepare", "publish"} =>
           ledger = odb[head].coins
      /\ main \in Mining => msg.coins = odb[head].coins + 1 /\ ledger = msg.coins
      /\ main = "test" => found = 1 \/ updated = 1 \/ stop = 1

\* Before SIGINT, the update thread's tests of push_commit stay true.
PushInv ==
    sig = "none" =>
      /\ worker \notin {"check", "lockF", "flag"}
      /\ worker \in {"test2", "lock"} \cup WorkerC => push_commit = Curr
      /\ worker \in {"test1", "test2", "lock", "push", "lockU", "fetch"} => updated = 0
      /\ main = "clear" => updated = 1
      /\ main = "drop" => push_commit = NULL
      /\ updated = 1 /\ main # "dead" /\ worker # "clear" =>
           push_commit = NULL /\ main \notin {"lockR", "commit", "publish"}

(***************************************************************************)
(* The inductive invariant of the miner.  ParentAccepted and               *)
(* OneCoinPerCommit are only inductive together with what the threads know *)
(* of each other at every label.                                           *)
(***************************************************************************)
IInv ==
    /\ TypeOK /\ RepoInv /\ LockInv /\ HeadInv /\ LedgerInv /\ PushInv
    /\ ParentAccepted /\ OneCoinPerCommit

(***************************************************************************)
(* The steps that are hard on the invariant: they move a ref, append a     *)
(* commit, or start and end the process.  All others are quiet.            *)
(***************************************************************************)
QuietNext ==
    \/ LoopTop \/ LockCommit \/ LockUpdate \/ ClearUpdated \/ DropPush
    \/ UnlockBoth \/ prepare_index \/ SpawnHash \/ HashLoop \/ HashFound
    \/ HashMissed \/ TestFound \/ WaitPush \/ Retest \/ LockResult \/ Publish
    \/ JoinWorker \/ WorkerTop \/ WorkerTest \/ WorkerTest1 \/ WorkerTest2
    \/ WorkerLock \/ PushNull \/ FetchAndFlag \/ WorkerClear \/ check_updates
    \/ WorkerLockF \/ WorkerFlag \/ HandlerStop \/ HandlerUpdated
    \/ Terminated

\* What TypeOK says of each commit, in the form the steps below need.
LEMMA OdbType ==
    ASSUME TypeOK
    PROVE  \A c \in Ids : odb[c] \in CommitType /\ odb[c].coins \in Nat
<1> SUFFICES ASSUME NEW c \in Ids
             PROVE  odb[c] \in CommitType /\ odb[c].coins \in Nat
  OBVIOUS
<1>1. odb[c] \in CommitType
  BY DEF TypeOK, Ids
<1> QED BY <1>1 DEF CommitType

\* Appending a commit leaves the others where they are.
LEMMA AppendCommit ==
    ASSUME TypeOK, NEW x \in CommitType, odb' = Append(odb, x)
    PROVE  /\ odb' \in Seq(CommitType)
           /\ Len(odb') = Len(odb) + 1
           /\ Ids' = Ids \cup {Len(odb) + 1}
           /\ \A c \in Ids : odb'[c] = odb[c]
           /\ odb'[Len(odb) + 1] = x
BY DEF TypeOK, Ids

\* A commit on top of an existing one is a well-formed commit.
LEMMA CommitOn ==
    ASSUME TypeOK, RepoInv, NEW p \in Ids, NEW n \in Nat,
           NEW who \in {"miner", "rival"}
    PROVE  /\ Commit(p, n, who) \in CommitType
           /\ Commit(p, n, who).anc \in SUBSET Ids
           /\ Commit(p, n, who).parent = p
           /\ Commit(p, n, who).coins = n
           /\ Commit(p, n, who).who = who
<1>1. odb[p].anc \in SUBSET Ids
  BY DEF RepoInv
<1>2. odb[p].anc \cup {p} \in SUBSET Ids /\ odb[p].anc \cup {p} \in SUBSET Nat /\ p \in Nat
  BY <1>1 DEF Ids, TypeOK
<1> QED BY <1>2 DEF Commit, CommitType

\* A push that lands moves the remote's master to a commit.
LEMMA LandType ==
    ASSUME TypeOK, RepoInv, NEW c \in Ids, Land(c)
    PROVE  remote_master' \in 0 .. Len(odb) /\ accepted' \in SUBSET Ids
<1>1. odb[c].anc \in SUBSET Ids
  BY DEF RepoInv
<1>2. remote_master' \in 0 .. Len(odb)
  BY DEF Land, Ids
<1>3. accepted' = accepted \cup odb[c].anc \cup {c} /\ accepted \in SUBSET Ids
  BY DEF Land, TypeOK
<1> QED BY <1>1, <1>2, <1>3

\* main()'s prologue leaves a state that satisfies the invariant.
LEMMA InitInv == Init => IInv
<1> SUFFICES ASSUME Init PROVE IInv OBVIOUS
<1>1. odb \in Seq(CommitType) /\ Len(odb) = 1 /\ odb[1] = Genesis
  BY DEF Init, Genesis, CommitType
<1>2. TypeOK
  BY <1>1 DEF Init, TypeOK, Ids, NULL, MainLabels, WorkerLabels
<1>3. RepoInv /\ ParentAccepted /\ OneCoinPerCommit
  BY <1>1 DEF Init, RepoInv, ParentAccepted, OneCoinPerCommit, Ids, Mined, Genesis
<1>4. LockInv
  BY DEF Init, LockInv, Alive, MainC, MainU, WorkerC, WorkerU
<1>5. HeadInv
  BY DEF Init, HeadInv, Alive, Mining, NULL, Curr
<1>6. LedgerInv
  BY <1>1 DEF Init, LedgerInv, Alive, Mining, Genesis
<1>7. PushInv
  BY DEF Init, PushInv, WorkerC
<1> QED BY <1>2, <1>3, <1>4, <1>5, <1>6, <1>7 DEF IInv

\* Steps that move no ref and append no commit keep the invariant.
LEMMA QuietInv == IInv /\ (QuietNext \/ UNCHANGED vars) => IInv'
<1> SUFFICES ASSUME IInv, QuietNext \/ UNCHANGED vars PROVE IInv' OBVIOUS
<1> USE DEF IInv, TypeOK, RepoInv, LockInv, HeadInv, LedgerInv, PushInv,
            ParentAccepted, OneCoinPerCommit,
            NULL, Curr, Deletion, Fetch, Ids, Mined,
            MainLabels, WorkerLabels, MainC, MainU, WorkerC, WorkerU, Mining, Alive,
            shared, locks, search, local, remote, world, fetch_updates, Land, Accepts
<1>1. CASE LoopTop
  BY <1>1 DEF LoopTop
<1>2. CASE LockCommit
  BY <1>2 DEF LockCommit
<1>3. CASE LockUpdate
  BY <1>3 DEF LockUpdate
<1>4. CASE ClearUpdated
  BY <1>4 DEF ClearUpdated
<1>5. CASE DropPush
  BY <1>5 DEF DropPush
<1>6. CASE UnlockBoth
  BY <1>6 DEF UnlockBoth
<1>7. CASE prepare_index
  BY <1>7 DEF prepare_index
<1>8. CASE SpawnHash
  BY <1>8 DEF SpawnHash
<1>9. CASE HashLoop
  BY <1>9 DEF HashLoop
<1>10. CASE HashFound
  BY <1>10 DEF HashFound
<1>11. CASE HashMissed
  BY <1>11 DEF HashMissed
<1>12. CASE TestFound
  BY <1>12 DEF TestFound
<1>13. CASE WaitPush
  BY <1>13 DEF WaitPush
<1>14. CASE Retest
  BY <1>14 DEF Retest
<1>15. CASE LockResult
  BY <1>15 DEF LockResult
<1>16. CASE Publish
  BY <1>16 DEF Publish
<1>17. CASE JoinWorker
  BY <1>17 DEF JoinWorker
<1>18. CASE WorkerTop
  BY <1>18 DEF WorkerTop
<1>19. CASE WorkerTest
  BY <1>19 DEF WorkerTest
<1>20. CASE WorkerTest1
  BY <1>20 DEF WorkerTest1
<1>21. CASE WorkerTest2
  BY <1>21 DEF WorkerTest2
<1>22. CASE WorkerLock
  BY <1>22 DEF WorkerLock
<1>23. CASE PushNull
  BY <1>23 DEF PushNull
<1>24. CASE FetchAndFlag
  BY <1>24 DEF FetchAndFlag
<1>25. CASE WorkerClear
  BY <1>25 DEF WorkerClear
<1>26. CASE check_updates
  BY <1>26 DEF check_updates
<1>27. CASE WorkerLockF
  BY <1>27 DEF WorkerLockF
<1>28. CASE WorkerFlag
  BY <1>28 DEF WorkerFlag
<1>29. CASE HandlerStop
  BY <1>29 DEF HandlerStop
<1>30. CASE HandlerUpdated
  BY <1>30 DEF HandlerUpdated
<1>31. CASE Terminated
  BY <1>31 DEF Terminated, vars
<1>32. CASE UNCHANGED vars
  BY <1>32 DEF vars
<1> QED
  BY <1>1, <1>2, <1>3, <1>4, <1>5, <1>6, <1>7, <1>8, <1>9, <1>10, <1>11,
     <1>12, <1>13, <1>14, <1>15, <1>16, <1>17, <1>18, <1>19, <1>20, <1>21,
     <1>22, <1>23, <1>24, <1>25, <1>26, <1>27, <1>28, <1>29, <1>30, <1>31,
     <1>32 DEF QuietNext

\* Every step of the threads, the handler, and the world keeps the invariant.
LEMMA StepInv == IInv /\ [Next]_vars => IInv'
<1> SUFFICES ASSUME IInv, [Next]_vars PROVE IInv' OBVIOUS
<1> USE DEF NULL, Curr, Deletion, Fetch, Ids, Mined,
            MainLabels, WorkerLabels, MainC, MainU, WorkerC, WorkerU, Mining, Alive,
            shared, locks, search, local, remote, world, fetch_updates, Land, Accepts
<1>1. TypeOK /\ \A c \in Ids : odb[c].coins \in Nat
  BY OdbType DEF IInv
<1>2. CASE QuietNext \/ UNCHANGED vars
  BY <1>2, QuietInv
<1>3. CASE reset_hard
  <2>1. TypeOK'
    BY <1>1, <1>3 DEF reset_hard, IInv, TypeOK, RepoInv, HeadInv
  <2>2. RepoInv'
    BY <1>1, <1>3 DEF reset_hard, IInv, TypeOK, RepoInv
  <2>3. LockInv'
    BY <1>1, <1>3 DEF reset_hard, IInv, LockInv
  <2>4. HeadInv'
    BY <1>1, <1>3 DEF reset_hard, IInv, TypeOK, RepoInv, LockInv, HeadInv
  <2>5. LedgerInv'
    BY <1>1, <1>3 DEF reset_hard, IInv, TypeOK, LockInv, HeadInv, LedgerInv
  <2>6. PushInv'
    BY <1>1, <1>3 DEF reset_hard, IInv, TypeOK, LockInv, HeadInv, PushInv
  <2>7. ParentAccepted'
    BY <1>1, <1>3 DEF reset_hard, IInv, TypeOK, ParentAccepted
  <2>8. OneCoinPerCommit'
    BY <1>1, <1>3 DEF reset_hard, IInv, TypeOK, OneCoinPerCommit
  <2> QED BY <2>1, <2>2, <2>3, <2>4, <2>5, <2>6, <2>7, <2>8 DEF IInv
<1>4. CASE commit_result
  <2> DEFINE new == Commit(msg.parent, msg.coins, "miner")
  <2>1. /\ msg.parent = head /\ msg.coins = odb[head].coins + 1
        /\ head \in accepted /\ head \in Ids /\ msg.coins \in Nat
    BY <1>1, <1>4 DEF IInv, TypeOK, HeadInv, LedgerInv, commit_result
  <2>2. /\ new \in CommitType /\ new.anc \in SUBSET Ids
        /\ new.parent = msg.parent /\ new.coins = msg.coins
        /\ new.who = "miner"
    BY <1>1, <2>1, CommitOn DEF IInv
  <2> HIDE DEF new
  <2>3. /\ odb' \in Seq(CommitType) /\ Len(odb') = Len(odb) + 1
        /\ Ids' = Ids \cup {Len(odb) + 1}
        /\ odb'[Len(odb) + 1] = new
        /\ \A c \in Ids : odb'[c] = odb[c]
    BY <1>1, <1>4, <2>2, AppendCommit DEF commit_result, new
  <2>4. TypeOK'
    BY <1>1, <1>4, <2>1, <2>2, <2>3
    DEF commit_result, IInv, TypeOK
  <2>5. RepoInv'
    <3>1. ASSUME NEW c \in Ids'
          PROVE  /\ odb'[c].anc \in SUBSET Ids'
                 /\ odb'[c].parent \in 0 .. Len(odb')
                 /\ odb'[c].who = "miner" => odb'[c].parent \in Ids'
      <4>1. CASE c \in Ids
        <5>1. /\ odb[c].anc \in SUBSET Ids /\ odb[c].parent \in 0 .. Len(odb)
              /\ odb[c].who = "miner" => odb[c].parent \in Ids
          BY <1>1, <4>1 DEF IInv, RepoInv
        <5>2. odb'[c] = odb[c] /\ Len(odb) \in Nat
          BY <1>1, <2>3, <4>1 DEF IInv, TypeOK
        <5>3. Ids \subseteq Ids'
          BY <2>3, <5>2
        <5> QED BY <2>3, <5>1, <5>2, <5>3
      <4>2. CASE c = Len(odb) + 1
        BY <1>1, <4>2, <2>1, <2>2, <2>3 DEF TypeOK
      <4> QED BY <2>3, <4>1, <4>2
    <3> QED BY <1>4, <1>1, <2>1, <2>3, <3>1 DEF IInv, TypeOK, RepoInv, commit_result
  <2>6. LockInv'
    BY <1>1, <1>4, <2>1, <2>2, <2>3
    DEF commit_result, IInv, LockInv
  <2>7. HeadInv'
    BY <1>1, <1>4, <2>1, <2>2, <2>3
    DEF commit_result, IInv, TypeOK, RepoInv, LockInv, HeadInv
  <2>8. LedgerInv'
    BY <1>1, <1>4, <2>1, <2>2, <2>3
    DEF commit_result, IInv, TypeOK, LockInv, HeadInv, LedgerInv
  <2>9. PushInv'
    BY <1>1, <1>4, <2>1, <2>2, <2>3
    DEF commit_result, IInv, TypeOK, LockInv, HeadInv, PushInv
  <2>10. ParentAccepted'
    BY <1>1, <1>4, <2>1, <2>2, <2>3
    DEF commit_result, IInv, TypeOK, ParentAccepted
  <2>11. OneCoinPerCommit'
    <3>1. ASSUME NEW c \in Ids'
          PROVE  odb'[c].who = "miner" =>
                   odb'[c].coins = odb'[odb'[c].parent].coins + 1
      <4>1. CASE c \in Ids
        BY <1>1, <4>1, <2>3 DEF IInv, TypeOK, RepoInv, OneCoinPerCommit
      <4>2. CASE c = Len(odb) + 1
        BY <1>1, <4>2, <2>1, <2>2, <2>3 DEF TypeOK
      <4> QED BY <2>3, <4>1, <4>2
    <3> QED BY <1>4, <1>1, <2>1, <2>3, <3>1 DEF IInv, TypeOK, RepoInv, OneCoinPerCommit, commit_result
  <2> QED BY <2>4, <2>5, <2>6, <2>7, <2>8, <2>9, <2>10, <2>11 DEF IInv
<1>5. CASE PushCommit
  <2>1. TypeOK'
    <3>1. curr_commit \in Ids
      BY <1>5 DEF IInv, HeadInv, PushCommit
    <3>2. /\ remote_master' \in 0 .. Len(odb) /\ accepted' \in SUBSET Ids
          /\ origin_master' \in 0 .. Len(odb)
      <4>1. CASE Land(curr_commit)
        BY <1>1, <1>5, <3>1, <4>1, LandType DEF IInv, TypeOK, PushCommit
      <4>2. CASE UNCHANGED <<remote, origin_master>>
        BY <1>1, <4>2 DEF TypeOK
      <4> QED BY <1>5, <4>1, <4>2 DEF PushCommit
    <3> QED BY <1>1, <1>5, <3>2 DEF TypeOK, PushCommit
  <2>2. RepoInv'
    BY <1>1, <1>5 DEF PushCommit, IInv, TypeOK, RepoInv
  <2>3. LockInv'
    BY <1>1, <1>5 DEF PushCommit, IInv, LockInv
  <2>4. HeadInv'
    BY <1>1, <1>5 DEF PushCommit, IInv, TypeOK, RepoInv, LockInv, HeadInv
  <2>5. LedgerInv'
    BY <1>1, <1>5 DEF PushCommit, IInv, TypeOK, LockInv, HeadInv, LedgerInv
  <2>6. PushInv'
    BY <1>1, <1>5 DEF PushCommit, IInv, TypeOK, LockInv, HeadInv, PushInv
  <2>7. ParentAccepted'
    BY <1>1, <1>5 DEF PushCommit, IInv, TypeOK, ParentAccepted
  <2>8. OneCoinPerCommit'
    BY <1>1, <1>5 DEF PushCommit, IInv, TypeOK, OneCoinPerCommit
  <2> QED BY <2>1, <2>2, <2>3, <2>4, <2>5, <2>6, <2>7, <2>8 DEF IInv
<1>6. CASE WorkerLockU
  <2>1. TypeOK'
    BY <1>1, <1>6 DEF WorkerLockU, IInv, TypeOK, RepoInv, HeadInv
  <2>2. RepoInv'
    BY <1>1, <1>6 DEF WorkerLockU, IInv, TypeOK, RepoInv
  <2>3. LockInv'
    BY <1>1, <1>6 DEF WorkerLockU, IInv, LockInv
  <2>4. HeadInv'
    BY <1>1, <1>6 DEF WorkerLockU, IInv, TypeOK, RepoInv, LockInv, HeadInv
  <2>5. LedgerInv'
    BY <1>1, <1>6 DEF WorkerLockU, IInv, TypeOK, LockInv, HeadInv, LedgerInv
  <2>6. PushInv'
    BY <1>1, <1>6 DEF WorkerLockU, IInv, TypeOK, LockInv, HeadInv, PushInv
  <2>7. ParentAccepted'
    BY <1>1, <1>6 DEF WorkerLockU, IInv, TypeOK, ParentAccepted
  <2>8. OneCoinPerCommit'
    BY <1>1, <1>6 DEF WorkerLockU, IInv, TypeOK, OneCoinPerCommit
  <2> QED BY <2>1, <2>2, <2>3, <2>4, <2>5, <2>6, <2>7, <2>8 DEF IInv
<1>7. CASE Exit
  <2>1. TypeOK'
    BY <1>1, <1>7 DEF Exit, Child, IInv, TypeOK, RepoInv, HeadInv
  <2>2. RepoInv'
    BY <1>1, <1>7 DEF Exit, Child, IInv, TypeOK, RepoInv
  <2>3. LockInv'
    BY <1>1, <1>7 DEF Exit, Child, IInv, LockInv
  <2>4. HeadInv'
    BY <1>1, <1>7 DEF Exit, Child, IInv, TypeOK, RepoInv, LockInv, HeadInv
  <2>5. LedgerInv'
    BY <1>1, <1>7 DEF Exit, Child, IInv, TypeOK, LockInv, HeadInv, LedgerInv
  <2>6. PushInv'
    BY <1>1, <1>7 DEF Exit, Child, IInv, TypeOK, LockInv, HeadInv, PushInv
  <2>7. ParentAccepted'
    BY <1>1, <1>7 DEF Exit, Child, IInv, TypeOK, ParentAccepted
  <2>8. OneCoinPerCommit'
    BY <1>1, <1>7 DEF Exit, Child, IInv, TypeOK, OneCoinPerCommit
  <2> QED BY <2>1, <2>2, <2>3, <2>4, <2>5, <2>6, <2>7, <2>8 DEF IInv
<1>8. CASE Restart
  <2>1. TypeOK'
    BY <1>1, <1>8 DEF Restart, IInv, TypeOK, RepoInv, HeadInv
  <2>2. RepoInv'
    BY <1>1, <1>8 DEF Restart, IInv, TypeOK, RepoInv
  <2>3. LockInv'
    BY <1>1, <1>8 DEF Restart, IInv, LockInv
  <2>4. HeadInv'
    BY <1>1, <1>8 DEF Restart, IInv, TypeOK, RepoInv, LockInv, HeadInv
  <2>5. LedgerInv'
    BY <1>1, <1>8 DEF Restart, IInv, TypeOK, LockInv, HeadInv, LedgerInv
  <2>6. PushInv'
    BY <1>1, <1>8 DEF Restart, IInv, TypeOK, LockInv, HeadInv, PushInv
  <2>7. ParentAccepted'
    BY <1>1, <1>8 DEF Restart, IInv, TypeOK, ParentAccepted
  <2>8. OneCoinPerCommit'
    BY <1>1, <1>8 DEF Restart, IInv, TypeOK, OneCoinPerCommit
  <2> QED BY <2>1, <2>2, <2>3, <2>4, <2>5, <2>6, <2>7, <2>8 DEF IInv
<1>9. CASE OrphanEnds
  <2>1. TypeOK'
    <3>1. PICK c \in orphans :
            /\ orphans' = orphans \ {c}
            /\ \/ c \in Ids /\ Land(c) /\ origin_master' = c
               \/ UNCHANGED accepted /\ remote_master' = 0 /\ origin_master' = 0
               \/ UNCHANGED remote /\ origin_master' \in {origin_master, remote_master}
      BY <1>9 DEF OrphanEnds
    <3>2. orphans' \in SUBSET (Ids' \cup {Deletion, Fetch}) /\ Ids' = Ids
      BY <1>1, <1>9, <3>1 DEF TypeOK, OrphanEnds
    <3>3. /\ origin_master' \in 0 .. Len(odb') /\ remote_master' \in 0 .. Len(odb')
          /\ accepted' \in SUBSET Ids'
      <4>1. CASE c \in Ids /\ Land(c) /\ origin_master' = c
        BY <1>1, <1>9, <4>1, LandType DEF IInv, OrphanEnds
      <4>2. CASE UNCHANGED accepted /\ remote_master' = 0 /\ origin_master' = 0
        BY <1>1, <1>9, <4>2 DEF TypeOK, OrphanEnds
      <4>3. CASE UNCHANGED remote /\ origin_master' \in {origin_master, remote_master}
        BY <1>1, <1>9, <4>3 DEF TypeOK, OrphanEnds
      <4> QED BY <3>1, <4>1, <4>2, <4>3
    <3> QED BY <1>1, <1>9, <3>2, <3>3 DEF TypeOK, OrphanEnds
  <2>2. RepoInv'
    BY <1>1, <1>9 DEF OrphanEnds, IInv, TypeOK, RepoInv
  <2>3. LockInv'
    BY <1>1, <1>9 DEF OrphanEnds, IInv, LockInv
  <2>4. HeadInv'
    BY <1>1, <1>9 DEF OrphanEnds, IInv, TypeOK, RepoInv, LockInv, HeadInv
  <2>5. LedgerInv'
    BY <1>1, <1>9 DEF OrphanEnds, IInv, TypeOK, LockInv, HeadInv, LedgerInv
  <2>6. PushInv'
    BY <1>1, <1>9 DEF OrphanEnds, IInv, TypeOK, LockInv, HeadInv, PushInv
  <2>7. ParentAccepted'
    BY <1>1, <1>9 DEF OrphanEnds, IInv, TypeOK, ParentAccepted
  <2>8. OneCoinPerCommit'
    BY <1>1, <1>9 DEF OrphanEnds, IInv, TypeOK, OneCoinPerCommit
  <2> QED BY <2>1, <2>2, <2>3, <2>4, <2>5, <2>6, <2>7, <2>8 DEF IInv
<1>10. CASE RivalPush
  <2> DEFINE new == Commit(remote_master, odb[remote_master].coins, "rival")
  <2>1. remote_master \in Ids /\ odb[remote_master].coins \in Nat
    BY <1>1, <1>10 DEF TypeOK, RivalPush
  <2>2. /\ new \in CommitType /\ new.anc \in SUBSET Ids
        /\ new.parent = remote_master /\ new.coins = odb[remote_master].coins
        /\ new.who = "rival"
    BY <1>1, <2>1, CommitOn DEF IInv
  <2> HIDE DEF new
  <2>3. /\ odb' \in Seq(CommitType) /\ Len(odb') = Len(odb) + 1
        /\ Ids' = Ids \cup {Len(odb) + 1}
        /\ odb'[Len(odb) + 1] = new
        /\ \A c \in Ids : odb'[c] = odb[c]
    BY <1>1, <1>10, <2>2, AppendCommit DEF RivalPush, new
  <2>4. TypeOK'
    <3>1. Len(odb) \in Nat /\ Ids \subseteq Ids' /\ 0 .. Len(odb) \subseteq 0 .. Len(odb')
      BY <1>1, <2>3 DEF TypeOK
    <3>2. remote_master' \in 0 .. Len(odb') /\ accepted' \in SUBSET Ids'
      <4>1. remote_master' = Len(odb) + 1 /\ accepted' = accepted \cup {Len(odb) + 1}
        BY <1>10 DEF RivalPush
      <4>2. Len(odb) + 1 \in Ids' /\ accepted \in SUBSET Ids'
        BY <1>1, <2>3, <3>1 DEF TypeOK
      <4>3. remote_master' \in 0 .. Len(odb')
        BY <2>3, <3>1, <4>1
      <4> HIDE DEF Ids
      <4> QED BY <4>1, <4>2, <4>3
    <3>3. orphans' \in SUBSET (Ids' \cup {Deletion, Fetch})
      BY <1>1, <1>10, <2>3 DEF TypeOK, RivalPush
    <3>4. head' \in Ids' /\ msg' \in [parent : 0 .. Len(odb'), coins : Nat]
      BY <1>1, <1>10, <3>1 DEF TypeOK, RivalPush
    <3> QED BY <1>1, <1>10, <2>3, <3>1, <3>2, <3>3, <3>4 DEF TypeOK, RivalPush
  <2>5. RepoInv'
    <3>1. ASSUME NEW c \in Ids'
          PROVE  /\ odb'[c].anc \in SUBSET Ids'
                 /\ odb'[c].parent \in 0 .. Len(odb')
                 /\ odb'[c].who = "miner" => odb'[c].parent \in Ids'
      <4>1. CASE c \in Ids
        <5>1. /\ odb[c].anc \in SUBSET Ids /\ odb[c].parent \in 0 .. Len(odb)
              /\ odb[c].who = "miner" => odb[c].parent \in Ids
          BY <1>1, <4>1 DEF IInv, RepoInv
        <5>2. odb'[c] = odb[c] /\ Len(odb) \in Nat
          BY <1>1, <2>3, <4>1 DEF IInv, TypeOK
        <5>3. Ids \subseteq Ids'
          BY <2>3, <5>2
        <5> QED BY <2>3, <5>1, <5>2, <5>3
      <4>2. CASE c = Len(odb) + 1
        BY <1>1, <4>2, <2>1, <2>2, <2>3 DEF TypeOK
      <4> QED BY <2>3, <4>1, <4>2
    <3> QED BY <1>10, <1>1, <2>1, <2>3, <3>1 DEF IInv, TypeOK, RepoInv, RivalPush
  <2>6. LockInv'
    BY <1>1, <1>10, <2>1, <2>2, <2>3
    DEF RivalPush, IInv, LockInv
  <2>7. HeadInv'
    BY <1>1, <1>10, <2>1, <2>2, <2>3
    DEF RivalPush, IInv, TypeOK, RepoInv, LockInv, HeadInv
  <2>8. LedgerInv'
    BY <1>1, <1>10, <2>1, <2>2, <2>3
    DEF RivalPush, IInv, TypeOK, LockInv, HeadInv, LedgerInv
  <2>9. PushInv'
    BY <1>1, <1>10, <2>1, <2>2, <2>3
    DEF RivalPush, IInv, TypeOK, LockInv, HeadInv, PushInv
  <2>10. ParentAccepted'
    BY <1>1, <1>10, <2>1, <2>2, <2>3, SMTT(30)
    DEF RivalPush, IInv, TypeOK, ParentAccepted
  <2>11. OneCoinPerCommit'
    <3>1. ASSUME NEW c \in Ids'
          PROVE  odb'[c].who = "miner" =>
                   odb'[c].coins = odb'[odb'[c].parent].coins + 1
      <4>1. CASE c \in Ids
        BY <1>1, <4>1, <2>3 DEF IInv, TypeOK, RepoInv, OneCoinPerCommit
      <4>2. CASE c = Len(odb) + 1
        BY <1>1, <4>2, <2>1, <2>2, <2>3 DEF TypeOK
      <4> QED BY <2>3, <4>1, <4>2
    <3> QED BY <1>10, <1>1, <2>1, <2>3, <3>1 DEF IInv, TypeOK, RepoInv, OneCoinPerCommit, RivalPush
  <2> QED BY <2>4, <2>5, <2>6, <2>7, <2>8, <2>9, <2>10, <2>11 DEF IInv
<1> QED
  BY <1>2, <1>3, <1>4, <1>5, <1>6, <1>7, <1>8, <1>9, <1>10
  DEF Next, QuietNext, MainNext, WorkerNext, HashStep, push_result_shell, int_handler

(***************************************************************************)
(* The inductive invariant holds in every state of every run of the miner, *)
(* with any number of finds, rival commits, SIGINTs and restarts.          *)
(***************************************************************************)
THEOREM MinerInvariant == Spec => []IInv
BY InitInv, StepInv, PTL DEF Spec

(***************************************************************************)
(* Shared memory, control state and repositories keep their types.         *)
(***************************************************************************)
THEOREM MinerTypes == Spec => []TypeOK
<1>1. IInv => TypeOK BY DEF IInv
<1> QED BY <1>1, MinerInvariant, PTL

(***************************************************************************)
(* No coin is ever mined on top of a coin that the remote has not had:     *)
(* waiting for push_commit and rereading `updated' (level1.c 380-396) is   *)
(* enough, although both are read without a lock.                          *)
(***************************************************************************)
THEOREM MinerParentAccepted == Spec => []ParentAccepted
<1>1. IInv => ParentAccepted BY DEF IInv
<1> QED BY <1>1, MinerInvariant, PTL

(***************************************************************************)
(* Every mined commit pays exactly one coin: each round that is given up   *)
(* has been reset before LEDGER.txt is edited again.                       *)
(***************************************************************************)
THEOREM MinerOneCoin == Spec => []OneCoinPerCommit
<1>1. IInv => OneCoinPerCommit BY DEF IInv
<1> QED BY <1>1, MinerInvariant, PTL

(***************************************************************************)
(* Without a SIGINT the unlocked tests of push_commit in                   *)
(* check_updates_worker() are still true when the push is made.            *)
(***************************************************************************)
THEOREM MinerPushHasCommit == Spec => []PushHasCommitUnlessInterrupted
<1>1. IInv => PushHasCommitUnlessInterrupted
  BY DEF IInv, PushInv, PushHasCommitUnlessInterrupted, WorkerC
<1> QED BY <1>1, MinerInvariant, PTL

(***************************************************************************)
(* main() never overwrites curr_commit while the update thread may still   *)
(* push it.                                                                *)
(***************************************************************************)
THEOREM MinerPendingStable == Spec => PendingCommitStable
<1> DEFINE A == push_commit = Curr /\ main # "dead" => curr_commit' = curr_commit
<1>1. IInv /\ [Next]_vars => [A]_vars
  <2> SUFFICES ASSUME IInv, Next, push_commit = Curr, main # "dead"
               PROVE  curr_commit' = curr_commit
    BY DEF vars
  <2>1. CASE commit_result
    BY <2>1 DEF IInv, HeadInv, Alive, commit_result, NULL, Curr
  <2>2. CASE Restart
    BY <2>2 DEF Restart
  <2>3. CASE ~commit_result /\ ~Restart
    BY <2>3 DEF Next, MainNext, WorkerNext, int_handler, push_result_shell,
       HashStep, LoopTop, LockCommit, LockUpdate, reset_hard, ClearUpdated,
       DropPush, UnlockBoth, prepare_index, SpawnHash, HashLoop, HashFound,
       HashMissed, TestFound, WaitPush, Retest, LockResult, Publish, JoinWorker,
       WorkerTop, WorkerTest, WorkerTest1, WorkerTest2, WorkerLock, PushCommit,
       PushNull, WorkerLockU, FetchAndFlag, WorkerClear, check_updates,
       WorkerLockF, WorkerFlag, HandlerStop, HandlerUpdated, Exit, OrphanEnds,
       RivalPush, Terminated, shared, vars
  <2> QED BY <2>1, <2>2, <2>3
<1> QED BY <1>1, MinerInvariant, PTL DEF Spec, PendingCommitStable

(***************************************************************************)
(* Until a SIGINT the remote's master only moves forward, through pushes   *)
(* of this miner, of a dead one, and of rivals.                            *)
(***************************************************************************)
THEOREM MinerFastForward == Spec => RemoteFastForward
<1> DEFINE A == (sig = "none" /\ Deletion \notin orphans) =>
                  (remote_master' # remote_master /\ remote_master # 0 =>
                     /\ remote_master' # 0
                     /\ remote_master \in odb'[remote_master'].anc)
<1>1. IInv /\ [Next]_vars => [A]_vars
  <2> SUFFICES ASSUME IInv, Next, sig = "none", Deletion \notin orphans,
                      remote_master' # remote_master, remote_master # 0
               PROVE  /\ remote_master' # 0
                      /\ remote_master \in odb'[remote_master'].anc
    BY DEF vars
  <2>1. CASE PushCommit
    BY <2>1 DEF IInv, TypeOK, HeadInv, PushCommit, Accepts, Land, Ids, remote, local
  <2>2. CASE PushNull
    BY <2>2 DEF IInv, PushInv, WorkerC, PushNull, NULL, Curr
  <2>3. CASE OrphanEnds
    BY <2>3 DEF IInv, TypeOK, OrphanEnds, Accepts, Land, Ids, remote, local
  <2>4. CASE RivalPush
    <3>1. remote_master \in Ids /\ odb[remote_master].coins \in Nat
      BY <2>4, OdbType DEF IInv, TypeOK, RivalPush, Ids
    <3>2. Commit(remote_master, odb[remote_master].coins, "rival") \in CommitType
      BY <3>1, CommitOn DEF IInv
    <3>3. /\ odb'[Len(odb) + 1] = Commit(remote_master, odb[remote_master].coins, "rival")
          /\ remote_master' = Len(odb) + 1 /\ Len(odb) \in Nat
      BY <2>4, <3>2, AppendCommit DEF IInv, TypeOK, RivalPush
    <3> QED BY <3>3 DEF Commit
  <2>5. CASE ~PushCommit /\ ~PushNull /\ ~OrphanEnds /\ ~RivalPush
    BY <2>5 DEF Next, MainNext, WorkerNext, int_handler, push_result_shell,
       HashStep, LoopTop, LockCommit, LockUpdate, reset_hard, ClearUpdated,
       DropPush, UnlockBoth, prepare_index, SpawnHash, HashLoop, HashFound,
       HashMissed, TestFound, WaitPush, Retest, LockResult, commit_result,
       Publish, JoinWorker, WorkerTop, WorkerTest, WorkerTest1, WorkerTest2,
       WorkerLock, WorkerLockU, FetchAndFlag, WorkerClear, check_updates,
       WorkerLockF, WorkerFlag, HandlerStop, HandlerUpdated, Exit, Restart,
       Terminated, remote, vars
  <2> QED BY <2>1, <2>2, <2>3, <2>4, <2>5
<1> QED BY <1>1, MinerInvariant, PTL DEF Spec, RemoteFastForward
=============================================================================
