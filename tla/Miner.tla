------------------------------- MODULE Miner -------------------------------
(***************************************************************************)
(* The coin miner of level1/src/level1.c: the thread that runs main(), the *)
(* update thread check_updates_worker(), the SIGINT handler, the local git *)
(* repository and the shared remote they race other miners for.            *)
(*                                                                         *)
(* main() resets to origin/master when `updated' is set, writes a coin     *)
(* into LEDGER.txt, searches a nonce for the commit and hands the commit   *)
(* to the update thread through the pointer push_commit.  While the update *)
(* thread pushes, main() already mines the next coin on top.               *)
(*                                                                         *)
(* The flags `stop' and `updated' and the pointer push_commit are read     *)
(* without a lock in several places, so every read and write of them that  *)
(* another thread can observe is a step of its own.                        *)
(***************************************************************************)
EXTENDS Integers, Sequences

CONSTANTS MaxFinds,     \* bound: nonces main() finds
          MaxRivals,    \* bound: commits other miners get onto the remote
          MaxExits,     \* bound: deaths of the process (it may be run again)
          Interrupts    \* may SIGINT arrive?

ASSUME MinerAssumption ==
    /\ MaxFinds \in Nat
    /\ MaxRivals \in Nat
    /\ MaxExits \in Nat
    /\ Interrupts \in BOOLEAN

VARIABLES
    stop, updated,               \* the two flags, 0 or 1
    push_commit, curr_commit,    \* the pointer, and the git_oid it points to
    commit_mutex, update_mutex,  \* their owner
    found, msg,                  \* hash_args: found, and the commit under search
    main, worker, sig,           \* control state of main(), worker, handler
    odb, head, ledger,           \* objects, refs/heads/master, LEDGER.txt
    origin_master,               \* refs/remotes/origin/master
    remote_master, accepted,     \* the remote's master; all it ever contained
    orphans,                     \* git children that outlived the process
    finds, rivals, exits         \* counters for the bounds

shared == <<stop, updated, push_commit, curr_commit>>
locks  == <<commit_mutex, update_mutex>>
search == <<found, msg>>
local  == <<odb, head, ledger>>
remote == <<remote_master, accepted>>
world  == <<sig, orphans, finds, rivals, exits>>

vars == <<stop, updated, push_commit, curr_commit, commit_mutex, update_mutex,
          found, msg, main, worker, sig, odb, head, ledger, origin_master,
          remote_master, accepted, orphans, finds, rivals, exits>>

NULL == "NULL"
Curr == "curr_commit"      \* push_commit = &curr_commit
Deletion == -1             \* in orphans: `git push origin :master'
Fetch == -2                \* in orphans: `git fetch -q'

MainLabels ==
    {"top", "lockC", "lockU", "reset", "clear", "drop", "unlock", "prepare",
     "spawn", "hash", "kernel", "test", "wait", "retest", "lockR", "commit",
     "publish", "join", "exit", "dead"}

WorkerLabels ==
    {"top", "test", "test1", "test2", "lock", "push", "lockU", "fetch", "clear",
     "check", "lockF", "flag", "exit", "dead"}

(***************************************************************************)
(* Commits.  A commit is named by its position in odb.  coins is what its  *)
(* tree says LEDGER.txt holds for user "null", anc the commits reachable   *)
(* from its parent.  Position 0 means "no such ref".                       *)
(***************************************************************************)
Ids == 1 .. Len(odb)

Genesis == [parent |-> 0, coins |-> 0, who |-> "rival", anc |-> {}]

Commit(parent, coins, who) ==
    [parent |-> parent, coins |-> coins, who |-> who,
     anc |-> odb[parent].anc \cup {parent}]

\* The remote takes a push that is a fast-forward, or that creates master.
Accepts(c) ==
    \/ remote_master = 0
    \/ remote_master \in odb[c].anc \cup {c}

Land(c) ==
    /\ remote_master' = c
    /\ accepted' = accepted \cup odb[c].anc \cup {c}

(***************************************************************************)
(* Init is the state after main()'s prologue: check_updates(),             *)
(* reset_hard(), and both threads running.                                 *)
(***************************************************************************)
Init ==
    /\ stop = 0 /\ updated = 0
    /\ push_commit = NULL /\ curr_commit = 0
    /\ commit_mutex = "free" /\ update_mutex = "free"
    /\ found = 0 /\ msg = [parent |-> 0, coins |-> 0]
    /\ main = "top" /\ worker = "top" /\ sig = "none"
    /\ odb = <<Genesis>> /\ head = 1 /\ ledger = 0
    /\ origin_master = 1 /\ remote_master = 1 /\ accepted = {1}
    /\ orphans = {} /\ finds = 0 /\ rivals = 0 /\ exits = 0

-----------------------------------------------------------------------------
(***************************************************************************)
(* Steps of main().                                                        *)
(***************************************************************************)

\* while(!stop){ ... args.found = 0;   otherwise pthread_join(updateThread)
LoopTop ==
    /\ main = "top"
    /\ \/ stop = 0 /\ main' = "lockC" /\ found' = 0
       \/ stop = 1 /\ main' = "join" /\ UNCHANGED found
    /\ UNCHANGED <<shared, locks, msg, worker, local, origin_master, remote, world>>

LockCommit ==
    /\ main = "lockC" /\ commit_mutex = "free"
    /\ commit_mutex' = "main" /\ main' = "lockU"
    /\ UNCHANGED <<shared, update_mutex, search, worker, local, origin_master,
                   remote, world>>

LockUpdate ==
    /\ main = "lockU" /\ update_mutex = "free"
    /\ update_mutex' = "main" /\ main' = "reset"
    /\ UNCHANGED <<shared, commit_mutex, search, worker, local, origin_master,
                   remote, world>>

\* Mutant of reset_hard: git_reset moves HEAD but not the work tree.
ResetSoft ==
    /\ main = "reset"
    /\ \/ updated = 0 /\ main' = "unlock" /\ UNCHANGED head
       \/ /\ updated = 1 /\ origin_master # 0
          /\ head' = origin_master /\ main' = "clear"
    /\ UNCHANGED <<shared, locks, search, worker, odb, ledger, origin_master,
                   remote, world>>

\* Mutant of reset_hard: push_commit = NULL has slipped out of the if.
DropAlways ==
    /\ main = "reset"
    /\ \/ updated = 0 /\ main' = "drop" /\ UNCHANGED <<head, ledger>>
       \/ /\ updated = 1 /\ origin_master # 0
          /\ head' = origin_master /\ ledger' = odb[origin_master].coins
          /\ main' = "clear"
    /\ UNCHANGED <<shared, locks, search, worker, odb, origin_master, remote, world>>

\* if(updated){ reset_hard(); ...   (no origin/master: see Exit)
reset_hard ==
    /\ main = "reset"
    /\ \/ /\ updated = 0
          /\ main' = "unlock" /\ UNCHANGED <<head, ledger>>
       \/ /\ updated = 1 /\ origin_master # 0
          /\ head' = origin_master
          /\ ledger' = odb[origin_master].coins
          /\ main' = "clear"
    /\ UNCHANGED <<shared, locks, search, worker, odb, origin_master, remote, world>>

\* Mutant of ClearUpdated: `updated' is not reset.
KeepUpdated ==
    /\ main = "clear" /\ main' = "drop"
    /\ UNCHANGED <<shared, locks, search, worker, local, origin_master, remote, world>>

ClearUpdated ==
    /\ main = "clear"
    /\ updated' = 0 /\ main' = "drop"
    /\ UNCHANGED <<stop, push_commit, curr_commit, locks, search, worker, local,
                   origin_master, remote, world>>

DropPush ==
    /\ main = "drop"
    /\ push_commit' = NULL /\ main' = "unlock"
    /\ UNCHANGED <<stop, updated, curr_commit, locks, search, worker, local,
                   origin_master, remote, world>>

UnlockBoth ==
    /\ main = "unlock"
    /\ update_mutex' = "free" /\ commit_mutex' = "free" /\ main' = "prepare"
    /\ UNCHANGED <<shared, search, worker, local, origin_master, remote, world>>

\* Adds one coin to LEDGER.txt and formats the commit object on top of HEAD.
prepare_index ==
    /\ main = "prepare"
    /\ ledger' = ledger + 1
    /\ msg' = [parent |-> head, coins |-> ledger + 1]
    /\ main' = "spawn"
    /\ UNCHANGED <<shared, locks, found, worker, odb, head, origin_master,
                   remote, world>>

\* Mutant of SpawnHash: stop++ instead of stop = 1.
SpawnCountsStop ==
    /\ main = "spawn"
    /\ \/ main' = "hash" /\ UNCHANGED stop
       \/ main' = "test" /\ stop' = stop + 1
    /\ UNCHANGED <<updated, push_commit, curr_commit, locks, search, worker,
                   local, origin_master, remote, world>>

\* pthread_create(&hashThread, ...) may fail; main() then stops.
SpawnHash ==
    /\ main = "spawn"
    /\ \/ main' = "hash" /\ UNCHANGED stop
       \/ main' = "test" /\ stop' = 1
    /\ UNCHANGED <<updated, push_commit, curr_commit, locks, search, worker,
                   local, origin_master, remote, world>>

\* while(!(*args->stop)) in force_hash: args.stop points to `updated'.
HashLoop ==
    /\ main = "hash"
    /\ main' = IF updated = 1 THEN "test" ELSE "kernel"
    /\ UNCHANGED <<shared, locks, search, worker, local, origin_master, remote, world>>

\* One kernel launch.  Once stop is set no find can become a commit, so
\* finds are counted only before.
HashFound ==
    /\ main = "kernel"
    /\ finds < MaxFinds \/ stop = 1
    /\ found' = 1 /\ main' = "test"
    /\ finds' = IF stop = 1 THEN finds ELSE finds + 1
    /\ UNCHANGED <<shared, locks, msg, worker, local, origin_master, remote,
                   sig, orphans, rivals, exits>>

HashMissed ==
    /\ main = "kernel"
    /\ main' = "hash"
    /\ UNCHANGED <<shared, locks, search, worker, local, origin_master, remote, world>>

\* if(!stop && !updated && args.found).  One step: stop never goes back to 0
\* and only main() itself puts `updated' back to 0.
TestFound ==
    /\ main = "test"
    /\ main' = IF stop = 0 /\ updated = 0 /\ found = 1 THEN "wait" ELSE "top"
    /\ UNCHANGED <<shared, locks, search, worker, local, origin_master, remote, world>>

\* Mutant of WaitPush: main() does not wait for the previous push.
NoWait ==
    /\ main = "wait" /\ main' = "retest"
    /\ UNCHANGED <<shared, locks, search, worker, local, origin_master, remote, world>>

\* while(push_commit) usleep(10);
WaitPush ==
    /\ main = "wait"
    /\ main' = IF push_commit = NULL THEN "retest" ELSE "wait"
    /\ UNCHANGED <<shared, locks, search, worker, local, origin_master, remote, world>>

\* Mutant of Retest: `updated' is not read again after the wait.
RetestStopOnly ==
    /\ main = "retest"
    /\ main' = IF stop = 0 THEN "lockR" ELSE "top"
    /\ UNCHANGED <<shared, locks, search, worker, local, origin_master, remote, world>>

\* if(!stop && !updated)
Retest ==
    /\ main = "retest"
    /\ main' = IF stop = 0 /\ updated = 0 THEN "lockR" ELSE "top"
    /\ UNCHANGED <<shared, locks, search, worker, local, origin_master, remote, world>>

LockResult ==
    /\ main = "lockR" /\ commit_mutex = "free"
    /\ commit_mutex' = "main" /\ main' = "commit"
    /\ UNCHANGED <<shared, update_mutex, search, worker, local, origin_master,
                   remote, world>>

\* Writes the commit object, moves refs/heads/master, fills curr_commit.
commit_result ==
    /\ main = "commit"
    /\ odb' = Append(odb, Commit(msg.parent, msg.coins, "miner"))
    /\ curr_commit' = Len(odb) + 1
    /\ head' = Len(odb) + 1
    /\ main' = "publish"
    /\ UNCHANGED <<stop, updated, push_commit, locks, search, worker, ledger,
                   origin_master, remote, world>>

\* push_commit = &curr_commit; unlock
Publish ==
    /\ main = "publish"
    /\ push_commit' = Curr /\ commit_mutex' = "free"
    /\ main' = "top"
    /\ UNCHANGED <<stop, updated, curr_commit, update_mutex, search, worker,
                   local, origin_master, remote, world>>

JoinWorker ==
    /\ main = "join" /\ worker = "exit"
    /\ main' = "exit"
    /\ UNCHANGED <<shared, locks, search, worker, local, origin_master, remote, world>>

HashStep == HashLoop \/ HashFound \/ HashMissed

MainNext ==
    \/ LoopTop \/ LockCommit \/ LockUpdate \/ reset_hard \/ ClearUpdated
    \/ DropPush \/ UnlockBoth \/ prepare_index \/ SpawnHash \/ HashStep
    \/ TestFound \/ WaitPush \/ Retest \/ LockResult \/ commit_result
    \/ Publish \/ JoinWorker

-----------------------------------------------------------------------------
(***************************************************************************)
(* Steps of check_updates_worker().                                        *)
(***************************************************************************)

\* Mutant of WorkerTop: the update thread does not look at `stop'.
WorkerForever ==
    /\ worker = "top" /\ worker' = "test"
    /\ UNCHANGED <<shared, locks, search, main, local, origin_master, remote, world>>

WorkerTop ==
    /\ worker = "top"
    /\ worker' = IF stop = 1 THEN "exit" ELSE "test"
    /\ UNCHANGED <<shared, locks, search, main, local, origin_master, remote, world>>

\* if(!updated && push_commit): two reads, of which main() and the handler can
\* get in between
WorkerTest ==
    /\ worker = "test"
    /\ worker' = IF updated = 0 THEN "test1" ELSE "top"
    /\ UNCHANGED <<shared, locks, search, main, local, origin_master, remote, world>>

WorkerTest1 ==
    /\ worker = "test1"
    /\ worker' = IF push_commit # NULL THEN "test2" ELSE "top"
    /\ UNCHANGED <<shared, locks, search, main, local, origin_master, remote, world>>

\* The second if(push_commit).  The pointer is not volatile: a compiler that
\* reuses the first read always takes the branch to "lock", which is what
\* happens here when the pointer changes right after this step.
WorkerTest2 ==
    /\ worker = "test2"
    /\ worker' = IF push_commit # NULL THEN "lock" ELSE "check"
    /\ UNCHANGED <<shared, locks, search, main, local, origin_master, remote, world>>

WorkerLock ==
    /\ worker = "lock" /\ commit_mutex = "free"
    /\ commit_mutex' = "worker" /\ worker' = "push"
    /\ UNCHANGED <<shared, update_mutex, search, main, local, origin_master,
                   remote, world>>

\* Mutant of PushCommit: git push --force.
PushForce ==
    /\ worker = "push" /\ push_commit = Curr
    /\ Land(curr_commit) /\ origin_master' = curr_commit /\ worker' = "clear"
    /\ UNCHANGED <<shared, locks, search, main, local, world>>

\* git push origin <oid>:master.  The remote may take the commit and the
\* status still be lost; on success git also moves refs/remotes/origin/master.
PushCommit ==
    /\ worker = "push" /\ push_commit = Curr
    /\ \/ /\ Accepts(curr_commit) /\ Land(curr_commit)
          /\ \/ origin_master' = curr_commit /\ worker' = "clear"
             \/ origin_master' = origin_master /\ worker' = "lockU"
       \/ worker' = "lockU" /\ UNCHANGED <<remote, origin_master>>
    /\ UNCHANGED <<shared, locks, search, main, local, world>>

\* With push_commit = NULL git_oid_tostr yields "" and the command becomes
\* `git push origin :master': it asks the remote to delete master.
PushNull ==
    /\ worker = "push" /\ push_commit = NULL
    /\ \/ remote_master' = 0 /\ origin_master' = 0 /\ worker' = "clear"
       \/ worker' = "lockU" /\ UNCHANGED <<remote_master, origin_master>>
    /\ UNCHANGED <<shared, locks, search, main, local, accepted, world>>

push_result_shell == PushCommit \/ PushNull

WorkerLockU ==
    /\ worker = "lockU" /\ update_mutex = "free"
    /\ update_mutex' = "worker" /\ worker' = "fetch"
    /\ UNCHANGED <<shared, commit_mutex, search, main, local, origin_master,
                   remote, world>>

\* git fetch: its exit status is ignored, so it may also do nothing.
fetch_updates ==
    \/ remote_master # 0 /\ origin_master' = remote_master
    \/ UNCHANGED origin_master

\* fetch_updates(); updated = 1; unlock update_mutex
FetchAndFlag ==
    /\ worker = "fetch"
    /\ fetch_updates
    /\ updated' = 1 /\ update_mutex' = "free" /\ worker' = "clear"
    /\ UNCHANGED <<stop, push_commit, curr_commit, commit_mutex, search, main,
                   local, remote, world>>

\* Mutant of WorkerClear: push_commit is left set.
WorkerKeep ==
    /\ worker = "clear" /\ commit_mutex' = "free" /\ worker' = "top"
    /\ UNCHANGED <<shared, update_mutex, search, main, local, origin_master,
                   remote, world>>

\* push_commit = NULL; unlock commit_mutex
WorkerClear ==
    /\ worker = "clear"
    /\ push_commit' = NULL /\ commit_mutex' = "free" /\ worker' = "top"
    /\ UNCHANGED <<stop, updated, curr_commit, update_mutex, search, main,
                   local, origin_master, remote, world>>

\* The branch that polls: reached only if push_commit went away in between.
check_updates ==
    /\ worker = "check" /\ origin_master # 0
    /\ fetch_updates
    /\ worker' = IF origin_master' # origin_master THEN "lockF" ELSE "top"
    /\ UNCHANGED <<shared, locks, search, main, local, remote, world>>

WorkerLockF ==
    /\ worker = "lockF" /\ update_mutex = "free"
    /\ update_mutex' = "worker" /\ worker' = "flag"
    /\ UNCHANGED <<shared, commit_mutex, search, main, local, origin_master,
                   remote, world>>

WorkerFlag ==
    /\ worker = "flag"
    /\ updated' = 1 /\ update_mutex' = "free" /\ worker' = "top"
    /\ UNCHANGED <<stop, push_commit, curr_commit, commit_mutex, search, main,
                   local, origin_master, remote, world>>

WorkerNext ==
    \/ WorkerTop \/ WorkerTest \/ WorkerTest1 \/ WorkerTest2 \/ WorkerLock
    \/ push_result_shell \/ WorkerLockU \/ FetchAndFlag \/ WorkerClear
    \/ check_updates \/ WorkerLockF \/ WorkerFlag

-----------------------------------------------------------------------------
(***************************************************************************)
(* The signal handler, the end of the process, and everyone else.          *)
(***************************************************************************)

\* The handler's two stores, which other threads can see apart.
HandlerStop ==
    /\ Interrupts /\ sig \in {"none", "done"} /\ main \notin {"exit", "dead"}
    /\ sig' = "half" /\ stop' = 1
    /\ UNCHANGED <<updated, push_commit, curr_commit, locks, search, main,
                   worker, local, origin_master, remote, orphans, finds, rivals,
                   exits>>

HandlerUpdated ==
    /\ sig = "half" /\ main # "dead"
    /\ sig' = "done" /\ updated' = 1
    /\ UNCHANGED <<stop, push_commit, curr_commit, locks, search, main, worker,
                   local, origin_master, remote, orphans, finds, rivals, exits>>

int_handler == HandlerStop \/ HandlerUpdated

\* reset_hard() or check_updates() does not find refs/remotes/origin/master.
RefMissing ==
    /\ origin_master = 0
    /\ worker = "check" \/ (main = "reset" /\ updated = 1)

\* The git command a process that dies now leaves running.
Child ==
    CASE worker = "push" /\ push_commit = Curr -> {curr_commit}
      [] worker = "push" /\ push_commit = NULL -> {Deletion}
      [] worker \in {"fetch", "check"}          -> {Fetch}
      [] OTHER                                  -> {}

\* exit(1) of check_lg2 or fetch_updates, or a kill: both threads are gone.
\* A git command already started by popen lives on.
Exit ==
    /\ main \notin {"exit", "dead"}
    /\ exits < MaxExits \/ RefMissing
    /\ main' = "dead" /\ worker' = "dead"
    /\ exits' = IF RefMissing THEN exits ELSE exits + 1
    /\ orphans' = orphans \cup Child
    /\ UNCHANGED <<shared, locks, search, sig, local, origin_master, remote,
                   finds, rivals>>

\* The program is run again: fresh memory, then check_updates() and
\* reset_hard() on the repository as it was left.
Restart ==
    /\ main = "dead"
    /\ origin_master # 0 /\ fetch_updates
    /\ head' = origin_master' /\ ledger' = odb[origin_master'].coins
    /\ stop' = 0 /\ updated' = 0 /\ push_commit' = NULL /\ curr_commit' = 0
    /\ commit_mutex' = "free" /\ update_mutex' = "free"
    /\ found' = 0 /\ msg' = [parent |-> 0, coins |-> 0]
    /\ main' = "top" /\ worker' = "top" /\ sig' = "none"
    /\ UNCHANGED <<odb, remote, orphans, finds, rivals, exits>>

\* A git command left behind by Exit takes effect, or fails.
OrphanEnds ==
    /\ \E c \in orphans :
         /\ orphans' = orphans \ {c}
         /\ \/ c \in Ids /\ Accepts(c) /\ Land(c) /\ origin_master' = c
            \/ /\ c = Deletion
               /\ remote_master' = 0 /\ origin_master' = 0 /\ UNCHANGED accepted
            \/ c = Fetch /\ fetch_updates /\ UNCHANGED remote
            \/ UNCHANGED <<remote, origin_master>>
    /\ UNCHANGED <<shared, locks, search, main, worker, sig, local, finds,
                   rivals, exits>>

\* Another miner gets its commit onto the remote; user null's coins stay.
RivalPush ==
    /\ rivals < MaxRivals /\ remote_master # 0
    /\ odb' = Append(odb, Commit(remote_master, odb[remote_master].coins, "rival"))
    /\ remote_master' = Len(odb) + 1
    /\ accepted' = accepted \cup {Len(odb) + 1}
    /\ rivals' = rivals + 1
    /\ UNCHANGED <<shared, locks, search, main, worker, sig, head, ledger,
                   origin_master, orphans, finds, exits>>

\* Nothing is left to run.
Terminated ==
    /\ main = "exit"
    /\ UNCHANGED vars

Next ==
    \/ MainNext \/ WorkerNext \/ int_handler
    \/ Exit \/ Restart \/ OrphanEnds \/ RivalPush \/ Terminated

(***************************************************************************)
(* The scheduler runs both threads and finishes a started handler; a       *)
(* search that is repeated for ever finds a nonce (the target is finite);  *)
(* a thread that misses origin/master gets to its exit(1).  Nothing is     *)
(* assumed of SIGINT, other failures, rivals or restarts.                  *)
(***************************************************************************)
Fairness ==
    /\ WF_vars(MainNext) /\ WF_vars(WorkerNext) /\ WF_vars(HandlerUpdated)
    /\ SF_vars(HashFound) /\ WF_vars(RefMissing /\ Exit)

Spec == Init /\ [][Next]_vars
FairSpec == Spec /\ Fairness

-----------------------------------------------------------------------------
Mined == {c \in Ids : odb[c].who = "miner"}

CommitType == [parent : Nat, coins : Nat, who : {"miner", "rival"}, anc : SUBSET Nat]

\* Types of the shared memory, the control state and the repositories.
TypeOK ==
    /\ stop \in {0, 1} /\ updated \in {0, 1}
    /\ push_commit \in {NULL, Curr} /\ curr_commit \in 0 .. Len(odb)
    /\ commit_mutex \in {"free", "main", "worker"}
    /\ update_mutex \in {"free", "main", "worker"}
    /\ found \in {0, 1}
    /\ msg \in [parent : 0 .. Len(odb), coins : Nat]
    /\ main \in MainLabels /\ worker \in WorkerLabels
    /\ sig \in {"none", "half", "done"}
    /\ odb \in Seq(CommitType) /\ Len(odb) >= 1
    /\ head \in Ids /\ ledger \in Nat
    /\ origin_master \in 0 .. Len(odb) /\ remote_master \in 0 .. Len(odb)
    /\ accepted \in SUBSET Ids
    /\ orphans \in SUBSET (Ids \cup {Deletion, Fetch})
    /\ finds \in Nat /\ rivals \in Nat /\ exits \in Nat

(***************************************************************************)
(* No coin is mined on a coin the remote refused.  main() mines the next   *)
(* commit while the previous one is still being pushed; it may only commit *)
(* after waiting for push_commit and rereading `updated', by which time    *)
(* the parent must have been on the remote's master (level1.c 380-396).    *)
(***************************************************************************)
ParentAccepted == \A c \in Mined : odb[c].parent \in accepted

(***************************************************************************)
(* Each mined commit pays exactly one coin more than its parent's tree.    *)
(* prepare_index() edits LEDGER.txt in place on every round, so a round    *)
(* that is given up must always be followed by reset_hard().               *)
(***************************************************************************)
OneCoinPerCommit == \A c \in Mined : odb[c].coins = odb[odb[c].parent].coins + 1

(***************************************************************************)
(* Until SIGINT arrives the update thread never pushes a NULL commit, in   *)
(* spite of testing push_commit before it takes commit_mutex.              *)
(***************************************************************************)
PushHasCommitUnlessInterrupted ==
    sig = "none" /\ worker = "push" => push_commit = Curr

(***************************************************************************)
(* What the update thread's own tests of push_commit are there for: a push *)
(* always names a commit (level1.c 227-231).                               *)
(***************************************************************************)
PushHasCommit == worker = "push" => push_commit = Curr

(***************************************************************************)
(* curr_commit, to which push_commit points, is not overwritten while a    *)
(* push of it is outstanding.                                              *)
(***************************************************************************)
PendingCommitStable ==
    [][push_commit = Curr /\ main # "dead" => curr_commit' = curr_commit]_vars

(***************************************************************************)
(* Until SIGINT arrives the remote's master only moves to a descendant, so *)
(* nobody's coins are taken back.                                          *)
(***************************************************************************)
RemoteFastForward ==
    [][(sig = "none" /\ Deletion \notin orphans) =>
         (remote_master' # remote_master /\ remote_master # 0 =>
            remote_master' # 0 /\ remote_master \in odb'[remote_master'].anc)]_vars

(***************************************************************************)
(* Every commit handed to the update thread is settled: pushed or given    *)
(* up, unless the program stops.                                           *)
(***************************************************************************)
PushSettled ==
    push_commit = Curr ~> (push_commit = NULL \/ stop = 1 \/ main = "dead")

\* main() waits for a push that the update thread will never make.
Hung == main = "wait" /\ worker = "exit" /\ push_commit = Curr

(***************************************************************************)
(* After SIGINT the program ends, except in one situation: the update      *)
(* thread saw `stop' and left while main() was waiting for it to push      *)
(* (level1.c 224 against 383).                                             *)
(***************************************************************************)
StopEnds == stop = 1 ~> (main \in {"exit", "dead"} \/ Hung)

(***************************************************************************)
(* A refused push is always followed by a reset to the fetched master.     *)
(***************************************************************************)
UpdateConsumed ==
    updated = 1 ~> (updated = 0 \/ stop = 1 \/ main \in {"exit", "dead"})
=============================================================================
