------------------------------ MODULE Lockfile ------------------------------
(***************************************************************************)
(* acquire_lockfile and release_lockfile of main.c: how runs of the nvram  *)
(* program exclude each other.  A run opens the lock file, creating it if  *)
(* the path names none, takes an exclusive flock on the inode it opened,   *)
(* works, closes the file and only then unlinks the path.  Each system     *)
(* call is a step, so that the runs interleave between any two of them.    *)
(***************************************************************************)
EXTENDS Naturals, FiniteSets

CONSTANTS
    Procs,           \* the runs of the program, one process each
    Inodes,          \* the inodes a lock file can get
    AllowedRetries,  \* allowed_retries, 10 in the code
    None             \* no inode, no process

ASSUME ProcsAssumption == None \notin Procs

ASSUME InodesAssumption ==
    /\ None \notin Inodes
    /\ IsFiniteSet(Procs)
    /\ IsFiniteSet(Inodes)
    /\ Cardinality(Inodes) >= Cardinality(Procs)

ASSUME RetriesAssumption == AllowedRetries \in Nat \ {0}

VARIABLES
    path,     \* the inode that NVRAM_LOCKFILE names
    holder,   \* which process holds the flock of each inode
    fd,       \* the inode each process has open
    retries,  \* the local variable of acquire_lockfile
    pc,       \* where each process is
    lost      \* not in the code, and no action reads it: the processes
              \* whose file another one has unlinked while they had it open

lockvars == <<path, holder, fd, retries, pc, lost>>

\* How a run can end, as far as the lock is concerned.
Finished ==
    {"released",         \* release_lockfile returned 0
     "already_removed",  \* its unlink failed: somebody else removed the path
     "unreleased",       \* its close or unlink failed: the path is left
     "timeout",          \* acquire_lockfile returned -ETIMEDOUT
     "failed",           \* acquire_lockfile returned another error
     "dead"}             \* the process was killed

LockTypeOK ==
    /\ path \in Inodes \cup {None}
    /\ holder \in [Inodes -> Procs \cup {None}]
    /\ fd \in [Procs -> Inodes \cup {None}]
    /\ retries \in [Procs -> 0..AllowedRetries]
    /\ pc \in [Procs -> {"start", "try", "locked", "unlink"} \cup Finished]
    /\ lost \subseteq Procs

LockInit ==
    /\ path = None
    /\ holder = [i \in Inodes |-> None]
    /\ fd = [p \in Procs |-> None]
    /\ retries = [p \in Procs |-> AllowedRetries]
    /\ pc = [p \in Procs |-> "start"]
    /\ lost = {}

Goto(p, l) == pc' = [pc EXCEPT ![p] = l]

\* close(2), also when it is the kernel that closes: the flock goes with it.
Closes(p) ==
    /\ fd' = [fd EXCEPT ![p] = None]
    /\ holder' = [i \in Inodes |-> IF holder[i] = p THEN None ELSE holder[i]]

\* An inode without name and without users can be allocated (again).
Free == {i \in Inodes : i # path /\ \A q \in Procs : fd[q] # i}

Open(p) ==
    /\ pc[p] = "start"
    /\ \E i \in (IF path = None THEN Free ELSE {path}) :
        /\ path' = i
        /\ fd' = [fd EXCEPT ![p] = i]
    /\ Goto(p, "try")
    /\ UNCHANGED <<holder, retries, lost>>

OpenFails(p) ==
    /\ pc[p] = "start"
    /\ Goto(p, "failed")
    /\ UNCHANGED <<path, holder, fd, retries, lost>>

\* Mutant: the lock is shared (LOCK_SH).
FlockSucceeds_shared(p) ==
    /\ pc[p] = "try"
    /\ holder' = [holder EXCEPT ![fd[p]] = p]
    /\ Goto(p, "locked")
    /\ UNCHANGED <<path, fd, retries, lost>>

FlockSucceeds(p) ==
    /\ pc[p] = "try"
    /\ holder[fd[p]] = None
    /\ holder' = [holder EXCEPT ![fd[p]] = p]
    /\ Goto(p, "locked")
    /\ UNCHANGED <<path, fd, retries, lost>>

\* Mutant: the loop does not notice its last attempt.
FlockBlocks_unbounded(p) ==
    /\ pc[p] = "try"
    /\ holder[fd[p]] # None
    /\ retries' = [retries EXCEPT ![p] = @ - 1]
    /\ UNCHANGED <<path, holder, fd, pc, lost>>

\* EWOULDBLOCK: sleep and try again.
FlockBlocks(p) ==
    /\ pc[p] = "try"
    /\ holder[fd[p]] # None
    /\ retries[p] > 1
    /\ retries' = [retries EXCEPT ![p] = @ - 1]
    /\ UNCHANGED <<path, holder, fd, pc, lost>>

\* Mutant: the timeout does not close the file.
FlockTimesOut_leaks(p) ==
    /\ pc[p] = "try"
    /\ holder[fd[p]] # None
    /\ retries[p] = 1
    /\ retries' = [retries EXCEPT ![p] = 0]
    /\ Goto(p, "timeout")
    /\ UNCHANGED <<path, holder, fd, lost>>

\* Mutant: the timeout releases the lock file it never locked.
FlockTimesOut_unlinks(p) ==
    /\ pc[p] = "try"
    /\ holder[fd[p]] # None
    /\ retries[p] = 1
    /\ retries' = [retries EXCEPT ![p] = 0]
    /\ Closes(p)
    /\ Goto(p, "timeout")
    /\ path' = None
    /\ UNCHANGED lost

\* EWOULDBLOCK for the last time.
FlockTimesOut(p) ==
    /\ pc[p] = "try"
    /\ holder[fd[p]] # None
    /\ retries[p] = 1
    /\ retries' = [retries EXCEPT ![p] = 0]
    /\ Closes(p)
    /\ Goto(p, "timeout")
    /\ UNCHANGED <<path, lost>>

FlockFails(p) ==
    /\ pc[p] = "try"
    /\ Closes(p)
    /\ Goto(p, "failed")
    /\ UNCHANGED <<path, retries, lost>>

\* Mutant: the result of close is tested the wrong way round.
Close_inverted(p) ==
    /\ pc[p] = "locked"
    /\ Closes(p)
    /\ Goto(p, "released")
    /\ UNCHANGED <<path, retries, lost>>

\* release_lockfile, once the run has done its work.
Close(p) ==
    /\ pc[p] = "locked"
    /\ Closes(p)
    /\ Goto(p, "unlink")
    /\ UNCHANGED <<path, retries, lost>>

CloseFails(p) ==
    /\ pc[p] = "locked"
    /\ Closes(p)
    /\ Goto(p, "unreleased")
    /\ UNCHANGED <<path, retries, lost>>

Unlink(p) ==
    /\ pc[p] = "unlink"
    /\ path' = None
    /\ lost' = lost \cup {q \in Procs : fd[q] # None /\ fd[q] = path}
    /\ Goto(p, IF path = None THEN "already_removed" ELSE "released")
    /\ UNCHANGED <<holder, fd, retries>>

UnlinkFails(p) ==
    /\ pc[p] = "unlink"
    /\ Goto(p, "unreleased")
    /\ UNCHANGED <<path, holder, fd, retries, lost>>

\* Mutant: the lock outlives the process, like a lock that is a file's existence.
Dies_keeps_lock(p) ==
    /\ pc[p] \notin Finished
    /\ fd' = [fd EXCEPT ![p] = None]
    /\ Goto(p, "dead")
    /\ UNCHANGED <<path, holder, retries, lost>>

Dies(p) ==
    /\ pc[p] \notin Finished
    /\ Closes(p)
    /\ Goto(p, "dead")
    /\ UNCHANGED <<path, retries, lost>>

Step(p) ==
    \/ Open(p)
    \/ OpenFails(p)
    \/ FlockSucceeds(p)
    \/ FlockBlocks(p)
    \/ FlockTimesOut(p)
    \/ FlockFails(p)
    \/ Close(p)
    \/ CloseFails(p)
    \/ Unlink(p)
    \/ UnlinkFails(p)

LockNext == \E p \in Procs : Step(p) \/ Dies(p)

LockSpec == LockInit /\ [][LockNext]_lockvars

\* Every process runs: the program never waits without a bound.
LockFairSpec == LockSpec /\ \A p \in Procs : WF_lockvars(Step(p))
-----------------------------------------------------------------------------
Trying(p) == pc[p] \in {"try", "locked"}

\* The file of p or q was unlinked while it was open, and a third run did it.
LockLost(p, q) ==
    {p, q} \cap lost # {} /\ \E x \in Procs \ {p, q} : pc[x] = "released"

(***************************************************************************)
(* Two runs work on the store at the same time only if one of them is on a *)
(* lock file whose name a third run has removed while it was open: unlink  *)
(* comes after close, when the lock may have a new owner.  In particular   *)
(* two runs exclude each other, whatever they do.                          *)
(***************************************************************************)
ExclusionUnlessLost ==
    \A p, q \in Procs :
        p # q /\ pc[p] = "locked" /\ pc[q] = "locked" => LockLost(p, q)

(***************************************************************************)
(* A run that holds the lock, or tries to, can be on an inode the path no  *)
(* longer names only if some other run has unlinked it since.              *)
(***************************************************************************)
LockedIsNamed ==
    \A p \in Procs :
        Trying(p) /\ fd[p] # path =>
            p \in lost /\ \E q \in Procs \ {p} : pc[q] = "released"

(***************************************************************************)
(* The lock file does not outlive the runs: if all are over and none was   *)
(* killed or failed to release, the path is gone, in whatever order they   *)
(* opened, timed out, closed and unlinked each other's files.              *)
(***************************************************************************)
LockfileRemoved ==
    (\A p \in Procs : pc[p] \in Finished \ {"dead", "unreleased", "failed"})
        => path = None

(***************************************************************************)
(* A lock file left behind by a dead run does not lock anybody out: a run  *)
(* that is alone gets the lock, unless a system call fails or it is killed.*)
(***************************************************************************)
AloneAcquires ==
    \A p \in Procs :
        (pc[p] = "start" /\ \A q \in Procs \ {p} : pc[q] \in Finished)
            ~> pc[p] \in {"locked", "failed", "dead"}
-----------------------------------------------------------------------------
(***************************************************************************)
(* The inductive invariant behind the three: whoever is inside has the     *)
(* flock of the inode it opened, and a path that names something has       *)
(* somebody who will unlink it, or who failed or died before doing so.     *)
(***************************************************************************)
FdsOpen == \A p \in Procs : Trying(p) <=> fd[p] # None

HoldersLocked ==
    /\ \A i \in Inodes :
          holder[i] # None => pc[holder[i]] = "locked" /\ fd[holder[i]] = i
    /\ \A p \in Procs : pc[p] = "locked" => holder[fd[p]] = p

\* Somebody who has lost his file has lost it to a run that unlinked it.
LostToOther ==
    \A p \in lost : \E q \in Procs \ {p} : pc[q] = "released"

Unlinks(p) ==
    \/ Trying(p) /\ fd[p] = path
    \/ pc[p] \in {"unlink", "unreleased", "failed", "dead"}

PathOwned == path # None => \E p \in Procs : Unlinks(p)

ManyInv ==
    /\ LockTypeOK
    /\ FdsOpen
    /\ HoldersLocked
    /\ LostToOther
    /\ LockedIsNamed
    /\ PathOwned
=============================================================================
