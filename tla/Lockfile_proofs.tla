--------------------------- MODULE Lockfile_proofs ---------------------------
(***************************************************************************)
(* Proofs about the lock file, for every set of processes and inodes.      *)
(***************************************************************************)
EXTENDS Lockfile, TLAPS

\* What close(2) does keeps the types.
LEMMA ClosesType ==
    ASSUME LockTypeOK, NEW p \in Procs, Closes(p)
    PROVE  /\ fd' \in [Procs -> Inodes \cup {None}]
           /\ holder' \in [Inodes -> Procs \cup {None}]
BY DEF Closes, LockTypeOK

LEMMA LockTypeInit == LockInit => LockTypeOK
BY RetriesAssumption DEF LockInit, LockTypeOK

LEMMA LockTypeNext == LockTypeOK /\ [LockNext]_lockvars => LockTypeOK'
<1> SUFFICES ASSUME LockTypeOK, [LockNext]_lockvars PROVE LockTypeOK'
  OBVIOUS
<1>1. CASE UNCHANGED lockvars
  BY <1>1 DEF lockvars, LockTypeOK
<1>2. ASSUME NEW p \in Procs, Open(p)
      PROVE  LockTypeOK'
  BY <1>2 DEF Open, Goto, Free, LockTypeOK
<1>3. ASSUME NEW p \in Procs, OpenFails(p)
      PROVE  LockTypeOK'
  BY <1>3 DEF OpenFails, Goto, LockTypeOK, Finished
<1>4. ASSUME NEW p \in Procs, FlockSucceeds(p)
      PROVE  LockTypeOK'
  BY <1>4 DEF FlockSucceeds, Goto, LockTypeOK
<1>5. ASSUME NEW p \in Procs, FlockBlocks(p)
      PROVE  LockTypeOK'
  <2>1. retries[p] - 1 \in 0..AllowedRetries
    BY <1>5, RetriesAssumption DEF FlockBlocks, LockTypeOK
  <2> QED
    BY <1>5, <2>1 DEF FlockBlocks, LockTypeOK
<1>6. ASSUME NEW p \in Procs, FlockTimesOut(p)
      PROVE  LockTypeOK'
  BY <1>6, ClosesType, RetriesAssumption DEF FlockTimesOut, Goto, LockTypeOK, Finished
<1>7. ASSUME NEW p \in Procs, FlockFails(p)
      PROVE  LockTypeOK'
  BY <1>7, ClosesType DEF FlockFails, Goto, LockTypeOK, Finished
<1>8. ASSUME NEW p \in Procs, Close(p)
      PROVE  LockTypeOK'
  BY <1>8, ClosesType DEF Close, Goto, LockTypeOK
<1>9. ASSUME NEW p \in Procs, CloseFails(p)
      PROVE  LockTypeOK'
  BY <1>9, ClosesType DEF CloseFails, Goto, LockTypeOK, Finished
<1>10. ASSUME NEW p \in Procs, Unlink(p)
       PROVE  LockTypeOK'
  BY <1>10 DEF Unlink, Goto, LockTypeOK, Finished
<1>11. ASSUME NEW p \in Procs, UnlinkFails(p)
       PROVE  LockTypeOK'
  BY <1>11 DEF UnlinkFails, Goto, LockTypeOK, Finished
<1>12. ASSUME NEW p \in Procs, Dies(p)
       PROVE  LockTypeOK'
  BY <1>12, ClosesType DEF Dies, Goto, LockTypeOK, Finished
<1> QED
  BY <1>1, <1>2, <1>3, <1>4, <1>5, <1>6, <1>7, <1>8, <1>9, <1>10, <1>11, <1>12
  DEF LockNext, Step

(***************************************************************************)
(* Type correctness of the lock file, its inodes and the runs using it.    *)
(***************************************************************************)
THEOREM LockTypeCorrect == LockSpec => []LockTypeOK
<1>1. LockInit => LockTypeOK
  BY LockTypeInit
<1>2. LockTypeOK /\ [LockNext]_lockvars => LockTypeOK'
  BY LockTypeNext
<1> QED BY <1>1, <1>2, PTL DEF LockSpec
-----------------------------------------------------------------------------
\* A run that leaves the lock to nobody in particular: it closes its file, if
\* it has one, and the path stays as it is.
LEMMA LeavingKeepsMany ==
    ASSUME ManyInv, NEW p \in Procs, NEW l \in {"unlink"} \cup Finished,
           pc[p] \notin Finished, Goto(p, l), UNCHANGED <<path, lost>>,
           \/ Closes(p)
           \/ ~Trying(p) /\ UNCHANGED <<holder, fd>>
    PROVE  (FdsOpen /\ HoldersLocked /\ LostToOther /\ LockedIsNamed)'
<1>1. /\ pc'[p] = l
      /\ l \notin {"start", "try", "locked"}
      /\ \A q \in Procs : q # p => pc'[q] = pc[q] /\ fd'[q] = fd[q]
      /\ fd'[p] = None
  BY DEF Goto, Closes, Finished, ManyInv, LockTypeOK, FdsOpen
<1>2. FdsOpen'
  BY <1>1 DEF ManyInv, FdsOpen, Trying
<1>3. ASSUME NEW i \in Inodes, holder'[i] # None
      PROVE  pc'[holder'[i]] = "locked" /\ fd'[holder'[i]] = i
  <2>1. holder'[i] = holder[i] /\ holder[i] \in Procs /\ pc[holder[i]] = "locked"
    BY <1>3 DEF Closes, ManyInv, LockTypeOK, HoldersLocked
  <2>2. holder[i] # p
    BY <1>3, <2>1 DEF Closes, Trying
  <2> QED
    BY <1>1, <1>3, <2>1, <2>2 DEF ManyInv, HoldersLocked
<1>4. ASSUME NEW q \in Procs, pc'[q] = "locked"
      PROVE  holder'[fd'[q]] = q
  <2>1. q # p /\ pc[q] = "locked" /\ fd'[q] = fd[q]
    BY <1>1, <1>4
  <2>2. fd[q] \in Inodes /\ holder[fd[q]] = q
    BY <2>1 DEF ManyInv, FdsOpen, HoldersLocked, LockTypeOK, Trying
  <2> QED
    BY <2>1, <2>2 DEF Closes
<1>5. HoldersLocked'
  BY <1>3, <1>4 DEF HoldersLocked
<1>6. LostToOther'
  <2>1. pc[p] # "released"
    BY DEF Finished
  <2> QED
    BY <1>1, <2>1 DEF ManyInv, LostToOther, LockTypeOK
<1>7. LockedIsNamed'
  BY <1>1 DEF ManyInv, LockedIsNamed, Finished, Trying
<1> QED
  BY <1>2, <1>5, <1>6, <1>7

LEMMA ManyInvInit == LockInit => ManyInv
BY LockTypeInit
DEF LockInit, ManyInv, FdsOpen, HoldersLocked, LostToOther, LockedIsNamed, PathOwned,
    Trying

\* Whoever will unlink the path still will, if only another run moves.
LEMMA OwnedByOther ==
    ASSUME NEW p \in Procs, NEW q \in Procs \ {p}, Unlinks(q), path' = path,
           pc'[q] = pc[q], fd'[q] = fd[q]
    PROVE  PathOwned'
BY DEF PathOwned, Unlinks, Trying

\* A run that ends in one of these states owns the path for good.
LEMMA OwnedByItself ==
    ASSUME ManyInv, NEW p \in Procs,
           NEW l \in {"unlink", "unreleased", "failed", "dead"}, Goto(p, l)
    PROVE  PathOwned'
BY DEF PathOwned, Unlinks, Goto, ManyInv, LockTypeOK

LEMMA ManyInvNext == ManyInv /\ [LockNext]_lockvars => ManyInv'
<1> SUFFICES ASSUME ManyInv, [LockNext]_lockvars
             PROVE  (FdsOpen /\ HoldersLocked /\ LostToOther /\ LockedIsNamed /\ PathOwned)'
  BY LockTypeNext DEF ManyInv
<1>1. CASE UNCHANGED lockvars
  BY <1>1
  DEF lockvars, ManyInv, FdsOpen, HoldersLocked, LostToOther, LockedIsNamed, PathOwned,
      Unlinks, Trying
<1>2. ASSUME NEW p \in Procs, Open(p)
      PROVE  (FdsOpen /\ HoldersLocked /\ LostToOther /\ LockedIsNamed /\ PathOwned)'
  <2>1. PICK i \in Inodes :
          /\ path' = i
          /\ fd' = [fd EXCEPT ![p] = i]
          /\ path # None => i = path
    BY <1>2 DEF Open, Free, ManyInv, LockTypeOK
  <2>2. i # None
    BY <2>1, InodesAssumption
  <2>3. /\ fd'[p] = i
        /\ pc[p] = "start"
        /\ pc'[p] = "try"
        /\ UNCHANGED <<holder, lost>>
        /\ \A q \in Procs : q # p => pc'[q] = pc[q] /\ fd'[q] = fd[q]
    BY <1>2, <2>1 DEF Open, Goto, ManyInv, LockTypeOK
  <2>4. FdsOpen'
    BY <2>2, <2>3 DEF ManyInv, FdsOpen, Trying
  <2>5. HoldersLocked'
    <3>1. \A k \in Inodes : holder[k] # None => holder[k] # p /\ holder[k] \in Procs
      BY <2>3 DEF ManyInv, LockTypeOK, HoldersLocked
    <3> QED
      BY <2>3, <3>1 DEF ManyInv, HoldersLocked
  <2>6. LostToOther'
    BY <2>3 DEF ManyInv, LostToOther, LockTypeOK
  <2>7. LockedIsNamed'
    <3> SUFFICES ASSUME NEW r \in Procs, Trying(r)', fd'[r] # i
                 PROVE  r \in lost /\ \E q \in Procs \ {r} : pc'[q] = "released"
      BY <2>1, <2>3 DEF LockedIsNamed
    <3>1. r # p /\ Trying(r) /\ fd[r] # None /\ fd[r] # i
      BY <2>3 DEF ManyInv, FdsOpen, Trying
    <3>2. fd[r] # path
      BY <2>1, <3>1
    <3> QED
      BY <2>3, <3>1, <3>2 DEF ManyInv, LockedIsNamed
  <2>8. PathOwned'
    BY <2>1, <2>3 DEF PathOwned, Unlinks, Trying
  <2> QED
    BY <2>4, <2>5, <2>6, <2>7, <2>8
<1>3. ASSUME NEW p \in Procs, OpenFails(p)
      PROVE  (FdsOpen /\ HoldersLocked /\ LostToOther /\ LockedIsNamed /\ PathOwned)'
  BY <1>3, LeavingKeepsMany, OwnedByItself DEF OpenFails, Finished, Trying
<1>4. ASSUME NEW p \in Procs, FlockSucceeds(p)
      PROVE  (FdsOpen /\ HoldersLocked /\ LostToOther /\ LockedIsNamed /\ PathOwned)'
  <2>1. fd[p] \in Inodes
    BY <1>4 DEF FlockSucceeds, ManyInv, FdsOpen, LockTypeOK, Trying
  <2>2. /\ holder'[fd[p]] = p
        /\ \A i \in Inodes : i # fd[p] => holder'[i] = holder[i]
        /\ UNCHANGED <<path, fd, lost>>
        /\ pc[p] = "try"
        /\ pc'[p] = "locked"
        /\ \A q \in Procs : q # p => pc'[q] = pc[q]
    BY <1>4, <2>1 DEF FlockSucceeds, Goto, ManyInv, LockTypeOK
  <2>3. FdsOpen'
    BY <2>2 DEF ManyInv, FdsOpen, Trying
  <2>4. HoldersLocked'
    <3>1. ASSUME NEW i \in Inodes, holder'[i] # None
          PROVE  pc'[holder'[i]] = "locked" /\ fd'[holder'[i]] = i
      <4>1. CASE i = fd[p]
        BY <2>2, <4>1
      <4>2. CASE i # fd[p]
        BY <2>2, <3>1, <4>2 DEF ManyInv, LockTypeOK, HoldersLocked
      <4> QED
        BY <4>1, <4>2
    <3>2. \A q \in Procs \ {p} : pc[q] = "locked" => fd[q] \in Inodes /\ fd[q] # fd[p]
      BY <1>4, ProcsAssumption
      DEF FlockSucceeds, ManyInv, FdsOpen, HoldersLocked, LockTypeOK, Trying
    <3>3. \A q \in Procs : pc'[q] = "locked" => holder'[fd'[q]] = q
      BY <2>2, <3>2 DEF ManyInv, HoldersLocked
    <3> QED
      BY <3>1, <3>3 DEF HoldersLocked
  <2>5. LostToOther'
    BY <2>2 DEF ManyInv, LostToOther, LockTypeOK
  <2>6. LockedIsNamed'
    BY <2>2 DEF ManyInv, LockedIsNamed, Trying
  <2>7. PathOwned'
    BY <2>2 DEF ManyInv, PathOwned, Unlinks, Trying
  <2> QED
    BY <2>3, <2>4, <2>5, <2>6, <2>7
<1>5. ASSUME NEW p \in Procs, FlockBlocks(p)
      PROVE  (FdsOpen /\ HoldersLocked /\ LostToOther /\ LockedIsNamed /\ PathOwned)'
  BY <1>5
  DEF FlockBlocks, ManyInv, FdsOpen, HoldersLocked, LostToOther, LockedIsNamed, PathOwned,
      Unlinks, Trying
<1>6. ASSUME NEW p \in Procs, FlockTimesOut(p)
      PROVE  (FdsOpen /\ HoldersLocked /\ LostToOther /\ LockedIsNamed /\ PathOwned)'
  <2>1. (FdsOpen /\ HoldersLocked /\ LostToOther /\ LockedIsNamed)'
    BY <1>6, LeavingKeepsMany DEF FlockTimesOut, Finished
  <2>2. path' = path /\ \A q \in Procs \ {p} : pc'[q] = pc[q] /\ fd'[q] = fd[q]
    BY <1>6 DEF FlockTimesOut, Closes, Goto, ManyInv, LockTypeOK
  <2>3. CASE \E q \in Procs \ {p} : Unlinks(q)
    BY <2>1, <2>2, <2>3, OwnedByOther
  <2>4. CASE Unlinks(p)
    <3>1. fd[p] = path /\ path \in Inodes
      BY <1>6, <2>4, InodesAssumption DEF FlockTimesOut, Unlinks, ManyInv, FdsOpen,
         LockTypeOK, Trying
    <3>2. PICK r \in Procs : r = holder[path]
      BY <1>6, <3>1 DEF FlockTimesOut, ManyInv, LockTypeOK
    <3>3. r # p /\ Unlinks(r)
      BY <1>6, <3>1, <3>2, ProcsAssumption
      DEF FlockTimesOut, ManyInv, HoldersLocked, Unlinks, Trying
    <3> QED
      BY <2>1, <2>2, <3>3, OwnedByOther
  <2>5. CASE path = None
    BY <2>1, <2>2, <2>5 DEF PathOwned
  <2> QED
    BY <2>3, <2>4, <2>5 DEF ManyInv, PathOwned
<1>7. ASSUME NEW p \in Procs, FlockFails(p)
      PROVE  (FdsOpen /\ HoldersLocked /\ LostToOther /\ LockedIsNamed /\ PathOwned)'
  BY <1>7, LeavingKeepsMany, OwnedByItself DEF FlockFails, Finished
<1>8. ASSUME NEW p \in Procs, Close(p)
      PROVE  (FdsOpen /\ HoldersLocked /\ LostToOther /\ LockedIsNamed /\ PathOwned)'
  BY <1>8, LeavingKeepsMany, OwnedByItself DEF Close, Finished
<1>9. ASSUME NEW p \in Procs, CloseFails(p)
      PROVE  (FdsOpen /\ HoldersLocked /\ LostToOther /\ LockedIsNamed /\ PathOwned)'
  BY <1>9, LeavingKeepsMany, OwnedByItself DEF CloseFails, Finished
<1>10. ASSUME NEW p \in Procs, Unlink(p)
       PROVE  (FdsOpen /\ HoldersLocked /\ LostToOther /\ LockedIsNamed /\ PathOwned)'
  <2>1. /\ path' = None
        /\ UNCHANGED <<holder, fd>>
        /\ pc[p] = "unlink"
        /\ pc'[p] = IF path = None THEN "already_removed" ELSE "released"
        /\ \A q \in Procs : q # p => pc'[q] = pc[q]
        /\ lost' = lost \cup {q \in Procs : fd[q] # None /\ fd[q] = path}
    BY <1>10 DEF Unlink, Goto, ManyInv, LockTypeOK
  <2>2. FdsOpen'
    BY <2>1 DEF ManyInv, FdsOpen, Trying
  <2>3. HoldersLocked'
    BY <2>1 DEF ManyInv, LockTypeOK, HoldersLocked
  <2>4. fd[p] = None
    BY <2>1 DEF ManyInv, FdsOpen, Trying
  <2>5. LostToOther'
    <3> SUFFICES ASSUME NEW r \in lost'
                 PROVE  \E q \in Procs \ {r} : pc'[q] = "released"
      BY DEF LostToOther
    <3>1. CASE r \in lost
      BY <2>1, <3>1 DEF ManyInv, LostToOther, LockTypeOK
    <3>2. CASE r \notin lost
      <4>1. fd[r] # None /\ fd[r] = path
        BY <2>1, <3>2
      <4> QED
        BY <2>1, <2>4, <4>1
    <3> QED
      BY <3>1, <3>2
  <2>6. LockedIsNamed'
    <3> SUFFICES ASSUME NEW r \in Procs, Trying(r)'
                 PROVE  r \in lost'
      BY <2>5 DEF LockedIsNamed, LostToOther
    <3>1. Trying(r) /\ fd[r] # None
      BY <2>1 DEF ManyInv, FdsOpen, Trying
    <3> QED
      BY <2>1, <3>1 DEF ManyInv, LockedIsNamed
  <2>7. PathOwned'
    BY <2>1 DEF PathOwned
  <2> QED
    BY <2>2, <2>3, <2>5, <2>6, <2>7
<1>11. ASSUME NEW p \in Procs, UnlinkFails(p)
       PROVE  (FdsOpen /\ HoldersLocked /\ LostToOther /\ LockedIsNamed /\ PathOwned)'
  BY <1>11, LeavingKeepsMany, OwnedByItself DEF UnlinkFails, Finished, Trying
<1>12. ASSUME NEW p \in Procs, Dies(p)
       PROVE  (FdsOpen /\ HoldersLocked /\ LostToOther /\ LockedIsNamed /\ PathOwned)'
  BY <1>12, LeavingKeepsMany, OwnedByItself DEF Dies, Finished
<1> QED
  BY <1>1, <1>2, <1>3, <1>4, <1>5, <1>6, <1>7, <1>8, <1>9, <1>10, <1>11, <1>12
  DEF LockNext, Step

\* The inductive invariant holds for any number of runs.
THEOREM ManyInvariant == LockSpec => []ManyInv
<1>1. LockInit => ManyInv
  BY ManyInvInit
<1>2. ManyInv /\ [LockNext]_lockvars => ManyInv'
  BY ManyInvNext
<1> QED BY <1>1, <1>2, PTL DEF LockSpec

(***************************************************************************)
(* With any number of runs, kills and failed calls included, two are       *)
(* inside only if a third one has unlinked the file of one of them.        *)
(***************************************************************************)
THEOREM RunsExclude == LockSpec => []ExclusionUnlessLost
<1>1. ASSUME ManyInv, NEW p \in Procs, NEW q \in Procs \ {p},
             pc[p] = "locked", pc[q] = "locked"
      PROVE  LockLost(p, q)
  <2>1. fd[p] # fd[q]
    BY <1>1 DEF ManyInv, HoldersLocked
  <2>2. PICK l \in {p, q} : fd[l] # path
    BY <2>1
  <2>3. l \in lost /\ \E x \in Procs \ {l} : pc[x] = "released"
    BY <1>1, <2>2 DEF ManyInv, LockedIsNamed, Trying
  <2> QED
    BY <1>1, <2>3 DEF LockLost
<1>2. ManyInv => ExclusionUnlessLost
  BY <1>1 DEF ExclusionUnlessLost
<1> QED BY <1>2, ManyInvariant, PTL

(***************************************************************************)
(* With any number of runs, nobody is on an inode that the path does not   *)
(* name unless some other run has unlinked it.                             *)
(***************************************************************************)
THEOREM LockedNamed == LockSpec => []LockedIsNamed
<1>1. ManyInv => LockedIsNamed
  BY DEF ManyInv
<1> QED BY <1>1, ManyInvariant, PTL

(***************************************************************************)
(* With any number of runs, the lock file is gone when all of them are     *)
(* over, if none was killed and no system call failed.                     *)
(***************************************************************************)
THEOREM LockfileIsRemoved == LockSpec => []LockfileRemoved
<1>1. ManyInv => LockfileRemoved
  BY DEF ManyInv, PathOwned, Unlinks, Trying, Finished, LockfileRemoved
<1> QED BY <1>1, ManyInvariant, PTL
=============================================================================
