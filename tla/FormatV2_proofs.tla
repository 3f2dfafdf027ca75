--------------------------- MODULE FormatV2_proofs ---------------------------
(***************************************************************************)
(* Proofs about the "v2" format, for every set of lists, every counter     *)
(* limit and every set of deployments.                                     *)
(***************************************************************************)
EXTENDS FormatV2, TLAPS

-----------------------------------------------------------------------------
(***************************************************************************)
(* The operators of Libnvram and Interface stay within their types.        *)
(***************************************************************************)
\* The images the model uses are images.
LEMMA ImagesType ==
    /\ Blank \in Images
    /\ Corrupt \in Images
    /\ Unreadable \in Images
    /\ \A c \in 0..MaxCounter, l \in Lists : Full(c, l) \in Images
BY EmptyListAssumption, MaxCounterAssumption
   DEF Blank, Corrupt, Unreadable, NoData, Full, Images, ImageStates

\* libnvram_init_transaction yields a transaction.
LEMMA InitTransactionType ==
    ASSUME NEW bufs \in [Sections -> Images]
    PROVE  InitTransaction(bufs) \in Transactions
BY MaxCounterAssumption
   DEF InitTransaction, Transactions, Active, Verified, Images, Sections

\* libnvram_next_transaction orders operations.
LEMMA NextOpsType ==
    ASSUME NEW t \in Transactions
    PROVE  NextOps(t) \subseteq Operations
<1>1. FirstWrite \in Operations
  BY MaxCounterAssumption DEF FirstWrite, Operations, Sections
<1> QED
  BY <1>1 DEF NextOps

\* libnvram_update_transaction yields a transaction.
LEMMA UpdateTransactionType ==
    ASSUME NEW t \in Transactions, NEW o \in Operations
    PROVE  UpdateTransaction(t, o) \in Transactions
BY MaxCounterAssumption
   DEF UpdateTransaction, Transactions, Operations, Sections

\* libnvram_deserialize yields a list.
LEMMA DeserializeType ==
    ASSUME NEW bufs \in [Sections -> Images]
    PROVE  Deserialize(bufs) \in Lists
BY EmptyListAssumption DEF Deserialize, Active, Verified, Images, Sections

\* The stages of write() leave images behind, and so does a power loss.
LEMMA InterfaceType ==
    ASSUME NEW i \in Interfaces, NEW img \in Images, NEW st \in Images
    PROVE  /\ Prepared(i, img) \in Images
           /\ PartlyPrepared(i, img) \subseteq Images
           /\ OnStorage(i, st, img) \in Images
           /\ AfterPowerLoss(i, st, img) \subseteq Images
<1>1. /\ Blank \in Images
      /\ Corrupt \in Images
      /\ Unreadable \in Images
  BY ImagesType
<1>2. /\ Prepared(i, img) \in Images
      /\ PartlyPrepared(i, img) \subseteq Images
  BY <1>1 DEF Prepared, PartlyPrepared, FileTruncated, MtdErased, MtdPartlyErased, EfiOpened
<1>3. /\ OnStorage(i, st, img) \in Images
      /\ AfterPowerLoss(i, st, img) \subseteq Images
  BY <1>1 DEF OnStorage, AfterPowerLoss, FileTorn
<1> QED BY <1>2, <1>3

\* A buffer that no section filled is an image, and so is what v2_init reads.
LEMMA ViewType ==
    ASSUME TypeOK
    PROVE  /\ NoBuffers \in [Sections -> Images]
           /\ View(media) \in [Sections -> Images]
BY ImagesType DEF TypeOK, View, NoBuffers

\* The fields of the deployment.
LEMMA DeployType ==
    ASSUME TypeOK
    PROVE  /\ deploy.interface \in Interfaces
           /\ deploy.configured \subseteq Sections
           /\ deploy.fits \subseteq Lists
           /\ deploy.faults \subseteq Faults
BY DeploymentsAssumption DEF TypeOK

\* Leaving an image in a section keeps the storage in its type.
LEMMA StaysType ==
    ASSUME TypeOK, NEW s \in Sections, NEW img \in Images, Stays(s, img)
    PROVE  /\ media' \in [Sections -> Images]
           /\ stable' \in [Sections -> Images]
<1>1. OnStorage(deploy.interface, stable[s], img) \in Images
  BY DeployType, InterfaceType DEF TypeOK
<1> QED
  BY <1>1 DEF TypeOK, Stays

\* What an interrupted write leaves is an image.
LEMMA InterruptedType ==
    ASSUME TypeOK
    PROVE  /\ Torn \subseteq Images
           /\ Interrupted \subseteq Images
<1>1. media[target] \in Images
  BY DEF TypeOK
<1>2. Torn \subseteq Images
  BY <1>1, ImagesType DEF Torn, PartlyProgrammed, FileTorn, BlockTorn, MtdTorn, EfiTorn
<1>3. PartlyPrepared(deploy.interface, media[target]) \subseteq Images
  BY <1>1, DeployType, InterfaceType
<1>4. list \in deploy.fits => Full(op.counter, list) \in Images
  BY ImagesType, MaxCounterAssumption DEF TypeOK, Operations
<1>5. CASE pc = "prepare"
  BY <1>2, <1>3, <1>5 DEF Interrupted
<1>6. CASE pc = "program"
  BY <1>1, <1>2, <1>4, <1>6 DEF Interrupted
<1>7. CASE pc \notin {"prepare", "program"}
  BY <1>1, <1>2, <1>7 DEF Interrupted
<1> QED BY <1>5, <1>6, <1>7

\* A session that ends leaves its variables in their types.
LEMMA SessionEndsType ==
    ASSUME SessionEnds
    PROVE  /\ pc' = "closed"
           /\ trans' \in Transactions
           /\ list' \in Lists
           /\ op' \in Operations
           /\ target' \in Sections
<1>1. NoBuffers \in [Sections -> Images]
  BY ImagesType DEF NoBuffers
<1>2. InitTransaction(NoBuffers) \in Transactions
  BY <1>1, InitTransactionType
<1>3. FirstWrite \in Operations
  BY MaxCounterAssumption DEF FirstWrite, Operations, Sections
<1> QED
  BY <1>2, <1>3, EmptyListAssumption DEF SessionEnds, Sections
-----------------------------------------------------------------------------
(***************************************************************************)
(* The type invariant holds initially and every step preserves it.         *)
(***************************************************************************)
LEMMA TypeOKInit == Init => TypeOK
<1> SUFFICES ASSUME Init PROVE TypeOK
  OBVIOUS
<1>1. NoBuffers \in [Sections -> Images]
  BY ImagesType DEF NoBuffers
<1>2. InitTransaction(NoBuffers) \in Transactions
  BY <1>1, InitTransactionType
<1>3. FirstWrite \in Operations
  BY MaxCounterAssumption DEF FirstWrite, Operations, Sections
<1> QED
  BY <1>1, <1>2, <1>3, EmptyListAssumption DEF Init, TypeOK, Sections

LEMMA TypeOKNext == TypeOK /\ [Next]_vars => TypeOK'
<1> SUFFICES ASSUME TypeOK, [Next]_vars PROVE TypeOK'
  OBVIOUS
<1>1. CASE v2_init
  <2>1. /\ InitTransaction(View(media)) \in Transactions
        /\ Deserialize(View(media)) \in Lists
    BY ViewType, InitTransactionType, DeserializeType
  <2> QED
    BY <1>1, <2>1 DEF v2_init, TypeOK, storage
<1>2. CASE v2_init_fails
  BY <1>2 DEF v2_init_fails, TypeOK, storage
<1>3. ASSUME NEW l \in Lists, v2_commit(l)
      PROVE  TypeOK'
  <2>1. op' \in Operations
    BY <1>3, NextOpsType DEF v2_commit, TypeOK
  <2>2. target' \in Sections
    BY <1>3, <2>1, DeployType DEF v2_commit, Operations
  <2> QED
    BY <1>3, <2>1, <2>2 DEF v2_commit, TypeOK, storage
<1>4. ASSUME NEW l \in Lists, v2_commit_not_serialized(l)
      PROVE  TypeOK'
  BY <1>4 DEF v2_commit_not_serialized, TypeOK, storage
<1>5. CASE v2_commit_without_section
  BY <1>5, SessionEndsType DEF v2_commit_without_section, TypeOK, storage
<1>6. CASE Prepare
  <2>1. Prepared(deploy.interface, media[target]) \in Images
    BY DeployType, InterfaceType DEF TypeOK
  <2>2. media' \in [Sections -> Images] /\ stable' \in [Sections -> Images]
    BY <1>6, <2>1, StaysType DEF Prepare, TypeOK
  <2> QED
    BY <1>6, <2>2 DEF Prepare, TypeOK
<1>7. CASE PrepareFails
  <2>1. PICK img \in PartlyPrepared(deploy.interface, media[target]) : Stays(target, img)
    BY <1>7 DEF PrepareFails
  <2>2. img \in Images
    BY <2>1, DeployType, InterfaceType DEF TypeOK
  <2>3. media' \in [Sections -> Images] /\ stable' \in [Sections -> Images]
    BY <2>1, <2>2, StaysType DEF TypeOK
  <2> QED
    BY <1>7, <2>3 DEF PrepareFails, TypeOK
<1>8. CASE ProgramFirst
  <2>1. Full(op.counter, list) \in Images
    BY ImagesType, MaxCounterAssumption DEF TypeOK, Operations
  <2>2. media' \in [Sections -> Images] /\ stable' \in [Sections -> Images]
    BY <1>8, <2>1, StaysType DEF ProgramFirst, TypeOK
  <2>3. target' \in Sections
    BY <1>8 DEF ProgramFirst, Other, Sections
  <2> QED
    BY <1>8, <2>2, <2>3 DEF ProgramFirst, TypeOK
<1>9. CASE ProgramLast
  <2>1. Full(op.counter, list) \in Images
    BY ImagesType, MaxCounterAssumption DEF TypeOK, Operations
  <2>2. media' \in [Sections -> Images] /\ stable' \in [Sections -> Images]
    BY <1>9, <2>1, StaysType DEF ProgramLast, TypeOK
  <2>3. trans' \in Transactions
    BY <1>9, UpdateTransactionType DEF ProgramLast, TypeOK
  <2> QED
    BY <1>9, <2>2, <2>3 DEF ProgramLast, TypeOK
<1>10. CASE ProgramFails
  <2>1. PICK img \in Torn : Stays(target, img)
    BY <1>10 DEF ProgramFails
  <2>2. img \in Images
    BY <2>1, InterruptedType
  <2>3. media' \in [Sections -> Images] /\ stable' \in [Sections -> Images]
    BY <2>1, <2>2, StaysType DEF TypeOK
  <2> QED
    BY <1>10, <2>3 DEF ProgramFails, TypeOK
<1>11. CASE v2_close
  BY <1>11, SessionEndsType DEF v2_close, TypeOK, storage
<1>12. CASE Kill
  <2>1. PICK img \in Interrupted : Stays(target, img)
    BY <1>12 DEF Kill
  <2>2. img \in Images
    BY <2>1, InterruptedType
  <2>3. media' \in [Sections -> Images] /\ stable' \in [Sections -> Images]
    BY <2>1, <2>2, StaysType DEF TypeOK
  <2> QED
    BY <1>12, <2>3, SessionEndsType DEF Kill, TypeOK
<1>13. ASSUME NEW s \in Sections, Writeback(s)
       PROVE  TypeOK'
  BY <1>13 DEF Writeback, TypeOK, session
<1>14. CASE PowerLoss
  <2>1. \A s \in Sections : Left(s) \subseteq Images
    BY DeployType, InterfaceType DEF Left, TypeOK
  <2>2. PICK a \in Left("A"), b \in Left("B") :
            /\ media' = [s \in Sections |-> IF s = "A" THEN a ELSE b]
            /\ stable' = media'
    BY <1>14 DEF PowerLoss
  <2>3. a \in Images /\ b \in Images
    BY <2>1, <2>2 DEF Sections
  <2> QED
    BY <1>14, <2>2, <2>3 DEF PowerLoss, TypeOK, session
<1>15. CASE UNCHANGED vars
  BY <1>15 DEF vars, TypeOK
<1> QED
  BY <1>1, <1>2, <1>3, <1>4, <1>5, <1>6, <1>7, <1>8, <1>9, <1>10, <1>11,
     <1>12, <1>13, <1>14, <1>15 DEF Next

(***************************************************************************)
(* Type correctness: the handle, the operation in progress and the images  *)
(* of both sections always have the shape the code gives them.             *)
(***************************************************************************)
THEOREM TypeCorrect == Spec => []TypeOK
<1>1. Init => TypeOK
  BY TypeOKInit
<1>2. TypeOK /\ [Next]_vars => TypeOK'
  BY TypeOKNext
<1> QED BY <1>1, <1>2, PTL DEF Spec
-----------------------------------------------------------------------------
(***************************************************************************)
(* The invariant of a journaled store.  GoodImages collects what it says   *)
(* of the images of the two sections alone.                                *)
(***************************************************************************)
GoodImages(bufs) ==
    \A s \in Verified(bufs) :
        /\ bufs[s].counter > 0
        /\ \A t \in Verified(bufs) :
            /\ bufs[s].counter = bufs[t].counter => bufs[s].list = bufs[t].list
            /\ bufs[s].counter < bufs[t].counter =>
                  \/ bufs[t].counter = bufs[s].counter + 1
                  \/ bufs[s].counter = 1 /\ bufs[t].counter = MaxCounter

\* With both sections configured, a session sees the sections as they are.
LEMMA DualView ==
    ASSUME NEW bufs \in [Sections -> Images], Dual
    PROVE  View(bufs) = bufs
BY DEF View, Dual

\* The first three conjuncts of JournalInv, restated without View.
LEMMA GoodImagesMeaning ==
    ASSUME TypeOK, Dual
    PROVE  GoodImages(media) <=> TieImpliesSame /\ CountersAdjacent /\ CountersPositive
<1>1. View(media) = media
  BY DualView DEF TypeOK
<1> QED
  BY <1>1 DEF GoodImages, TieImpliesSame, CountersAdjacent, CountersPositive

\* Losing the contents of a section keeps the images good.
LEMMA GoodImagesDrop ==
    ASSUME NEW bufs \in [Sections -> Images], NEW s \in Sections, NEW img \in Images,
           GoodImages(bufs), img.state # "full" \/ img = bufs[s]
    PROVE  GoodImages([bufs EXCEPT ![s] = img])
BY DEF GoodImages, Verified

\* The section being written is never the only one that is verified.
LEMMA FallbackKept ==
    ASSUME TypeOK, Stage, NEW img,
           Verified(media) # {}
    PROVE  Verified([media EXCEPT ![target] = img]) # {}
<1>1. PICK s \in Verified(media) : s # target
  <2>1. CASE target = op.first
    BY <2>1 DEF Stage, FirstStage, Other, Sections, TypeOK
  <2>2. CASE target # op.first
    <3>1. op.first \in Sections
      BY DEF TypeOK, Operations
    <3> QED
      BY <2>2, <3>1 DEF Stage, SecondStage, Verified, Full
  <2> QED BY <2>1, <2>2
<1>2. s \in Verified([media EXCEPT ![target] = img])
  BY <1>1 DEF Verified, TypeOK
<1> QED BY <1>2

\* A completed write leaves good images: the new counter fits the other one.
LEMMA GoodImagesWrite ==
    ASSUME TypeOK, Stage, GoodImages(media)
    PROVE  GoodImages([media EXCEPT ![target] = Full(op.counter, list)])
<1> DEFINE new == [media EXCEPT ![target] = Full(op.counter, list)]
           o == Other(target)
<1>1. /\ target \in Sections
      /\ o \in Sections
      /\ o # target
      /\ Sections = {target, o}
  BY DEF TypeOK, Other, Sections
<1>2. /\ new[target].state = "full"
      /\ new[target].counter = op.counter
      /\ new[target].list = list
      /\ new[o] = media[o]
  BY <1>1 DEF TypeOK, Full
<1>3. op.counter \in 1..MaxCounter
  BY DEF TypeOK, Operations
<1>4. media[o].counter \in 0..MaxCounter
  BY <1>1 DEF TypeOK, Images
<1>5. o \in Verified(new) <=> o \in Verified(media)
  BY <1>1, <1>2 DEF Verified
<1>6. o \in Verified(media) => media[o].counter > 0
  BY DEF GoodImages
<1>7. o \in Verified(media) =>
        \/ op.counter = media[o].counter + 1
        \/ op.counter = 1 /\ media[o].counter = MaxCounter
        \/ op.counter = 1 /\ media[o] = Full(1, list)
  <2>1. CASE target = op.first
    BY <2>1 DEF Stage, FirstStage, TypeOK, Operations
  <2>2. CASE target # op.first
    <3>1. o = op.first
      BY <1>1, <2>2 DEF TypeOK, Operations
    <3> QED
      BY <2>2, <3>1 DEF Stage, SecondStage
  <2> QED BY <2>1, <2>2
<1>8. o \in Verified(media) =>
        /\ media[o].counter = op.counter => media[o].list = list
        /\ media[o].counter < op.counter => op.counter = media[o].counter + 1
        /\ op.counter < media[o].counter => op.counter = 1 /\ media[o].counter = MaxCounter
  BY <1>3, <1>4, <1>7, MaxCounterAssumption DEF Full
<1>9. Verified(new) \subseteq {target, o}
  BY <1>1 DEF Verified
<1> HIDE DEF new, o
<1>10. GoodImages(new)
  <2>1. ASSUME NEW s \in Verified(new), NEW t \in Verified(new)
        PROVE  /\ new[s].counter > 0
               /\ new[s].counter = new[t].counter => new[s].list = new[t].list
               /\ new[s].counter < new[t].counter =>
                     \/ new[t].counter = new[s].counter + 1
                     \/ new[s].counter = 1 /\ new[t].counter = MaxCounter
    BY <1>2, <1>3, <1>4, <1>5, <1>6, <1>8, <1>9, <2>1
  <2> QED
    BY <2>1 DEF GoodImages
<1> QED
  BY <1>10 DEF new

(***************************************************************************)
(* Leaving an image in a section keeps the storage and the page cache      *)
(* consistent, if a verified section remains and the image "unreadable"    *)
(* appears in an EFI variable only where there was none.                   *)
(***************************************************************************)
LEMMA StaysStable ==
    ASSUME TypeOK, Journaled, StableMatches,
           NEW s \in Sections, NEW img \in Images, Stays(s, img),
           deploy' = deploy,
           Verified(media) # {} => Verified(media') # {},
           deploy.interface = "efi" /\ img = Unreadable => media[s] \in {Blank, Unreadable}
    PROVE  StableMatches'
<1>1. Verified(stable') # {} => Verified(media') # {}
  <2>1. CASE PageCached(deploy.interface)
    <3>1. stable' = stable
      BY <2>1 DEF Stays, OnStorage, TypeOK
    <3> QED
      BY <3>1 DEF StableMatches
  <2>2. CASE ~PageCached(deploy.interface)
    <3>1. Verified(stable') \subseteq Verified(media')
      BY <2>2 DEF StableMatches, Stays, OnStorage, TypeOK, Verified, Blank, Unreadable, NoData
    <3> QED BY <3>1
  <2> QED BY <2>1, <2>2
<1>2. ASSUME ~PageCached(deploy.interface), NEW t \in Sections
      PROVE  stable'[t] = IF deploy.interface = "efi" /\ media'[t] = Unreadable
                          THEN Blank ELSE media'[t]
  <2>1. CASE t = s
    BY <1>2, <2>1 DEF StableMatches, Stays, OnStorage, TypeOK, Unreadable, Blank, NoData
  <2>2. CASE t # s
    BY <1>2, <2>2 DEF StableMatches, Stays, TypeOK
  <2> QED BY <2>1, <2>2
<1> QED
  BY <1>1, <1>2 DEF StableMatches

\* The first write of a commit starts from the transaction of a current handle.
LEMMA CommitStage ==
    ASSUME TypeOK, JournalInv, Journaled, NEW l \in Lists, v2_commit(l)
    PROVE  Stage'
<1>1. trans = InitTransaction(media)
  BY DEF JournalInv, HandleIsCurrent, Journaled, v2_commit
<1>2. /\ media' = media
      /\ trans' = trans
      /\ op' \in NextOps(trans)
      /\ target' = op'.first
  BY DEF v2_commit, storage, Journaled
<1>3. /\ op' \in Operations
      /\ target' \in Sections
  BY <1>2, NextOpsType DEF TypeOK, Operations
<1> DEFINE o == Other(target')
<1>4. /\ o \in Sections
      /\ o # target'
      /\ Sections = {target', o}
  BY <1>3 DEF Other, Sections
<1>5. trans.active = Active(media)
  BY <1>1 DEF InitTransaction
<1>6. \A s \in Sections : trans.counter[s] = IF s \in Verified(media) THEN media[s].counter ELSE 0
  BY <1>1 DEF InitTransaction
<1>7. \A s \in Sections : media[s].counter \in 0..MaxCounter
  BY DEF TypeOK, Images
<1>8. CASE Verified(media) = {}
  <2>1. op' = FirstWrite
    BY <1>2, <1>5, <1>8 DEF Active, NextOps
  <2>2. trans.counter[o] = 0
    BY <1>4, <1>6, <1>8
  <2> QED
    BY <1>2, <1>8, <2>1, <2>2 DEF Stage, FirstStage, FirstWrite
<1>9. CASE Verified(media) # {}
  <2>1. trans.active # {}
    BY <1>4, <1>5, <1>7, <1>9, MaxCounterAssumption DEF Active, Verified
  <2>2. trans.active # {target'}
    BY <1>2, <2>1 DEF NextOps
  <2>3. o \in trans.active
    BY <1>4, <1>5, <2>1, <2>2 DEF Active, Verified
  <2>4. /\ o \in Verified(media)
        /\ \A t \in Verified(media) : media[t].counter <= media[o].counter
    BY <1>5, <2>3 DEF Active
  <2>5. ActiveCounter(trans) = media[o].counter
    <3>1. \A s \in trans.active : media[s].counter = media[o].counter
      BY <1>5, <1>7, <2>3 DEF Active, Verified
    <3>2. (CHOOSE s \in trans.active : TRUE) \in trans.active
      BY <2>1
    <3> QED
      BY <1>5, <1>6, <3>1, <3>2 DEF ActiveCounter, Active, Verified
  <2>6. /\ op'.counter = IF media[o].counter < MaxCounter THEN media[o].counter + 1 ELSE 1
        /\ op'.reset <=> media[o].counter = MaxCounter
    BY <1>2, <2>1, <2>5 DEF NextOps
  <2>7. op'.counter = IF op'.reset THEN 1 ELSE media[o].counter + 1
    BY <1>4, <1>7, <2>6, MaxCounterAssumption
  <2>8. trans.counter[o] = media[o].counter
    BY <1>4, <1>6, <2>4
  <2> QED
    BY <1>2, <2>4, <2>6, <2>7, <2>8 DEF Stage, FirstStage
<1> QED BY <1>8, <1>9

\* After the last write the updated transaction is that of the new images.
LEMMA UpdatedHandle ==
    ASSUME TypeOK, GoodImages(media), Journaled, Stage, ProgramLast
    PROVE  trans' = InitTransaction(media')
<1> DEFINE o == Other(target)
<1>1. /\ target \in Sections
      /\ o \in Sections
      /\ o # target
      /\ Sections = {target, o}
  BY DEF TypeOK, Other, Sections
<1>2. /\ media'[target] = Full(op.counter, list)
      /\ media'[o] = media[o]
  BY <1>1 DEF ProgramLast, Stays, TypeOK
<1>3. op.counter \in 1..MaxCounter /\ op.first \in Sections /\ op.reset \in BOOLEAN
  BY DEF TypeOK, Operations
<1>4. media[o].counter \in 0..MaxCounter
  BY <1>1 DEF TypeOK, Images
<1>5. target \in Verified(media')
  BY <1>1, <1>2 DEF Verified, Full
<1>6. o \in Verified(media') <=> o \in Verified(media)
  BY <1>1, <1>2 DEF Verified
<1>7. media'[target].counter = op.counter
  BY <1>2 DEF Full
<1>8. trans' = UpdateTransaction(trans, op)
  BY DEF ProgramLast
<1>9. CASE target = op.first
  <2>1. ~op.reset
    BY <1>9 DEF ProgramLast, SecondWriteDue, Journaled
  <2>2. o \in Verified(media) =>
          trans.counter[o] = media[o].counter /\ op.counter = media[o].counter + 1
    BY <1>9, <2>1 DEF Stage, FirstStage
  <2>3. o \notin Verified(media) => trans.counter[o] = 0
    BY <1>9 DEF Stage, FirstStage
  <2>4. Active(media') = {target}
    BY <1>1, <1>2, <1>3, <1>4, <1>5, <1>6, <1>7, <2>2, MaxCounterAssumption DEF Active, Verified
  <2>5. UpdateTransaction(trans, op) =
          [active  |-> {target},
           counter |-> [s \in Sections |-> IF s = target THEN op.counter ELSE trans.counter[s]]]
    BY <1>9, <2>1 DEF UpdateTransaction
  <2>6. \A s \in Sections :
          (IF s = target THEN op.counter ELSE trans.counter[s]) =
          (IF s \in Verified(media') THEN media'[s].counter ELSE 0)
    BY <1>1, <1>2, <1>5, <1>6, <1>7, <2>2, <2>3
  <2> QED
    BY <1>8, <2>4, <2>5, <2>6 DEF InitTransaction
<1>10. CASE target # op.first
  <2>1. o = op.first
    BY <1>1, <1>3, <1>10
  <2>2. /\ op.reset
        /\ op.counter = 1
        /\ media[o] = Full(1, list)
    BY <1>10, <2>1 DEF Stage, SecondStage
  <2>3. /\ o \in Verified(media')
        /\ media'[o].counter = 1
    BY <1>1, <1>2, <2>2 DEF Full, Verified
  <2>4. Active(media') = Sections
    BY <1>1, <1>5, <1>7, <2>2, <2>3 DEF Active, Verified
  <2>5. UpdateTransaction(trans, op) =
          [active |-> Sections, counter |-> [s \in Sections |-> 1]]
    BY <2>2 DEF UpdateTransaction
  <2>6. \A s \in Sections : 1 = IF s \in Verified(media') THEN media'[s].counter ELSE 0
    BY <1>1, <1>5, <1>7, <2>2, <2>3
  <2> QED
    BY <1>8, <2>4, <2>5, <2>6 DEF InitTransaction
<1> QED BY <1>9, <1>10

\* What a stage of write() may leave in the section it works on.
Outcome(img) ==
    /\ img \in Images
    /\ \/ img.state # "full"
       \/ img = media[target]
       \/ img = Full(op.counter, list)
    /\ deploy.interface = "efi" /\ img = Unreadable => media[target] \in {Blank, Unreadable}

\* Every stage, whole, failed or interrupted, leaves such an image.
LEMMA Outcomes ==
    ASSUME TypeOK
    PROVE  /\ Outcome(Prepared(deploy.interface, media[target]))
           /\ \A img \in PartlyPrepared(deploy.interface, media[target]) : Outcome(img)
           /\ \A img \in Torn : Outcome(img)
           /\ Outcome(Full(op.counter, list))
           /\ Outcome(media[target])
<1>1. /\ Blank.state # "full"
      /\ Corrupt.state # "full"
      /\ Unreadable.state # "full"
      /\ Blank # Unreadable
      /\ Corrupt # Unreadable
      /\ Full(op.counter, list) # Unreadable
  BY DEF Blank, Corrupt, Unreadable, NoData, Full
<1>2. media[target] \in Images
  BY DEF TypeOK
<1>3. Full(op.counter, list) \in Images
  BY ImagesType, MaxCounterAssumption DEF TypeOK, Operations
<1>4. deploy.interface \in Interfaces
  BY DeployType
<1>5. Outcome(Full(op.counter, list)) /\ Outcome(media[target])
  BY <1>1, <1>2, <1>3 DEF Outcome
<1>6. /\ Outcome(Blank)
      /\ deploy.interface # "efi" => Outcome(Corrupt) /\ Outcome(Unreadable)
      /\ media[target] = Blank => Outcome(Unreadable)
  BY <1>1, ImagesType DEF Outcome
<1>7. /\ Outcome(Prepared(deploy.interface, media[target]))
      /\ \A img \in PartlyPrepared(deploy.interface, media[target]) : Outcome(img)
  BY <1>5, <1>6 DEF Prepared, PartlyPrepared, FileTruncated, MtdErased, MtdPartlyErased, EfiOpened
<1>8. \A img \in Torn : Outcome(img)
  BY <1>4, <1>5, <1>6 DEF Torn, PartlyProgrammed, FileTorn, BlockTorn, MtdTorn, EfiTorn, Interfaces
<1> QED BY <1>5, <1>7, <1>8

\* So does a process that dies.
LEMMA KillOutcomes ==
    ASSUME TypeOK
    PROVE  \A img \in Interrupted : Outcome(img)
<1>1. CASE pc = "prepare"
  BY <1>1, Outcomes DEF Interrupted
<1>2. CASE pc = "program"
  BY <1>2, Outcomes DEF Interrupted
<1>3. CASE pc \notin {"prepare", "program"}
  BY <1>3, Outcomes DEF Interrupted
<1> QED BY <1>1, <1>2, <1>3

\* The storage after any of these outcomes.
LEMMA WriteKeeps ==
    ASSUME TypeOK, Journaled, JournalInv, NEW img, Outcome(img),
           Stays(target, img), deploy' = deploy,
           pc \in {"prepare", "program"} \/ img = media[target]
    PROVE  /\ GoodImages(media')
           /\ StableMatches'
           /\ Verified(media) # {} => Verified(media') # {}
<1>1. /\ target \in Sections
      /\ img \in Images
      /\ media \in [Sections -> Images]
      /\ media' = [media EXCEPT ![target] = img]
  BY DEF TypeOK, Outcome, Stays
<1>2. GoodImages(media)
  BY GoodImagesMeaning DEF JournalInv, Journaled
<1>3. GoodImages(media')
  <2>1. CASE img.state # "full" \/ img = media[target]
    BY <1>1, <1>2, <2>1, GoodImagesDrop
  <2>2. CASE pc \in {"prepare", "program"} /\ img = Full(op.counter, list)
    BY <1>1, <1>2, <2>2, GoodImagesWrite DEF JournalInv
  <2> QED
    BY <2>1, <2>2 DEF Outcome
<1>4. Verified(media) # {} => Verified(media') # {}
  <2>1. CASE pc \in {"prepare", "program"}
    BY <1>1, <2>1, FallbackKept DEF JournalInv
  <2>2. CASE img = media[target]
    <3>1. media' = media
      BY <1>1, <2>2
    <3> QED BY <3>1
  <2> QED BY <2>1, <2>2
<1>5. StableMatches'
  BY <1>1, <1>4, StaysStable DEF JournalInv, Outcome
<1> QED BY <1>3, <1>4, <1>5

\* A step that touches neither the sections nor the deployment.
LEMMA StorageUnchanged ==
    ASSUME TypeOK, Journaled, JournalInv, UNCHANGED <<deploy, media, stable>>
    PROVE  GoodImages(media') /\ StableMatches'
<1>1. GoodImages(media)
  BY GoodImagesMeaning DEF JournalInv, Journaled
<1>2. StableMatches'
  BY DEF JournalInv, StableMatches
<1> QED BY <1>1, <1>2

\* With GoodImages(media'), three conjuncts of JournalInv' are left to show.
LEMMA JournalInvNext ==
    ASSUME TypeOK', Journaled', GoodImages(media'), StableMatches',
           pc' \in {"open", "committed"} => trans' = InitTransaction(media'),
           pc' \in {"prepare", "program"} => Stage'
    PROVE  JournalInv'
<1>1. View(media)' = media'
  BY DEF View, TypeOK, Journaled, Dual
<1>2. (TieImpliesSame /\ CountersAdjacent /\ CountersPositive)'
  BY <1>1 DEF GoodImages, TieImpliesSame, CountersAdjacent, CountersPositive
<1> QED
  BY <1>2 DEF JournalInv, HandleIsCurrent
-----------------------------------------------------------------------------
(***************************************************************************)
(* The inductive invariant holds initially and every step preserves it.    *)
(***************************************************************************)
LEMMA InductiveInit == Init => Inductive
<1> SUFFICES ASSUME Init PROVE Inductive
  OBVIOUS
<1>1. TypeOK
  BY TypeOKInit
<1>2. ASSUME Journaled PROVE JournalInv
  <2>1. Verified(media) = {} /\ Verified(stable) = {}
    BY DEF Init, Verified, NoBuffers, Blank, NoData
  <2>2. TieImpliesSame /\ CountersAdjacent /\ CountersPositive
    <3>1. GoodImages(media)
      BY <2>1 DEF GoodImages
    <3> QED
      BY <1>1, <1>2, <3>1, GoodImagesMeaning DEF Journaled
  <2>3. StableMatches
    BY <2>1 DEF StableMatches, Init, NoBuffers, Blank, Unreadable, NoData
  <2> QED
    BY <2>2, <2>3 DEF JournalInv, HandleIsCurrent, Init
<1> QED
  BY <1>1, <1>2 DEF Inductive

LEMMA InductiveNext == Inductive /\ [Next]_vars => Inductive'
<1> SUFFICES ASSUME Inductive, [Next]_vars, Journaled'
             PROVE  JournalInv'
  BY TypeOKNext DEF Inductive
<1>1. TypeOK /\ TypeOK'
  BY TypeOKNext DEF Inductive
<1>2. deploy' = deploy
  BY DEF Next, vars, v2_init, v2_init_fails, v2_commit, v2_commit_not_serialized,
         v2_commit_without_section, Prepare, PrepareFails, ProgramFirst, ProgramLast,
         ProgramFails, v2_close, Kill, Writeback, PowerLoss
<1>3. Journaled
  BY <1>2 DEF Journaled, Dual
<1>4. JournalInv
  BY <1>3 DEF Inductive
<1>5. View(media) = media
  BY <1>1, <1>3, DualView DEF TypeOK, Journaled
<1>6. CASE v2_init
  <2>1. GoodImages(media') /\ StableMatches'
    BY <1>1, <1>2, <1>3, <1>4, <1>6, StorageUnchanged DEF v2_init, storage
  <2>2. trans' = InitTransaction(media')
    BY <1>5, <1>6 DEF v2_init, storage
  <2> QED
    BY <1>1, <1>6, <2>1, <2>2, JournalInvNext DEF v2_init
<1>7. CASE v2_init_fails
  BY <1>1, <1>3, <1>4, <1>7, StorageUnchanged, JournalInvNext DEF v2_init_fails, storage
<1>8. ASSUME NEW l \in Lists, v2_commit(l)
      PROVE  JournalInv'
  <2>1. GoodImages(media') /\ StableMatches'
    BY <1>1, <1>3, <1>4, <1>8, StorageUnchanged DEF v2_commit, storage
  <2>2. Stage'
    BY <1>1, <1>3, <1>4, <1>8, CommitStage
  <2> QED
    BY <1>1, <1>8, <2>1, <2>2, JournalInvNext DEF v2_commit
<1>9. ASSUME NEW l \in Lists, v2_commit_not_serialized(l)
      PROVE  JournalInv'
  <2>1. GoodImages(media') /\ StableMatches'
    BY <1>1, <1>3, <1>4, <1>9, StorageUnchanged DEF v2_commit_not_serialized, storage
  <2>2. trans' = InitTransaction(media')
    BY <1>3, <1>4, <1>9
    DEF v2_commit_not_serialized, storage, JournalInv, HandleIsCurrent, Journaled
  <2> QED
    BY <1>1, <1>9, <2>1, <2>2, JournalInvNext DEF v2_commit_not_serialized
<1>10. CASE v2_commit_without_section
  BY <1>3, <1>10 DEF v2_commit_without_section, Journaled, Dual, Sections
<1>11. CASE Prepare
  <2>1. GoodImages(media') /\ StableMatches'
    BY <1>1, <1>2, <1>3, <1>4, <1>11, Outcomes, WriteKeeps DEF Prepare
  <2>2. Stage'
    <3>1. /\ media'[target] = Prepared(deploy.interface, media[target])
          /\ \A s \in Sections : s # target => media'[s] = media[s]
      BY <1>1, <1>11 DEF Prepare, Stays, TypeOK
    <3>2. target \in Verified(media') =>
            target \in Verified(media) /\ media'[target] = media[target]
      BY <1>1, <3>1
         DEF Prepared, FileTruncated, MtdErased, EfiOpened, Verified,
             Blank, Unreadable, NoData, TypeOK
    <3>3. \A s \in Sections : s # target =>
            (s \in Verified(media') <=> s \in Verified(media))
      BY <3>1 DEF Verified
    <3>4. Verified(media) = {} => Verified(media') = {}
      BY <1>1, <3>2, <3>3 DEF Verified, TypeOK
    <3>5. UNCHANGED <<trans, list, op, target>> /\ Stage
      BY <1>4, <1>11 DEF Prepare, JournalInv
    <3>6. CASE target = op.first
      <4>1. Other(target) \in Sections /\ Other(target) # target
        BY <1>1 DEF Other, Sections, TypeOK
      <4>2. FirstStage
        BY <3>5, <3>6 DEF Stage
      <4>3. FirstStage'
        BY <3>1, <3>2, <3>3, <3>4, <3>5, <4>1, <4>2 DEF FirstStage
      <4> QED
        BY <3>5, <3>6, <4>3 DEF Stage
    <3>7. CASE target # op.first
      <4>1. op.first \in Sections
        BY <1>1 DEF TypeOK, Operations
      <4>2. SecondStage'
        BY <3>1, <3>2, <3>5, <3>7, <4>1 DEF Stage, SecondStage
      <4> QED
        BY <3>5, <3>7, <4>2 DEF Stage
    <3> QED BY <3>6, <3>7
  <2> QED
    BY <1>1, <1>11, <2>1, <2>2, JournalInvNext DEF Prepare
<1>12. CASE PrepareFails
  <2>1. PICK img \in PartlyPrepared(deploy.interface, media[target]) : Stays(target, img)
    BY <1>12 DEF PrepareFails
  <2>2. GoodImages(media') /\ StableMatches'
    BY <1>1, <1>2, <1>3, <1>4, <1>12, <2>1, Outcomes, WriteKeeps DEF PrepareFails
  <2> QED
    BY <1>1, <1>12, <2>2, JournalInvNext DEF PrepareFails
<1>13. CASE ProgramFirst
  <2>1. GoodImages(media') /\ StableMatches'
    BY <1>1, <1>2, <1>3, <1>4, <1>13, Outcomes, WriteKeeps DEF ProgramFirst
  <2>2. Stage'
    <3> DEFINE o == Other(target)
    <3>1. /\ target = op.first
          /\ op.reset
          /\ target' = o
          /\ op' = op
          /\ list' = list
          /\ Stage
      BY <1>4, <1>13 DEF ProgramFirst, SecondWriteDue, JournalInv
    <3>2. o \in Sections /\ o # target /\ target \in Sections
      BY <1>1 DEF Other, Sections, TypeOK
    <3>3. media'[target] = Full(op.counter, list) /\ media'[o] = media[o]
      BY <1>1, <1>13, <3>2 DEF ProgramFirst, Stays, TypeOK
    <3>4. op.counter = 1 /\ media[o].counter = MaxCounter
      BY <3>1 DEF Stage, FirstStage
    <3>5. SecondStage'
      BY <3>1, <3>3, <3>4 DEF SecondStage
    <3> QED
      BY <3>1, <3>2, <3>5 DEF Stage
  <2> QED
    BY <1>1, <1>13, <2>1, <2>2, JournalInvNext DEF ProgramFirst
<1>14. CASE ProgramLast
  <2>1. GoodImages(media') /\ StableMatches'
    BY <1>1, <1>2, <1>3, <1>4, <1>14, Outcomes, WriteKeeps DEF ProgramLast
  <2>2. GoodImages(media) /\ Stage
    BY <1>1, <1>3, <1>4, <1>14, GoodImagesMeaning DEF ProgramLast, JournalInv, Journaled
  <2>3. trans' = InitTransaction(media')
    BY <1>1, <1>3, <1>14, <2>2, UpdatedHandle
  <2> QED
    BY <1>1, <1>14, <2>1, <2>3, JournalInvNext DEF ProgramLast
<1>15. CASE ProgramFails
  <2>1. PICK img \in Torn : Stays(target, img)
    BY <1>15 DEF ProgramFails
  <2>2. GoodImages(media') /\ StableMatches'
    BY <1>1, <1>2, <1>3, <1>4, <1>15, <2>1, Outcomes, WriteKeeps DEF ProgramFails
  <2> QED
    BY <1>1, <1>15, <2>2, JournalInvNext DEF ProgramFails
<1>16. CASE v2_close
  <2>1. GoodImages(media') /\ StableMatches'
    BY <1>1, <1>3, <1>4, <1>16, StorageUnchanged DEF v2_close, storage
  <2> QED
    BY <1>1, <1>16, <2>1, JournalInvNext DEF v2_close, SessionEnds
<1>17. CASE Kill
  <2>1. PICK img \in Interrupted : Stays(target, img)
    BY <1>17 DEF Kill
  <2>2. pc \in {"prepare", "program"} \/ img = media[target]
    BY <2>1 DEF Interrupted
  <2>3. GoodImages(media') /\ StableMatches'
    BY <1>1, <1>2, <1>3, <1>4, <2>1, <2>2, KillOutcomes, WriteKeeps
  <2> QED
    BY <1>1, <1>17, <2>3, JournalInvNext DEF Kill, SessionEnds
<1>18. ASSUME NEW s \in Sections, Writeback(s)
       PROVE  JournalInv'
  <2>1. media' = media /\ UNCHANGED session
    BY <1>18 DEF Writeback
  <2>2. GoodImages(media')
    BY <1>1, <1>3, <1>4, <2>1, GoodImagesMeaning DEF JournalInv, Journaled
  <2>3. StableMatches'
    <3>1. Verified(stable') # {} => Verified(media') # {}
      BY <1>1, <1>4, <1>18, <2>1 DEF Writeback, Verified, TypeOK, JournalInv, StableMatches
    <3> QED
      BY <1>2, <1>18, <3>1 DEF StableMatches, Writeback
  <2>4. pc' \in {"prepare", "program"} => Stage'
    BY <1>4, <2>1 DEF JournalInv, Stage, FirstStage, SecondStage, session
  <2>5. pc' \in {"open", "committed"} => trans' = InitTransaction(media')
    BY <1>3, <1>4, <2>1 DEF JournalInv, HandleIsCurrent, Journaled, session
  <2> QED
    BY <1>1, <2>2, <2>3, <2>4, <2>5, JournalInvNext
<1>19. CASE PowerLoss
  <2>1. ~PageCached(deploy.interface)
    BY <1>3, <1>19 DEF PowerLoss, Journaled
  <2>2. media' = stable /\ stable' = stable
    BY <1>1, <1>19, <2>1 DEF PowerLoss, Left, AfterPowerLoss, TypeOK, Sections
  <2>3. \A s \in Sections :
          stable[s] = IF deploy.interface = "efi" /\ media[s] = Unreadable
                      THEN Blank ELSE media[s]
    BY <1>4, <2>1 DEF JournalInv, StableMatches
  <2>4. /\ Verified(stable) = Verified(media)
        /\ \A s \in Verified(media) : stable[s] = media[s]
        /\ \A s \in Sections : stable[s] = Unreadable => deploy.interface # "efi"
    BY <2>3 DEF Verified, Blank, Unreadable, NoData
  <2>5. GoodImages(media')
    <3>1. GoodImages(media)
      BY <1>1, <1>3, <1>4, GoodImagesMeaning DEF JournalInv, Journaled
    <3> QED
      BY <2>2, <2>4, <3>1 DEF GoodImages
  <2>6. StableMatches'
    BY <1>2, <2>2, <2>4 DEF StableMatches
  <2> QED
    BY <1>1, <1>19, <2>5, <2>6, JournalInvNext DEF PowerLoss, session
<1>20. CASE UNCHANGED vars
  <2>1. GoodImages(media') /\ StableMatches'
    BY <1>1, <1>3, <1>4, <1>20, StorageUnchanged DEF vars
  <2>2. pc' \in {"prepare", "program"} => Stage'
    BY <1>4, <1>20 DEF JournalInv, Stage, FirstStage, SecondStage, vars
  <2>3. pc' \in {"open", "committed"} => trans' = InitTransaction(media')
    BY <1>3, <1>4, <1>20 DEF JournalInv, HandleIsCurrent, Journaled, vars
  <2> QED
    BY <1>1, <2>1, <2>2, <2>3, JournalInvNext
<1> QED
  BY <1>6, <1>7, <1>8, <1>9, <1>10, <1>11, <1>12, <1>13, <1>14, <1>15, <1>16,
     <1>17, <1>18, <1>19, <1>20 DEF Next

(***************************************************************************)
(* The inductive invariant is an invariant.                                *)
(***************************************************************************)
THEOREM InductiveInvariant == Spec => []Inductive
<1>1. Init => Inductive
  BY InductiveInit
<1>2. Inductive /\ [Next]_vars => Inductive'
  BY InductiveNext
<1> QED BY <1>1, <1>2, PTL DEF Spec

(***************************************************************************)
(* A journaled store never has two verified sections with the same counter *)
(* and different lists: reading A on a tie is reading the stored list.     *)
(***************************************************************************)
THEOREM TiesAreHarmless == Spec => [](Journaled => TieImpliesSame)
<1>1. Inductive => (Journaled => TieImpliesSame)
  BY DEF Inductive, JournalInv
<1> QED BY <1>1, InductiveInvariant, PTL

(***************************************************************************)
(* The counters of a journaled store are at most one commit apart, so that *)
(* the larger one never belongs to the older of two complete commits.      *)
(***************************************************************************)
THEOREM CountersStayAdjacent == Spec => [](Journaled => CountersAdjacent)
<1>1. Inductive => (Journaled => CountersAdjacent)
  BY DEF Inductive, JournalInv
<1> QED BY <1>1, InductiveInvariant, PTL

(***************************************************************************)
(* The transaction in the handle of a journaled store is never stale, so   *)
(* a further commit with the same handle writes the right section.         *)
(***************************************************************************)
THEOREM HandleStaysCurrent == Spec => [](Journaled => HandleIsCurrent)
<1>1. Inductive => (Journaled => HandleIsCurrent)
  BY DEF Inductive, JournalInv
<1> QED BY <1>1, InductiveInvariant, PTL
-----------------------------------------------------------------------------
(***************************************************************************)
(* What the next session reads.                                            *)
(***************************************************************************)
\* It is the list of any verified section that has the largest counter.
LEMMA DeserializeLargest ==
    ASSUME NEW bufs \in [Sections -> Images], GoodImages(bufs),
           NEW s \in Verified(bufs),
           \A t \in Verified(bufs) : bufs[t].counter <= bufs[s].counter
    PROVE  Deserialize(bufs) = bufs[s].list
<1>1. s \in Active(bufs)
  BY DEF Active
<1>2. \A t \in Active(bufs) : t \in Verified(bufs) /\ bufs[t].counter = bufs[s].counter
  BY DEF Active, Verified, Images
<1>3. \A t \in Active(bufs) : bufs[t].list = bufs[s].list
  BY <1>2 DEF GoodImages
<1>4. s = "A" \/ s = "B"
  BY DEF Verified, Sections
<1> QED
  BY <1>1, <1>3, <1>4 DEF Deserialize

\* It is the empty list if no section is verified.
LEMMA DeserializeNone ==
    ASSUME NEW bufs, Verified(bufs) = {}
    PROVE  Deserialize(bufs) = EmptyList
BY DEF Deserialize, Active

\* Images that agree on the verified sections are read alike.
LEMMA DeserializeAgrees ==
    ASSUME NEW b1 \in [Sections -> Images], NEW b2 \in [Sections -> Images],
           Verified(b1) = Verified(b2),
           \A s \in Verified(b1) : b1[s] = b2[s]
    PROVE  Deserialize(b1) = Deserialize(b2)
<1>1. Active(b1) = Active(b2)
  BY DEF Active
<1>2. Active(b1) \subseteq Verified(b1)
  BY DEF Active
<1> QED
  BY <1>1, <1>2 DEF Deserialize

(***************************************************************************)
(* The effect of a stage of a write on what the next session reads: the    *)
(* list changes when the last write of the commit completes, or when the   *)
(* second write of a counter reset removes the old list.                   *)
(***************************************************************************)
LEMMA WriteEffect ==
    ASSUME TypeOK, Journaled, JournalInv, pc \in {"prepare", "program"},
           NEW img, Outcome(img), media' = [media EXCEPT ![target] = img],
           GoodImages(media')
    PROVE  /\ Deserialize(media') \in {Deserialize(media), list}
           /\ img = Full(op.counter, list) /\ ~SecondWriteDue => Deserialize(media') = list
<1> DEFINE o == Other(target)
<1>1. /\ target \in Sections
      /\ o \in Sections
      /\ o # target
      /\ Sections = {target, o}
  BY DEF TypeOK, Other, Sections
<1>2. /\ media'[target] = img
      /\ media'[o] = media[o]
      /\ media' \in [Sections -> Images]
      /\ media \in [Sections -> Images]
  BY <1>1 DEF TypeOK, Outcome
<1>3. Stage /\ GoodImages(media)
  BY GoodImagesMeaning DEF JournalInv, Journaled
<1>4. op.counter \in 1..MaxCounter /\ op.first \in Sections
  BY DEF TypeOK, Operations
<1>5. \A s \in Sections : media[s].counter \in 0..MaxCounter
  BY DEF TypeOK, Images
<1>6. o \in Verified(media') <=> o \in Verified(media)
  BY <1>1, <1>2 DEF Verified
<1>7. target \in Verified(media') <=> img.state = "full"
  BY <1>1, <1>2 DEF Verified
<1>8. Verified(media') \subseteq {target, o} /\ Verified(media) \subseteq {target, o}
  BY <1>1 DEF Verified
<1>12. target = op.first =>
          \/ Verified(media) = {} /\ ~op.reset
          \/ /\ o \in Verified(media)
             /\ op.reset <=> media[o].counter = MaxCounter
             /\ op.counter = IF op.reset THEN 1 ELSE media[o].counter + 1
             /\ target \in Verified(media) => media[target].counter <= media[o].counter
  BY <1>3 DEF Stage, FirstStage
<1>13. target # op.first =>
          /\ o \in Verified(media)
          /\ op.counter = 1
          /\ media[o].counter = 1
          /\ media[o].list = list
          /\ target \in Verified(media) => media[target].counter = MaxCounter
  <2>1. target # op.first => o = op.first
    BY <1>1, <1>4
  <2> QED
    BY <1>1, <1>3, <2>1 DEF Stage, SecondStage, Full, Verified
<1>14. /\ media'[o].counter = media[o].counter
       /\ media'[o].list = media[o].list
  BY <1>2
<1> HIDE DEF o
<1>9. CASE img = media[target]
  <2>1. media' = media
    BY <1>2, <1>9 DEF TypeOK
  <2>2. CASE img = Full(op.counter, list) /\ ~SecondWriteDue
    <3>4. img.state = "full" /\ img.counter = op.counter
      BY <2>2 DEF Full
    <3>1. target \in Verified(media) /\ media[target].counter = op.counter
      BY <1>1, <1>9, <3>4 DEF Verified
    <3>2. CASE target = op.first
      <4>1. ~op.reset
        BY <2>2, <3>2 DEF SecondWriteDue, Journaled
      <4> QED
        BY <1>1, <1>4, <1>5, <1>12, <3>1, <3>2, <4>1
    <3>3. CASE target # op.first
      BY <1>13, <3>1, <3>3, MaxCounterAssumption
    <3> QED BY <3>2, <3>3
  <2> QED BY <2>1, <2>2
<1>10. CASE img.state # "full"
  <2>1. img # Full(op.counter, list)
    BY <1>10 DEF Full
  <2>2. CASE o \notin Verified(media)
    <3>1. Verified(media) = {}
      <4>1. target = op.first
        BY <1>13, <2>2
      <4> QED
        BY <1>12, <2>2, <4>1
    <3>2. Verified(media') = {}
      BY <1>6, <1>7, <1>8, <1>10, <2>2
    <3> QED
      BY <2>1, <3>1, <3>2, DeserializeNone
  <2>3. CASE o \in Verified(media)
    <3>1. Deserialize(media') = media[o].list
      <4>1. \A t \in Verified(media') : media'[t].counter <= media'[o].counter
        <5>1. Verified(media') \subseteq {o}
          BY <1>7, <1>8, <1>10
        <5>2. media'[o].counter \in Nat
          BY <1>1, <1>5, <1>14, MaxCounterAssumption
        <5>3. media'[o].counter <= media'[o].counter
          BY <5>2
        <5>4. ASSUME NEW t \in Verified(media')
              PROVE  media'[t].counter <= media'[o].counter
          <6>1. t = o
            BY <5>1, <5>4
          <6> QED BY <5>3, <6>1
        <5> QED BY <5>4
      <4> QED
        BY <1>2, <1>6, <1>14, <2>3, <4>1, DeserializeLargest
    <3>2. CASE target = op.first
      <4>1. \A t \in Verified(media) : media[t].counter <= media[o].counter
        BY <1>1, <1>5, <1>8, <1>12, <2>3, <3>2
      <4>2. Deserialize(media) = media[o].list
        BY <1>2, <1>3, <2>3, <4>1, DeserializeLargest
      <4> QED BY <2>1, <3>1, <4>2
    <3>3. CASE target # op.first
      <4>1. media[o].list = list
        BY <1>13, <3>3
      <4> QED BY <2>1, <3>1, <4>1
    <3> QED BY <3>2, <3>3
  <2> QED BY <2>2, <2>3
<1>11. CASE img = Full(op.counter, list)
  <2>1. /\ target \in Verified(media')
        /\ media'[target].counter = op.counter
        /\ media'[target].list = list
    BY <1>2, <1>7, <1>11 DEF Full
  <2>2. CASE SecondWriteDue
    <3>1. target = op.first /\ op.reset
      BY <2>2 DEF SecondWriteDue
    <3>2. /\ o \in Verified(media)
          /\ media[o].counter = MaxCounter
          /\ op.counter = 1
      BY <1>12, <3>1
    <3>5. \A t \in Verified(media) : media[t].counter <= media[o].counter
      BY <1>1, <1>5, <1>8, <3>2
    <3>3. Deserialize(media) = media[o].list
      BY <1>2, <1>3, <3>2, <3>5, DeserializeLargest
    <3>4. Deserialize(media') = media[o].list
      <4>1. \A t \in Verified(media') : media'[t].counter <= media'[o].counter
        <5>1. media'[o].counter = MaxCounter /\ media'[target].counter = 1
          BY <1>14, <2>1, <3>2
        <5>2. 1 <= MaxCounter /\ MaxCounter <= MaxCounter
          BY MaxCounterAssumption
        <5>3. ASSUME NEW t \in Verified(media')
              PROVE  media'[t].counter <= media'[o].counter
          <6>1. t = target \/ t = o
            BY <1>8, <5>3
          <6> QED BY <5>1, <5>2, <6>1
        <5> QED BY <5>3
      <4> QED
        BY <1>2, <1>6, <1>14, <3>2, <4>1, DeserializeLargest
    <3> QED BY <2>2, <3>3, <3>4
  <2>3. CASE ~SecondWriteDue
    <3>1. o \in Verified(media') => media'[o].counter <= op.counter
      <4>1. CASE target = op.first
        <5>1. ~op.reset
          BY <2>3, <4>1 DEF SecondWriteDue, Journaled
        <5> QED
          BY <1>1, <1>5, <1>6, <1>12, <1>14, <4>1, <5>1
      <4>2. CASE target # op.first
        BY <1>13, <1>14, <4>2
      <4> QED BY <4>1, <4>2
    <3>2. \A t \in Verified(media') : media'[t].counter <= media'[target].counter
      <4>1. op.counter <= op.counter
        BY <1>4, MaxCounterAssumption
      <4>2. ASSUME NEW t \in Verified(media')
            PROVE  media'[t].counter <= media'[target].counter
        <5>1. t = target \/ t = o
          BY <1>8, <4>2
        <5> QED BY <2>1, <3>1, <4>1, <4>2, <5>1
      <4> QED BY <4>2
    <3>3. Deserialize(media') = list
      BY <1>2, <2>1, <3>2, DeserializeLargest
    <3> QED BY <3>3
  <2> QED BY <2>2, <2>3
<1> QED
  BY <1>9, <1>10, <1>11 DEF Outcome
-----------------------------------------------------------------------------
(***************************************************************************)
(* The refinement: each step of a journaled store whose lists serialize is *)
(* a step of NvramStore or a stutter.                                      *)
(***************************************************************************)
LEMMA StoreInit == Init => Store!Init
<1> SUFFICES ASSUME Init PROVE Store!Init
  OBVIOUS
<1>1. View(media) \in [Sections -> Images] /\ Verified(View(media)) = {}
  <2>1. TypeOK
    BY TypeOKInit
  <2> QED
    BY <2>1, ViewType DEF Init, Verified, NoBuffers, Blank, NoData, View
<1>2. Deserialize(View(media)) = EmptyList
  BY <1>1, DeserializeNone
<1> QED
  BY <1>2, EmptyListAssumption DEF Init, Store!Init, Store!Contents

LEMMA StoreNext ==
    ASSUME Inductive, Inductive', [Next]_vars, Journaled, "serialize" \notin deploy.faults
    PROVE  [Store!Next]_Store!vars
<1> DEFINE stored == Deserialize(View(media))
<1>1. TypeOK /\ JournalInv
  BY DEF Inductive
<1>2. deploy' = deploy
  BY DEF Next, vars, v2_init, v2_init_fails, v2_commit, v2_commit_not_serialized,
         v2_commit_without_section, Prepare, PrepareFails, ProgramFirst, ProgramLast,
         ProgramFails, v2_close, Kill, Writeback, PowerLoss
<1>3. TypeOK' /\ GoodImages(media')
  <2>1. TypeOK' /\ JournalInv' /\ Journaled'
    BY <1>2 DEF Inductive, Journaled, Dual
  <2>2. View(media)' = media'
    BY <2>1 DEF View, TypeOK, Journaled, Dual
  <2> QED
    BY <2>1, <2>2
    DEF JournalInv, TieImpliesSame, CountersAdjacent, CountersPositive, GoodImages
<1>4. View(media) = media /\ View(media)' = media'
  BY <1>1, <1>2, <1>3 DEF View, TypeOK, Journaled, Dual
<1>5. stored = Deserialize(media) /\ stored' = Deserialize(media')
  BY <1>4
<1>6. ASSUME media' = media PROVE stored' = stored
  BY <1>5, <1>6
<1>7. ASSUME NEW img, Outcome(img), Stays(target, img), pc \in {"prepare", "program"}
      PROVE  /\ stored' = stored \/ stored' = list
             /\ img = Full(op.counter, list) /\ ~SecondWriteDue => stored' = list
  <2>1. media' = [media EXCEPT ![target] = img]
    BY <1>7 DEF Stays
  <2> HIDE DEF stored
  <2> QED
    BY <1>1, <1>3, <1>5, <1>7, <2>1, WriteEffect
<1>23. stored \in Lists
  BY <1>1, <1>5, DeserializeType DEF TypeOK
<1> HIDE DEF stored
<1> DEFINE mode == IF pc \in {"prepare", "program"} THEN "commit" ELSE pc
<1> SUFFICES \/ Store!Next
             \/ stored' = stored /\ mode' = mode /\ list' = list
  BY DEF Store!vars, stored
<1>8. CASE v2_init
  <2>1. Store!Open
    BY <1>6, <1>8, <1>23 DEF v2_init, storage, Store!Open, stored
  <2> QED BY <2>1 DEF Store!Next
<1>9. CASE v2_init_fails
  <2>1. Store!OpenFails
    BY <1>1, <1>6, <1>9 DEF v2_init_fails, storage, Store!OpenFails, stored, TypeOK
  <2> QED BY <2>1 DEF Store!Next
<1>10. ASSUME NEW l \in Lists, v2_commit(l)
       PROVE  Store!Next
  <2>1. Store!Commit
    BY <1>6, <1>10 DEF v2_commit, storage, Store!Commit, stored
  <2> QED BY <2>1 DEF Store!Next
<1>11. ASSUME NEW l \in Lists, v2_commit_not_serialized(l)
       PROVE  FALSE
  BY <1>11 DEF v2_commit_not_serialized
<1>12. CASE v2_commit_without_section
  BY <1>12 DEF v2_commit_without_section, Journaled, Dual, Sections
<1>13. CASE Prepare
  <2>1. stored' = stored \/ stored' = list
    BY <1>1, <1>7, <1>13, Outcomes DEF Prepare
  <2>2. mode = "commit" /\ mode' = "commit" /\ list' = list
    BY <1>13 DEF Prepare
  <2>3. stored' = list => Store!TakeEffect
    BY <1>13 DEF Prepare, Store!TakeEffect, stored
  <2> QED BY <2>1, <2>2, <2>3 DEF Store!Next
<1>14. CASE PrepareFails
  <2>1. PICK img \in PartlyPrepared(deploy.interface, media[target]) : Stays(target, img)
    BY <1>14 DEF PrepareFails
  <2>2. stored' = stored \/ stored' = list
    BY <1>1, <1>7, <1>14, <2>1, Outcomes DEF PrepareFails
  <2>3. Store!CommitFails
    BY <1>1, <1>14, <2>2 DEF PrepareFails, Store!CommitFails, stored, TypeOK
  <2> QED BY <2>3 DEF Store!Next
<1>15. CASE ProgramFirst
  <2>1. stored' = stored \/ stored' = list
    BY <1>1, <1>7, <1>15, Outcomes DEF ProgramFirst
  <2>2. mode = "commit" /\ mode' = "commit" /\ list' = list
    BY <1>15 DEF ProgramFirst
  <2>3. stored' = list => Store!TakeEffect
    BY <1>15 DEF ProgramFirst, Store!TakeEffect, stored
  <2> QED BY <2>1, <2>2, <2>3 DEF Store!Next
<1>16. CASE ProgramLast
  <2>1. stored' = list
    BY <1>1, <1>7, <1>16, Outcomes DEF ProgramLast
  <2>2. Store!CommitOk
    BY <1>16, <2>1 DEF ProgramLast, Store!CommitOk, stored
  <2> QED BY <2>2 DEF Store!Next
<1>17. CASE ProgramFails
  <2>1. PICK img \in Torn : Stays(target, img)
    BY <1>17 DEF ProgramFails
  <2>2. stored' = stored \/ stored' = list
    BY <1>1, <1>7, <1>17, <2>1, Outcomes DEF ProgramFails
  <2>3. Store!CommitFails
    BY <1>1, <1>17, <2>2 DEF ProgramFails, Store!CommitFails, stored, TypeOK
  <2> QED BY <2>3 DEF Store!Next
<1>18. CASE v2_close
  <2>1. Store!End
    BY <1>6, <1>18 DEF v2_close, SessionEnds, storage, Store!End, stored
  <2> QED BY <2>1 DEF Store!Next
<1>19. CASE Kill
  <2>1. PICK img \in Interrupted : Stays(target, img)
    BY <1>19 DEF Kill
  <2>2. CASE pc \in {"prepare", "program"}
    <3>1. stored' = stored \/ stored' = list
      BY <1>1, <1>7, <2>1, <2>2, KillOutcomes
    <3>2. Store!End
      BY <1>19, <2>2, <3>1 DEF Kill, SessionEnds, Store!End, stored
    <3> QED BY <3>2 DEF Store!Next
  <2>3. CASE pc \notin {"prepare", "program"}
    <3>1. media' = media
      BY <1>1, <2>1, <2>3 DEF Interrupted, Stays, TypeOK
    <3>2. Store!End
      BY <1>6, <1>19, <2>3, <3>1 DEF Kill, SessionEnds, Store!End, stored
    <3> QED BY <3>2 DEF Store!Next
  <2> QED BY <2>2, <2>3
<1>20. ASSUME NEW s \in Sections, Writeback(s)
       PROVE  stored' = stored /\ mode' = mode /\ list' = list
  BY <1>6, <1>20 DEF Writeback, session
<1>21. CASE PowerLoss
  <2>1. ~PageCached(deploy.interface)
    BY <1>21 DEF PowerLoss, Journaled
  <2>2. media' = stable
    BY <1>1, <1>21, <2>1 DEF PowerLoss, Left, AfterPowerLoss, TypeOK, Sections
  <2>3. \A s \in Sections :
          stable[s] = IF deploy.interface = "efi" /\ media[s] = Unreadable
                      THEN Blank ELSE media[s]
    BY <1>1, <2>1 DEF JournalInv, StableMatches
  <2>4. /\ Verified(stable) = Verified(media)
        /\ \A s \in Verified(stable) : stable[s] = media[s]
    BY <2>3 DEF Verified, Blank, Unreadable, NoData
  <2>5. Deserialize(stable) = Deserialize(media)
    BY <1>1, <2>4, DeserializeAgrees DEF TypeOK
  <2> QED
    BY <1>5, <1>21, <2>2, <2>5 DEF PowerLoss, session
<1>22. CASE UNCHANGED vars
  BY <1>6, <1>22 DEF vars
<1> QED
  BY <1>8, <1>9, <1>10, <1>11, <1>12, <1>13, <1>14, <1>15, <1>16, <1>17, <1>18,
     <1>19, <1>20, <1>21, <1>22 DEF Next

(***************************************************************************)
(* The v2 format implements NvramStore, in every deployment that journals  *)
(* its writes and whose lists serialize: a session reads the list of the   *)
(* last commit that took effect, a commit that returns 0 has taken effect, *)
(* and one that fails or is interrupted has done so entirely or not at all.*)
(***************************************************************************)
THEOREM ImplementsStore ==
    ASSUME JournaledDeployments,
           \A d \in Deployments : "serialize" \notin d.faults
    PROVE  Spec => StoreRefinement
<1>1. Inductive => Journaled /\ "serialize" \notin deploy.faults
  BY DEF Inductive, TypeOK, JournaledDeployments, Journaled, Dual
<1>2. Init => Store!Init
  BY StoreInit
<1>3. Inductive /\ Inductive' /\ [Next]_vars => [Store!Next]_Store!vars
  BY <1>1, StoreNext
<1> QED
  BY <1>2, <1>3, InductiveInvariant, PTL DEF Spec, StoreRefinement, Store!Spec

(***************************************************************************)
(* Once a verified list is on the storage of a journaled store, some       *)
(* verified list is readable after every later step, crashes, failed       *)
(* writes and power losses included.                                       *)
(***************************************************************************)
THEOREM StoredListsSurvive ==
    ASSUME JournaledDeployments
    PROVE  Spec => StoredListSurvives
<1>1. Inductive => Journaled
  BY DEF Inductive, TypeOK, JournaledDeployments, Journaled, Dual
<1>2. ASSUME Inductive, Inductive', [Next]_vars
      PROVE  Verified(View(stable)) # {} => Verified(View(media))' # {}
  <2>1. Journaled /\ Journaled' /\ TypeOK /\ TypeOK' /\ JournalInv /\ JournalInv'
    BY <1>1, <1>2 DEF Inductive, TypeOK, JournaledDeployments, Journaled, Dual
  <2>2. View(stable) = stable /\ View(media) = media /\ View(media)' = media'
    BY <2>1 DEF View, TypeOK, Journaled, Dual
  <2>3. Verified(stable) # {} => Verified(media) # {}
    BY <2>1 DEF JournalInv, StableMatches
  <2>4. Verified(media) # {} => Verified(media)' # {}
    <3>2. CASE UNCHANGED media
      BY <3>2
    <3>3. ASSUME NEW img, Outcome(img), Stays(target, img),
                 pc \in {"prepare", "program"} \/ img = media[target]
          PROVE  Verified(media) # {} => Verified(media)' # {}
      <4>1. CASE pc \in {"prepare", "program"}
        BY <2>1, <3>3, <4>1, FallbackKept DEF JournalInv, Stays
      <4>2. CASE img = media[target]
        <5>1. media' = media
          BY <2>1, <3>3, <4>2 DEF Stays, TypeOK
        <5> QED BY <5>1
      <4> QED BY <3>3, <4>1, <4>2
    <3>4. CASE Prepare \/ ProgramFirst \/ ProgramLast
      BY <2>1, <3>3, <3>4, Outcomes DEF Prepare, ProgramFirst, ProgramLast
    <3>5. CASE PrepareFails \/ ProgramFails
      BY <2>1, <3>3, <3>5, Outcomes DEF PrepareFails, ProgramFails
    <3>6. CASE Kill
      <4>1. PICK img \in Interrupted : Stays(target, img)
        BY <3>6 DEF Kill
      <4>2. pc \in {"prepare", "program"} \/ img = media[target]
        BY <4>1 DEF Interrupted
      <4> QED BY <2>1, <3>3, <4>1, <4>2, KillOutcomes
    <3>7. CASE PowerLoss
      <4>1. ~PageCached(deploy.interface)
        BY <2>1, <3>7 DEF PowerLoss, Journaled
      <4>2. media' = stable
        BY <2>1, <3>7, <4>1 DEF PowerLoss, Left, AfterPowerLoss, TypeOK, Sections
      <4>3. Verified(stable) = Verified(media)
        BY <2>1, <4>1
        DEF JournalInv, StableMatches, Verified, Blank, Unreadable, NoData
      <4> QED BY <4>2, <4>3
    <3> QED
      BY <1>2, <3>2, <3>4, <3>5, <3>6, <3>7
      DEF Next, vars, v2_init, v2_init_fails, v2_commit, v2_commit_not_serialized,
          v2_commit_without_section, v2_close, Writeback, storage
  <2> QED BY <2>2, <2>3, <2>4
<1> QED
  BY <1>2, InductiveInvariant, PTL DEF Spec, StoredListSurvives
-----------------------------------------------------------------------------
(* Media on which nothing becomes unreadable *)

\* Partitions and block devices that have room for every list.
RoomyDeployments ==
    \A d \in Deployments : d.interface \in {"mtd", "block"} /\ d.fits = Lists

NothingUnreadable ==
    \A s \in Sections : media[s] # Unreadable /\ stable[s] # Unreadable

\* No image that a stage of write() or a power loss leaves there is unreadable.
LEMMA ReadableImages ==
    ASSUME RoomyDeployments, TypeOK, NothingUnreadable
    PROVE  /\ \A img \in PartlyPrepared(deploy.interface, media[target]) : img # Unreadable
           /\ Prepared(deploy.interface, media[target]) # Unreadable
           /\ \A img \in Torn : img # Unreadable
           /\ \A c, l : Full(c, l) # Unreadable
           /\ media[target] # Unreadable
           /\ \A s \in Sections : \A img \in Left(s) : img # Unreadable
<1>1. deploy.interface \in {"mtd", "block"} /\ list \in deploy.fits
  BY DEF RoomyDeployments, TypeOK
<1>2. /\ Blank # Unreadable
      /\ Corrupt # Unreadable
      /\ \A c, l : Full(c, l) # Unreadable
  BY DEF Blank, Corrupt, Unreadable, Full, NoData
<1>3. media[target] # Unreadable
  BY DEF TypeOK, NothingUnreadable
<1>4. /\ \A img \in PartlyPrepared(deploy.interface, media[target]) : img # Unreadable
      /\ Prepared(deploy.interface, media[target]) # Unreadable
  BY <1>1, <1>2, <1>3 DEF PartlyPrepared, Prepared, MtdErased, MtdPartlyErased
<1>5. \A img \in Torn : img # Unreadable
  BY <1>1, <1>2, <1>3 DEF Torn, PartlyProgrammed, BlockTorn, MtdTorn
<1>6. \A s \in Sections : \A img \in Left(s) : img # Unreadable
  BY <1>1, <1>2 DEF Left, AfterPowerLoss, NothingUnreadable
<1> QED
  BY <1>2, <1>3, <1>4, <1>5, <1>6

\* What is left in a section is what reading it gives, or what was there.
LEMMA StaysReadable ==
    ASSUME TypeOK, NothingUnreadable, NEW s \in Sections, NEW img, Stays(s, img),
           img # Unreadable
    PROVE  NothingUnreadable'
BY DEF TypeOK, NothingUnreadable, Stays, OnStorage

LEMMA ReadableNext ==
    ASSUME RoomyDeployments, TypeOK, NothingUnreadable, [Next]_vars
    PROVE  NothingUnreadable'
<1>1. target \in Sections
  BY DEF TypeOK
<1>2. CASE UNCHANGED storage
  BY <1>2 DEF storage, NothingUnreadable
<1>3. CASE Prepare \/ PrepareFails
  BY <1>1, <1>3, ReadableImages, StaysReadable DEF Prepare, PrepareFails
<1>4. CASE ProgramFirst \/ ProgramLast \/ ProgramFails
  BY <1>1, <1>4, ReadableImages, StaysReadable DEF ProgramFirst, ProgramLast, ProgramFails
<1>5. CASE Kill
  <2>1. \A img \in Interrupted : img # Unreadable
    BY ReadableImages DEF Interrupted
  <2> QED
    BY <1>1, <1>5, <2>1, StaysReadable DEF Kill
<1>6. ASSUME NEW s \in Sections, Writeback(s)
      PROVE  NothingUnreadable'
  BY <1>6 DEF Writeback, NothingUnreadable, TypeOK
<1>7. CASE PowerLoss
  <2>1. PICK a \in Left("A"), b \in Left("B") :
          /\ media' = [s \in Sections |-> IF s = "A" THEN a ELSE b]
          /\ stable' = media'
    BY <1>7 DEF PowerLoss
  <2>2. a # Unreadable /\ b # Unreadable
    BY ReadableImages DEF Sections
  <2> QED
    BY <2>1, <2>2 DEF NothingUnreadable
<1> QED
  BY <1>2, <1>3, <1>4, <1>5, <1>6, <1>7
  DEF Next, vars, storage, v2_init, v2_init_fails, v2_commit, v2_commit_not_serialized,
      v2_commit_without_section, v2_close

(***************************************************************************)
(* On partitions and block devices with room for every list, no failure,   *)
(* kill or power loss makes v2_init give up on a store that still has a    *)
(* verified section, however its sections are configured.                  *)
(***************************************************************************)
THEOREM ReadableOnRoomyMedia ==
    ASSUME RoomyDeployments
    PROVE  Spec => []ReadableWithFallback
<1>1. Init => NothingUnreadable
  BY DEF Init, NothingUnreadable, NoBuffers, Blank, Unreadable, NoData
<1>2. TypeOK /\ NothingUnreadable /\ [Next]_vars => NothingUnreadable'
  BY ReadableNext
<1>3. TypeOK /\ NothingUnreadable => ReadableWithFallback
  BY DeployType DEF NothingUnreadable, ReadableWithFallback, Readable
<1> QED
  BY <1>1, <1>2, <1>3, TypeCorrect, PTL DEF Spec
=============================================================================
