------------------------------ MODULE FormatV2 ------------------------------
(***************************************************************************)
(* The "v2" format (nvram_format_v2.c) on one store, that is on its A and  *)
(* B sections, used by one session at a time: init, commits, close.  Each  *)
(* write to a section is two steps, Prepare and Program (see Interface),   *)
(* so that a failure or a crash can fall between any two of them.          *)
(***************************************************************************)
EXTENDS Interface

CONSTANT Deployments  \* the ways a store is set up, and what can go wrong

(***************************************************************************)
(* configured : the sections with a non-empty name (NVRAM_*_A, NVRAM_*_B)  *)
(* fits       : the lists for which a section has room                     *)
(* faults     : "io"        a system call or an allocation fails           *)
(*              "serialize" libnvram_serialize returns 0                   *)
(*              "kill"      the process dies                               *)
(*              "power"     the machine loses power                        *)
(***************************************************************************)
Faults == {"io", "serialize", "kill", "power"}

ASSUME DeploymentsAssumption ==
    Deployments \subseteq [interface  : Interfaces,
                           configured : SUBSET Sections,
                           fits       : SUBSET Lists,
                           faults     : SUBSET Faults]

VARIABLES
    deploy,  \* the deployment, which never changes
    media,   \* what reading each section gives
    stable,  \* what is on the storage of each section
    pc,      \* where the session is
    trans,   \* struct nvram: trans
    list,    \* the list init returned, or the one commit was given
    op,      \* v2_commit: what libnvram_next_transaction ordered
    target   \* v2_commit: the section being written

storage == <<media, stable>>
session == <<pc, trans, list, op, target>>
vars == <<deploy, media, stable, pc, trans, list, op, target>>

\* A section without a name is never opened: its buffer stays NULL.
View(bufs) ==
    [s \in Sections |-> IF s \in deploy.configured THEN bufs[s] ELSE Blank]

Dual == deploy.configured = Sections

TypeOK ==
    /\ deploy \in Deployments
    /\ media \in [Sections -> Images]
    /\ stable \in [Sections -> Images]
    /\ pc \in {"closed", "open", "prepare", "program", "committed", "failed"}
    /\ trans \in Transactions
    /\ list \in Lists
    /\ op \in Operations
    /\ target \in Sections

NoBuffers == [s \in Sections |-> Blank]

Init ==
    /\ deploy \in Deployments
    /\ media = NoBuffers
    /\ stable = NoBuffers
    /\ pc = "closed"
    /\ trans = InitTransaction(NoBuffers)
    /\ list = EmptyList
    /\ op = FirstWrite
    /\ target = "A"

SessionEnds ==
    /\ pc' = "closed"
    /\ trans' = InitTransaction(NoBuffers)
    /\ list' = EmptyList
    /\ op' = FirstWrite
    /\ target' = "A"

Stays(s, img) ==
    /\ media' = [media EXCEPT ![s] = img]
    /\ stable' = [stable EXCEPT ![s] = OnStorage(deploy.interface, @, img)]
-----------------------------------------------------------------------------
Readable == \A s \in deploy.configured : media[s] # Unreadable

v2_init ==
    /\ pc = "closed"
    /\ Readable
    /\ pc' = "open"
    /\ trans' = InitTransaction(View(media))
    /\ list' = Deserialize(View(media))
    /\ UNCHANGED <<deploy, storage, op, target>>

\* init_and_read of either section fails: v2_init gives up on both.
v2_init_fails ==
    /\ pc = "closed"
    /\ "io" \in deploy.faults \/ ~Readable
    /\ pc' = "failed"
    /\ UNCHANGED <<deploy, storage, trans, list, op, target>>

\* Mutant: is_write_a is inverted.
v2_commit_wrong_section(l) ==
    /\ pc \in {"open", "committed"}
    /\ deploy.configured # {}
    /\ pc' = "prepare"
    /\ list' = l
    /\ op' \in NextOps(trans)
    /\ target' \in (IF Dual THEN {Other(op'.first)} ELSE deploy.configured)
    /\ UNCHANGED <<deploy, storage, trans>>

\* v2_commit up to its first write: the counter and the section are chosen.
v2_commit(l) ==
    /\ pc \in {"open", "committed"}
    /\ deploy.configured # {}
    /\ pc' = "prepare"
    /\ list' = l
    /\ op' \in NextOps(trans)
    /\ target' \in (IF Dual THEN {op'.first} ELSE deploy.configured)
    /\ UNCHANGED <<deploy, storage, trans>>

\* libnvram_serialize returns 0: v2_commit leaves, with r still 0.
v2_commit_not_serialized(l) ==
    /\ pc \in {"open", "committed"}
    /\ "serialize" \in deploy.faults
    /\ pc' = "committed"
    /\ list' = l
    /\ UNCHANGED <<deploy, storage, trans, op, target>>

\* With no section at all write_buf is given a NULL priv: SIGSEGV.
v2_commit_without_section ==
    /\ pc \in {"open", "committed"}
    /\ deploy.configured = {}
    /\ SessionEnds
    /\ UNCHANGED <<deploy, storage>>

Prepare ==
    /\ pc = "prepare"
    /\ Stays(target, Prepared(deploy.interface, media[target]))
    /\ pc' = "program"
    /\ UNCHANGED <<deploy, trans, list, op, target>>

PrepareFails ==
    /\ pc = "prepare"
    /\ "io" \in deploy.faults
    /\ \E img \in PartlyPrepared(deploy.interface, media[target]) : Stays(target, img)
    /\ pc' = "failed"
    /\ UNCHANGED <<deploy, trans, list, op, target>>

\* Mutant: the second write of a counter reset is forgotten.
SecondWriteDue_never == FALSE

\* Mutant: both sections are written without a counter reset too.
SecondWriteDue_always == Dual /\ target = op.first

SecondWriteDue == Dual /\ op.reset /\ target = op.first

\* The first write of a counter reset; the other section is next.
ProgramFirst ==
    /\ pc = "program"
    /\ list \in deploy.fits
    /\ SecondWriteDue
    /\ Stays(target, Full(op.counter, list))
    /\ pc' = "prepare"
    /\ target' = Other(target)
    /\ UNCHANGED <<deploy, trans, list, op>>

\* Mutant: libnvram_update_transaction is not called.
ProgramLast_without_update ==
    /\ pc = "program"
    /\ list \in deploy.fits
    /\ ~SecondWriteDue
    /\ Stays(target, Full(op.counter, list))
    /\ pc' = "committed"
    /\ UNCHANGED <<deploy, trans, list, op, target>>

\* The last or only write: the transaction is updated and commit returns 0.
ProgramLast ==
    /\ pc = "program"
    /\ list \in deploy.fits
    /\ ~SecondWriteDue
    /\ Stays(target, Full(op.counter, list))
    /\ pc' = "committed"
    /\ trans' = UpdateTransaction(trans, op)
    /\ UNCHANGED <<deploy, list, op, target>>

Torn == PartlyProgrammed(deploy.interface, media[target], list \in deploy.fits)

\* Mutant: the second write of a counter reset does not wait for the first.
ProgramFails_goes_on ==
    /\ pc = "program"
    /\ "io" \in deploy.faults \/ list \notin deploy.fits
    /\ \E img \in Torn : Stays(target, img)
    /\ IF SecondWriteDue
       THEN pc' = "prepare" /\ target' = Other(target)
       ELSE pc' = "failed" /\ target' = target
    /\ UNCHANGED <<deploy, trans, list, op>>

ProgramFails ==
    /\ pc = "program"
    /\ "io" \in deploy.faults \/ list \notin deploy.fits
    /\ \E img \in Torn : Stays(target, img)
    /\ pc' = "failed"
    /\ UNCHANGED <<deploy, trans, list, op, target>>

v2_close ==
    /\ pc \in {"open", "committed", "failed"}
    /\ SessionEnds
    /\ UNCHANGED <<deploy, storage>>
-----------------------------------------------------------------------------
\* What a write leaves in its section when the process dies in it.
Interrupted ==
    CASE pc = "prepare" -> PartlyPrepared(deploy.interface, media[target])
      [] pc = "program" -> Torn \cup {media[target]} \cup
            (IF list \in deploy.fits THEN {Full(op.counter, list)} ELSE {})
      [] OTHER -> {media[target]}

\* The process is killed, or is about to lose power.
Kill ==
    /\ pc # "closed"
    /\ deploy.faults \cap {"kill", "power"} # {}
    /\ \E img \in Interrupted : Stays(target, img)
    /\ SessionEnds
    /\ UNCHANGED deploy

\* The kernel writes a file back when it likes, in any order.
Writeback(s) ==
    /\ PageCached(deploy.interface)
    /\ stable[s] # media[s]
    /\ stable' = [stable EXCEPT ![s] = media[s]]
    /\ UNCHANGED <<deploy, media, session>>

Left(s) == AfterPowerLoss(deploy.interface, stable[s], media[s])

\* What only memory held is gone; the session has died in a Kill step.
PowerLoss ==
    /\ pc = "closed"
    /\ "power" \in deploy.faults
    /\ \E a \in Left("A"), b \in Left("B") :
        /\ media' = [s \in Sections |-> IF s = "A" THEN a ELSE b]
        /\ stable' = media'
    /\ UNCHANGED <<deploy, session>>

Next ==
    \/ v2_init
    \/ v2_init_fails
    \/ \E l \in Lists : v2_commit(l) \/ v2_commit_not_serialized(l)
    \/ v2_commit_without_section
    \/ Prepare
    \/ PrepareFails
    \/ ProgramFirst
    \/ ProgramLast
    \/ ProgramFails
    \/ v2_close
    \/ Kill
    \/ \E s \in Sections : Writeback(s)
    \/ PowerLoss

Spec == Init /\ [][Next]_vars
-----------------------------------------------------------------------------
(***************************************************************************)
(* Two verified sections with the same counter hold the same list, so it   *)
(* does not matter that v2_init deserializes A when both are active.       *)
(***************************************************************************)
TieImpliesSame ==
    \A s, t \in Verified(View(media)) :
        media[s].counter = media[t].counter => media[s].list = media[t].list

(***************************************************************************)
(* Two verified sections are at most one commit apart: their counters are  *)
(* equal, adjacent, or those of a counter reset that stopped between its   *)
(* two writes.  So the larger counter is always that of the newer list,    *)
(* except before the second write of a reset, where the old list wins.     *)
(***************************************************************************)
CountersAdjacent ==
    \A s, t \in Verified(View(media)) :
        LET low == media[s].counter
            high == media[t].counter
        IN  low < high => high = low + 1 \/ (low = 1 /\ high = MaxCounter)

(***************************************************************************)
(* The transaction kept in struct nvram is what reading both sections      *)
(* again would give, before and after a commit: the handle is not stale.   *)
(***************************************************************************)
HandleIsCurrent ==
    Dual /\ pc \in {"open", "committed"} => trans = InitTransaction(media)

(***************************************************************************)
(* Once a list has reached the storage, the store never loses its last     *)
(* verified list, whatever fails and wherever a commit is cut short.       *)
(***************************************************************************)
StoredListSurvives ==
    [][Verified(View(stable)) # {} => Verified(View(media))' # {}]_vars

(***************************************************************************)
(* While a section holds a verified list, v2_init can read the store: no   *)
(* failed or interrupted write of the other section makes v2_init fail,    *)
(* which it would then do for good.                                        *)
(***************************************************************************)
ReadableWithFallback == Verified(View(media)) # {} => Readable

\* A commit is all or nothing: no torn list is ever read.
NothingTorn(l) == {}

(***************************************************************************)
(* The format does what NvramStore promises: a session is given the list   *)
(* of the last commit that took effect, and commits are all or nothing.    *)
(***************************************************************************)
Store == INSTANCE NvramStore WITH
            Damage <- {},
            Torn   <- NothingTorn,
            stored <- Deserialize(View(media)),
            pc     <- IF pc \in {"prepare", "program"} THEN "commit" ELSE pc

StoreRefinement == Store!Spec
-----------------------------------------------------------------------------
(***************************************************************************)
(* The inductive invariant behind the properties above, for the stores     *)
(* whose writes are journaled: both sections are configured and a write    *)
(* that was reported done is not lost with the page cache.                 *)
(***************************************************************************)
Journaled == Dual /\ ~(PageCached(deploy.interface) /\ "power" \in deploy.faults)

CountersPositive == \A s \in Verified(media) : media[s].counter > 0

(***************************************************************************)
(* The first write of a commit replaces a section that is not needed: none *)
(* is verified yet, or the other one holds the counter that the operation  *)
(* was computed from.                                                      *)
(***************************************************************************)
FirstStage ==
    LET o == Other(target)
    IN  \/ /\ Verified(media) = {}
           /\ op.counter = 1
           /\ ~op.reset
           /\ trans.counter[o] = 0
        \/ /\ o \in Verified(media)
           /\ trans.counter[o] = media[o].counter
           /\ op.reset <=> media[o].counter = MaxCounter
           /\ op.counter = IF op.reset THEN 1 ELSE media[o].counter + 1
           /\ target \in Verified(media) => media[target].counter <= media[o].counter

\* The second write of a counter reset: the first has already succeeded.
SecondStage ==
    /\ op.reset
    /\ op.counter = 1
    /\ media[op.first] = Full(1, list)
    /\ target \in Verified(media) => media[target].counter = MaxCounter

\* The storage holds what a session reads, page cache and new variables aside.
StableMatches ==
    /\ Verified(stable) # {} => Verified(media) # {}
    /\ ~PageCached(deploy.interface) =>
          \A s \in Sections :
              stable[s] = IF deploy.interface = "efi" /\ media[s] = Unreadable
                          THEN Blank ELSE media[s]

Stage == IF target = op.first THEN FirstStage ELSE SecondStage

JournalInv ==
    /\ TieImpliesSame
    /\ CountersAdjacent
    /\ CountersPositive
    /\ HandleIsCurrent
    /\ StableMatches
    /\ pc \in {"prepare", "program"} => Stage

Inductive == TypeOK /\ (Journaled => JournalInv)

\* Every deployment is journaled, whichever Init chooses.
JournaledDeployments ==
    \A d \in Deployments :
        /\ d.configured = Sections
        /\ ~(PageCached(d.interface) /\ "power" \in d.faults)
=============================================================================
