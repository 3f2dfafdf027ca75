---------------------------- MODULE WriteProtect ----------------------------
(***************************************************************************)
(* write() of the storage interfaces, call by call, together with the      *)
(* protection that it lifts and restores: the write-protect GPIO of an MTD *)
(* partition, the immutable flag of an EFI variable.  What is written is   *)
(* left to the format that extends this module.                            *)
(*                                                                         *)
(*   mtd   open, GPIO off, erase, write, GPIO on                           *)
(*   efi   flag off, open, write, flag on                                  *)
(*   file  open with O_TRUNC, write                                        *)
(***************************************************************************)
CONSTANTS
    Absent,   \* there is no such file or variable
    Erased,   \* erased, truncated or torn: nothing that a format accepts
    Bare      \* an EFI variable that was created and not written yet

VARIABLES
    deploy,    \* interface, gpio (is one configured?), faults
    medium,    \* what the section holds
    step,      \* where write() is
    failed,    \* write() is going to return an error
    guarded,   \* the protection is on
    lapsed     \* not in the code: the last process left the protection off,
               \*   as it was killed or could not put it back

device == <<medium, step, failed, guarded, lapsed>>

Steps == {"idle", "unprotect", "prepare", "program", "protect", "done"}

HasGuard == deploy.interface = "efi" \/ (deploy.interface = "mtd" /\ deploy.gpio)

DeviceInit ==
    /\ step = "idle"
    /\ failed = FALSE
    /\ guarded \in BOOLEAN
    /\ guarded => HasGuard /\ medium # Absent
    /\ lapsed = ~guarded

FirstStep == IF HasGuard THEN "unprotect" ELSE "prepare"
LastStep == IF HasGuard THEN "protect" ELSE "done"

WriteCalled ==
    /\ step' = FirstStep
    /\ failed' = FALSE
    /\ UNCHANGED <<medium, guarded, lapsed>>

\* open(2) of the MTD device comes before the GPIO: nothing to restore.
OpenFails ==
    /\ deploy.interface = "mtd"
    /\ step = FirstStep
    /\ "io" \in deploy.faults
    /\ step' = "done"
    /\ failed' = TRUE
    /\ UNCHANGED <<medium, guarded, lapsed>>

\* A variable that is not there has no flag: ENOENT is not an error.
Unprotect ==
    /\ step = "unprotect"
    /\ step' = "prepare"
    /\ guarded' = FALSE
    /\ UNCHANGED <<medium, failed, lapsed>>

\* Mutant: the result of set_gpio and set_immutable is not looked at.
UnprotectFails_ignored ==
    /\ step = "unprotect"
    /\ "io" \in deploy.faults
    /\ step' = "prepare"
    /\ UNCHANGED <<medium, failed, guarded, lapsed>>

\* MTD goes to exit, which turns the GPIO on; EFI returns at once.
UnprotectFails ==
    /\ step = "unprotect"
    /\ "io" \in deploy.faults
    /\ step' = IF deploy.interface = "mtd" THEN "protect" ELSE "done"
    /\ failed' = TRUE
    /\ UNCHANGED <<medium, guarded, lapsed>>

Prepared ==
    IF deploy.interface # "efi" THEN Erased
    ELSE IF medium = Absent THEN Bare
    ELSE medium

Prepare ==
    /\ step = "prepare"
    /\ step' = "program"
    /\ medium' = Prepared
    /\ UNCHANGED <<failed, guarded, lapsed>>

\* Mutant: the error returns at once, as it does before the protection is off.
PrepareFails_returns ==
    /\ step = "prepare"
    /\ "io" \in deploy.faults
    /\ step' = "done"
    /\ failed' = TRUE
    /\ medium' \in {medium, Prepared}
    /\ UNCHANGED <<guarded, lapsed>>

\* An erase may stop half way; the buffer of EFI is allocated after the open.
PrepareFails ==
    /\ step = "prepare"
    /\ "io" \in deploy.faults
    /\ step' = LastStep
    /\ failed' = TRUE
    /\ medium' \in {medium, Prepared}
    /\ UNCHANGED <<guarded, lapsed>>

Program(new) ==
    /\ step = "program"
    /\ step' = LastStep
    /\ medium' = new
    /\ UNCHANGED <<failed, guarded, lapsed>>

\* Mutant: a short write is not noticed.
ProgramFails_unnoticed ==
    /\ step = "program"
    /\ "io" \in deploy.faults
    /\ step' = LastStep
    /\ UNCHANGED <<medium, failed, guarded, lapsed>>

\* A short write of what was just erased is still nothing that parses.
ProgramFails ==
    /\ step = "program"
    /\ "io" \in deploy.faults
    /\ step' = LastStep
    /\ failed' = TRUE
    /\ UNCHANGED <<medium, guarded, lapsed>>

Protect ==
    /\ step = "protect"
    /\ step' = "done"
    /\ guarded' = (medium # Absent)
    /\ lapsed' = FALSE
    /\ UNCHANGED <<medium, failed>>

\* The result of putting the protection back is ignored.
ProtectFails ==
    /\ step = "protect"
    /\ "io" \in deploy.faults
    /\ step' = "done"
    /\ lapsed' = ~guarded
    /\ UNCHANGED <<medium, failed, guarded>>

WriteStep(new) ==
    \/ OpenFails
    \/ Unprotect
    \/ UnprotectFails
    \/ Prepare
    \/ PrepareFails
    \/ Program(new)
    \/ ProgramFails
    \/ Protect
    \/ ProtectFails

\* The process dies, in write() or outside of it.
Cut(new) ==
    /\ medium' \in {medium}
                     \cup (IF step = "prepare" THEN {Prepared} ELSE {})
                     \cup (IF step = "program" THEN {new} ELSE {})
    /\ step' = "idle"
    /\ failed' = FALSE
    /\ lapsed' = IF step = "idle" THEN lapsed ELSE ~guarded
    /\ UNCHANGED guarded
-----------------------------------------------------------------------------
(***************************************************************************)
(* However write() ends, the protection is on again afterwards, unless the *)
(* process was killed in between or the call that puts it back failed; and *)
(* then the next write() that gets through repairs it.                     *)
(***************************************************************************)
ProtectionRestored ==
    step = "idle" /\ HasGuard /\ medium # Absent => guarded \/ lapsed

(***************************************************************************)
(* The section is erased and written only while its protection is off: no  *)
(* write() goes on after it failed to lift it.                             *)
(***************************************************************************)
WritesUnprotected ==
    [][medium' # medium /\ HasGuard /\ medium # Absent => ~guarded]_<<deploy, device>>
=============================================================================
