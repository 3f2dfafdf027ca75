----------------------------- MODULE Interface ------------------------------
(***************************************************************************)
(* The storage interfaces (nvram_interface_{file,mtd,efi}.c), as the       *)
(* formats see them: what a section holds after each stage of write(), and *)
(* after a stage that failed or was cut short.  Every write() has the same *)
(* two stages: it prepares the section (truncates the file, erases the     *)
(* partition, opens the variable) and then programs it with one write(2).  *)
(* The file interface also takes a block device, which is a medium of its  *)
(* own: it has a fixed size and O_TRUNC does nothing to it.                *)
(***************************************************************************)
EXTENDS Libnvram

Interfaces == {"file", "block", "mtd", "efi"}

\* A regular file, or a block device, is in the page cache until the kernel
\* writes it back: file_write calls neither fsync nor rename.
PageCached(interface) == interface \in {"file", "block"}

-----------------------------------------------------------------------------
(* Preparing a section *)

\* file_write: open(O_TRUNC) leaves an empty file.
FileTruncated == Blank

\* erase_mtd erases the whole partition; an erase can stop half way.
MtdErased == Blank
MtdPartlyErased == {Blank, Corrupt}

\* efi_write opens without O_TRUNC: a variable stays as it is, and a new one
\* is an empty file, too short for its attributes, which efi_size refuses.
EfiOpened(img) == IF img = Blank THEN Unreadable ELSE img

Prepared(interface, img) ==
    IF interface = "file" THEN FileTruncated
    ELSE IF interface = "block" THEN img
    ELSE IF interface = "mtd" THEN MtdErased
    ELSE EfiOpened(img)

\* After a preparation that failed or was interrupted.
PartlyPrepared(interface, img) ==
    {img, Prepared(interface, img)}
        \cup (IF interface = "mtd" THEN MtdPartlyErased ELSE {})
-----------------------------------------------------------------------------
(* Programming a prepared section *)

\* A file that lost the end of its data still has a valid header, and reading
\* the length that this header announces is a short read.
FileTorn == {Blank, Unreadable}

\* Mutant: the size of a partition is that of the data last written to it.
MtdTorn_written_size(fits) == {Blank, Unreadable}

\* A partition always has its full size: its reads are short only if the list
\* did not fit, for the MTD layer clips the write and the header is in place.
MtdTorn(fits) == {Blank, Corrupt} \cup (IF fits THEN {} ELSE {Unreadable})

\* A block device is overwritten in place, from its header on: the old data is
\* torn too, and what does not fit is announced as it is on a partition.
BlockTorn(img, fits) == {img} \cup MtdTorn(fits)

\* An EFI variable is set by one write, as a whole or not at all.
EfiTorn(img) == {img}

PartlyProgrammed(interface, img, fits) ==
    IF interface = "file" THEN FileTorn
    ELSE IF interface = "block" THEN BlockTorn(img, fits)
    ELSE IF interface = "mtd" THEN MtdTorn(fits)
    ELSE EfiTorn(img)
-----------------------------------------------------------------------------
(* Power loss *)

\* What is on the storage itself, which is not the page cache; an EFI variable
\* exists in the firmware once it has been written.
OnStorage(interface, stable, img) ==
    IF PageCached(interface) \/ (interface = "efi" /\ img = Unreadable)
    THEN stable
    ELSE img

\* A section after a power loss: what was not written back may be torn.
AfterPowerLoss(interface, stable, img) ==
    IF PageCached(interface) /\ stable # img
    THEN {stable, img, Blank, Corrupt}
            \cup (IF interface = "file" THEN FileTorn ELSE {})
    ELSE {stable}
=============================================================================
