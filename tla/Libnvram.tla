------------------------------ MODULE Libnvram ------------------------------
(***************************************************************************)
(* The part of libnvram that the "v2" format relies on.  The library is a  *)
(* git submodule of the repository, so this module is external: it says    *)
(* what nvram_format_v2.c takes from the library and nothing more.         *)
(*                                                                         *)
(* A section (a file, an MTD partition, an EFI variable) holds a header,   *)
(* with a transaction counter, and a serialized list of attributes.  The   *)
(* bytes are abstracted to an image: what reading the section would give.  *)
(***************************************************************************)
EXTENDS Naturals

CONSTANTS
    Lists,       \* the attribute lists a program may want to store
    EmptyList,   \* the list without attributes
    MaxCounter   \* the largest transaction counter a header can hold

ASSUME EmptyListAssumption == EmptyList \in Lists

ASSUME MaxCounterAssumption == MaxCounter \in Nat /\ MaxCounter > 1

Sections == {"A", "B"}

Other(s) == IF s = "A" THEN "B" ELSE "A"

(***************************************************************************)
(* "blank"      absent, empty or erased: no valid header, and no error     *)
(* "corrupt"    readable, but header or data fail verification             *)
(* "unreadable" reading it is an I/O error: the data announced by a valid  *)
(*              header is not there, or the EFI variable has no attributes *)
(* "full"       header and data verify: LIBNVRAM_STATE_ALL_VERIFIED        *)
(***************************************************************************)
ImageStates == {"blank", "corrupt", "unreadable", "full"}

Images == [state : ImageStates, counter : 0..MaxCounter, list : Lists]

NoData(st) == [state |-> st, counter |-> 0, list |-> EmptyList]

Blank == NoData("blank")
Corrupt == NoData("corrupt")
Unreadable == NoData("unreadable")

Full(c, l) == [state |-> "full", counter |-> c, list |-> l]

Verified(bufs) == {s \in Sections : bufs[s].state = "full"}

(***************************************************************************)
(* enum libnvram_active is a bit mask, here the set of its bits: the       *)
(* verified sections that have the largest counter.                        *)
(***************************************************************************)
Active(bufs) ==
    {s \in Verified(bufs) :
        \A t \in Verified(bufs) : bufs[t].counter <= bufs[s].counter}

Transactions == [active : SUBSET Sections, counter : [Sections -> 0..MaxCounter]]

\* libnvram_init_transaction: which sections are active, and their counters
InitTransaction(bufs) ==
    [active  |-> Active(bufs),
     counter |-> [s \in Sections |->
                    IF s \in Verified(bufs) THEN bufs[s].counter ELSE 0]]

(***************************************************************************)
(* libnvram_next_transaction: the operations it may order.  The section    *)
(* written first is one that is not the only active one.  When the counter *)
(* cannot grow it restarts at 1 and both sections must be written          *)
(* (LIBNVRAM_OPERATION_COUNTER_RESET).                                     *)
(***************************************************************************)
Operations == [first : Sections, counter : 1..MaxCounter, reset : BOOLEAN]

FirstWrite == [first |-> "A", counter |-> 1, reset |-> FALSE]

ActiveCounter(trans) == trans.counter[CHOOSE s \in trans.active : TRUE]

NextOps(trans) ==
    IF trans.active = {} THEN {FirstWrite}
    ELSE LET c == ActiveCounter(trans)
         IN  {o \in Operations :
                /\ trans.active # {o.first}
                /\ o.counter = IF c < MaxCounter THEN c + 1 ELSE 1
                /\ o.reset <=> c = MaxCounter}

\* Mutant: the new counter is stored one too large.
UpdateTransaction_increments(trans, op) ==
    LET written == IF op.reset THEN Sections ELSE {op.first}
    IN  [active  |-> written,
         counter |-> [s \in Sections |->
                        IF s \in written THEN op.counter + 1 ELSE trans.counter[s]]]

\* Mutant: the header of the written section keeps its old counter.
UpdateTransaction_keeps_counter(trans, op) ==
    [trans EXCEPT !.active = IF op.reset THEN Sections ELSE {op.first}]

\* libnvram_update_transaction: what op has written is now active
UpdateTransaction(trans, op) ==
    LET written == IF op.reset THEN Sections ELSE {op.first}
    IN  [active  |-> written,
         counter |-> [s \in Sections |->
                        IF s \in written THEN op.counter ELSE trans.counter[s]]]

\* libnvram_deserialize, of the section v2_init picks: A if it is active
Deserialize(bufs) ==
    IF "A" \in Active(bufs) THEN bufs["A"].list
    ELSE IF "B" \in Active(bufs) THEN bufs["B"].list
    ELSE EmptyList
=============================================================================
