--------------------------- MODULE FormatPlatform ---------------------------
(***************************************************************************)
(* The "platform" format (nvram_format_platform.c): one section with a     *)
(* header of fixed fields, a name and numbers of 32 or 64 bits.  Lists are *)
(* text: init prints every field, commit parses every attribute.  Writing  *)
(* goes through WriteProtect, so that the protection of the section and    *)
(* what a failed or killed commit leaves are part of the model.            *)
(***************************************************************************)
EXTENDS WriteProtect, SectionNames, Integers

CONSTANTS
    U32Fields, U64Fields,   \* the number fields of version_0_fields
    Keys,                   \* the keys of attributes, fields or not
    Max32, Max64,           \* UINT32_MAX and UINT64_MAX
    MaxNumber,              \* bound: the numbers that a text may denote
    SetTexts,               \* the values of --set
    Deployments,            \* how program and store are set up, what can fail
    Damaged                 \* what init makes of a section it refuses

NumberFields == U32Fields \cup U64Fields
Fields == {"name"} \cup NumberFields

ASSUME FieldsAssumption ==
    /\ U32Fields \cap U64Fields = {}
    /\ "name" \notin NumberFields
    /\ Fields \subseteq Keys

ASSUME NumbersAssumption ==
    /\ Max32 \in Nat /\ Max64 \in Nat /\ MaxNumber \in Nat
    /\ 0 < Max32 /\ Max32 <= Max64 /\ Max64 <= MaxNumber

(***************************************************************************)
(* A text is what strtoul and the string field tell apart:                 *)
(* "hex"       0x..., as value_to_list prints it                           *)
(* "decimal"   digits in base 10 or 8                                      *)
(* "trailing"  digits and then something else, which strtoul ignores       *)
(* "negative"  a minus sign and digits                                     *)
(* "word"      no number; word 0 is the empty text                         *)
(* "long"      no number either, and no room for it in the name field      *)
(***************************************************************************)
Forms == {"hex", "decimal", "trailing", "negative", "word", "long"}
Texts == [form : Forms, number : 0..MaxNumber]
Names == {t \in Texts : t.form # "long"}

EmptyText == [form |-> "word", number |-> 0]

ASSUME SetTextsAssumption == SetTexts \subseteq Texts

\* Lists of attributes, whose keys libnvram keeps unique.
Lists == UNION {[S -> Texts] : S \in SUBSET Keys}
EmptyList == [k \in {} |-> EmptyText]

\* Version 1 stands for every version that is newer than the program.
Headers == [version : {0, 1}, name : Names, number : [NumberFields -> 0..Max64]]

Valid(h) == \A f \in U32Fields : h.number[f] <= Max32

\* NVRAM_PLATFORM_VERSION: 0 is the only version that the code can write.
HEADER_VERSION == 0

ASSUME MediaAssumption ==
    /\ Absent \notin Headers /\ Erased \notin Headers /\ Bare \notin Headers
    /\ Absent # Erased /\ Absent # Bare /\ Bare # Erased
    /\ Damaged \notin Lists

(***************************************************************************)
(* gpio         : an MTD partition has a write-protect GPIO                *)
(* ulong_max    : ULONG_MAX of the build                                   *)
(* allow_write  : ALLOW_WRITE of the build                                 *)
(* faults       : "io"      a system call or an allocation fails           *)
(*                "kill"    the process dies                               *)
(*                "erange"  errno may still be ERANGE from before          *)
(***************************************************************************)
DeploymentSpace ==
    [interface : {"file", "mtd", "efi"}, gpio : BOOLEAN,
     a : SectionSources, b : SectionSources,
     ulong_max : {Max32, Max64}, allow_write : BOOLEAN,
     faults : SUBSET {"io", "kill", "erange"}]

ASSUME DeploymentsAssumption == Deployments \subseteq DeploymentSpace

VARIABLES
    pc,     \* where the session is
    list    \* the list init returned, or the one commit was given

vars == <<deploy, device, pc, list>>
-----------------------------------------------------------------------------
(* Numbers *)

NotANumber == {"word", "long"}

\* strtoul and strtoull set errno to ERANGE.
OutOfRange(text, max) == text.form \notin NotANumber /\ text.number > max

strtoul(text, max) ==
    IF text.form \in NotANumber THEN 0
    ELSE IF text.number > max THEN max
    ELSE IF text.form = "negative" /\ text.number > 0 THEN max + 1 - text.number
    ELSE text.number

\* Mutant: the value is not compared with UINT32_MAX.
value_refused_without_max(field, text, erange) ==
    IF field = "name" THEN text.form = "long"
    ELSE LET max == IF field \in U32Fields THEN deploy.ulong_max ELSE Max64
             val == strtoul(text, max)
         IN  val = max /\ (erange \/ OutOfRange(text, max))

\* Mutant: the largest value is taken for an overflow.
value_refused_at_max(field, text, erange) ==
    IF field = "name" THEN text.form = "long"
    ELSE LET max == IF field \in U32Fields THEN deploy.ulong_max ELSE Max64
             val == strtoul(text, max)
         IN  val = max \/ (field \in U32Fields /\ val >= Max32)

\* value_to_header: text that is no number is 0, for endptr is never NULL.
value_refused(field, text, erange) ==
    IF field = "name" THEN text.form = "long"
    ELSE LET max == IF field \in U32Fields THEN deploy.ulong_max ELSE Max64
             val == strtoul(text, max)
         IN  \/ val = max /\ (erange \/ OutOfRange(text, max))
             \/ field \in U32Fields /\ val > Max32

\* The value stored for an attribute: val, cut to the width of the field.
value_to_header(field, text) ==
    IF field \in U32Fields THEN strtoul(text, deploy.ulong_max) % (Max32 + 1)
    ELSE strtoul(text, Max64)

list_refused(l, erange) ==
    \/ ~(DOMAIN l \subseteq Fields)
    \/ \E k \in DOMAIN l \cap Fields : value_refused(k, l[k], erange)

\* list_to_header: a field without attribute is left as memset made it.
list_to_header(l) ==
    [version |-> HEADER_VERSION,
     name    |-> IF "name" \in DOMAIN l THEN l["name"] ELSE EmptyText,
     number  |-> [f \in NumberFields |->
                    IF f \in DOMAIN l THEN value_to_header(f, l[f]) ELSE 0]]

value_to_list(h, field) ==
    IF field = "name" THEN h.name ELSE [form |-> "hex", number |-> h.number[field]]

header_to_list(h) == [f \in Fields |-> value_to_list(h, f)]

\* parse_header refuses what is Absent or Erased: init then returns no list.
Content(m) ==
    IF m = Bare THEN Damaged
    ELSE IF m \in {Absent, Erased} THEN EmptyList
    ELSE IF m.version > HEADER_VERSION THEN Damaged
    ELSE header_to_list(m)
-----------------------------------------------------------------------------
Media == {Absent, Bare, Erased} \cup {h \in Headers : Valid(h)}

TypeOK ==
    /\ deploy \in Deployments
    /\ medium \in {Absent, Bare, Erased} \/ (medium \in Headers /\ Valid(medium))
    /\ medium \in {Absent, Bare} => deploy.interface = "efi"
    /\ step \in Steps
    /\ failed \in BOOLEAN
    /\ guarded \in BOOLEAN
    /\ lapsed \in BOOLEAN
    /\ pc \in {"closed", "open", "write", "committed", "failed"}
    /\ list \in Lists

Init ==
    /\ deploy \in Deployments
    /\ medium \in Media
    /\ medium \in {Absent, Bare} => deploy.interface = "efi"
    /\ DeviceInit
    /\ pc = "closed"
    /\ list = EmptyList

\* Mutant: a header of a newer version is not noticed.
Openable_unchecked == SingleSection(deploy.a, deploy.b)

Openable == SingleSection(deploy.a, deploy.b) /\ Content(medium) # Damaged

platform_init ==
    /\ pc = "closed"
    /\ Openable
    /\ pc' = "open"
    /\ list' = Content(medium)
    /\ UNCHANGED <<deploy, device>>

platform_init_fails ==
    /\ pc = "closed"
    /\ ~Openable \/ "io" \in deploy.faults
    /\ pc' = "failed"
    /\ UNCHANGED <<deploy, device, list>>

Set(l, key, text) ==
    [k \in DOMAIN l \cup {key} |-> IF k = key THEN text ELSE l[k]]

Delete(l, key) == [k \in DOMAIN l \ {key} |-> l[k]]

\* What main hands to commit: the list of the session with one change.
Edits ==
    {Set(list, k, t) : k \in Keys, t \in SetTexts} \cup {Delete(list, k) : k \in Keys}

\* errno when commit is called: nothing resets it.
Errno == {FALSE} \cup (IF "erange" \in deploy.faults THEN {TRUE} ELSE {})

platform_commit(l) ==
    /\ pc \in {"open", "committed"}
    /\ deploy.allow_write
    /\ \E erange \in Errno : ~list_refused(l, erange)
    /\ pc' = "write"
    /\ list' = l
    /\ WriteCalled
    /\ UNCHANGED deploy

\* Nothing was written: writing is not built in, the list does not fit the
\* header, or there is no memory for it.
platform_commit_refused(l) ==
    /\ pc \in {"open", "committed"}
    /\ \/ ~deploy.allow_write
       \/ \E erange \in Errno : list_refused(l, erange)
       \/ "io" \in deploy.faults
    /\ pc' = "failed"
    /\ UNCHANGED <<deploy, device, list>>

Write ==
    /\ pc = "write"
    /\ WriteStep(list_to_header(list))
    /\ UNCHANGED <<deploy, pc, list>>

\* Mutant: the result of write() is lost.
WriteReturns_ok ==
    /\ pc = "write"
    /\ step = "done"
    /\ pc' = "committed"
    /\ step' = "idle"
    /\ failed' = FALSE
    /\ UNCHANGED <<deploy, medium, guarded, lapsed, list>>

WriteReturns ==
    /\ pc = "write"
    /\ step = "done"
    /\ pc' = IF failed THEN "failed" ELSE "committed"
    /\ step' = "idle"
    /\ failed' = FALSE
    /\ UNCHANGED <<deploy, medium, guarded, lapsed, list>>

platform_close ==
    /\ pc \in {"open", "committed", "failed"}
    /\ pc' = "closed"
    /\ list' = EmptyList
    /\ UNCHANGED <<deploy, device>>

Kill ==
    /\ pc # "closed"
    /\ "kill" \in deploy.faults
    /\ Cut(list_to_header(list))
    /\ pc' = "closed"
    /\ list' = EmptyList
    /\ UNCHANGED deploy

Next ==
    \/ platform_init
    \/ platform_init_fails
    \/ \E l \in Edits : platform_commit(l) \/ platform_commit_refused(l)
    \/ Write
    \/ WriteReturns
    \/ platform_close
    \/ Kill

Spec == Init /\ [][Next]_vars
-----------------------------------------------------------------------------
(***************************************************************************)
(* The list that init made of a header is accepted by commit and gives the *)
(* same header again, whatever its values: changing one attribute keeps    *)
(* all the others.                                                         *)
(***************************************************************************)
HeaderRoundTrip ==
    pc = "open" /\ medium \in Headers =>
        ~list_refused(list, FALSE) /\ list_to_header(list) = medium

\* The texts that denote a number of their own.
Plain == {"hex", "decimal"}

(***************************************************************************)
(* After a commit that returned 0 the header has the name and the numbers  *)
(* that the texts of the list denote: a number that does not fit its field *)
(* is refused and never cut to its width.  Attributes that were deleted    *)
(* are 0 or the empty name.                                                *)
(***************************************************************************)
NumbersKept ==
    pc = "committed" =>
        /\ medium \in Headers
        /\ medium.name = IF "name" \in DOMAIN list THEN list["name"] ELSE EmptyText
        /\ \A f \in NumberFields :
             IF f \notin DOMAIN list THEN medium.number[f] = 0
             ELSE list[f].form \in Plain => medium.number[f] = list[f].number

\* The list that the next init makes of a committed list.
Canonical(l) == header_to_list(list_to_header(l))

TornHeader(l) == {EmptyList, Damaged}

(***************************************************************************)
(* The format does what NvramStore promises for lists in the form that     *)
(* init prints.  A commit that fails or is cut short leaves the old header *)
(* or the new one, or no header, which the next init takes for an empty    *)
(* list, or an EFI variable that it refuses.                               *)
(***************************************************************************)
Store == INSTANCE NvramStore WITH
            Damage <- {Damaged},
            Torn   <- TornHeader,
            stored <- Content(medium),
            pc     <- IF pc = "write" THEN "commit" ELSE pc,
            list   <- IF pc \in {"write", "committed"} THEN Canonical(list) ELSE list

PlatformStore == Store!Spec
-----------------------------------------------------------------------------
(***************************************************************************)
(* The inductive invariant behind the properties above.                    *)
(***************************************************************************)
WriteMatches ==
    /\ step # "idle" <=> pc = "write"
    /\ pc = "write" /\ ~failed /\ step \in {"protect", "done"}
          => medium = list_to_header(list)
    /\ pc = "committed" => medium = list_to_header(list)

ListAccepted == pc \in {"write", "committed"} => ~list_refused(list, FALSE)

ListRead == pc = "open" => list = Content(medium)

GuardInv ==
    /\ guarded => HasGuard /\ medium # Absent
    /\ step \in {"idle", "unprotect", "done"} /\ HasGuard /\ medium # Absent
          => guarded \/ lapsed
    /\ step \in {"prepare", "program"} => ~guarded
    /\ step \in {"unprotect", "protect"} => HasGuard

PlatformInv == TypeOK /\ WriteMatches /\ ListAccepted /\ ListRead /\ GuardInv
=============================================================================
