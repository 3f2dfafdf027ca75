---------------------------- MODULE FormatLegacy ----------------------------
(***************************************************************************)
(* The "legacy" format (nvram_format_legacy.c): one section, a file or an  *)
(* EFI variable, that holds lines KEY=VALUE.  The text is modelled as a    *)
(* sequence of characters, because all that can go wrong in this format is *)
(* in how a text is read and written; "a" stands for every character that  *)
(* neither the scanner nor the writer treats specially.  A key or a value  *)
(* is without the terminator that append_null_terminator adds at its end;  *)
(* a NUL that the text had within it is an ordinary character to the       *)
(* scanner, and the end of the string to the writer.                       *)
(***************************************************************************)
EXTENDS SectionNames, Naturals, SequencesExt

CONSTANTS
    Texts,        \* what the section may hold when the behaviour starts
    Keys,         \* the keys and values of --set; keys of --del are those
    Values,       \*   of the list
    MaxEntries,   \* bound: the entries of a list that is committed
    Deployments,  \* the ways a store is set up, and what can go wrong
    Bare,         \* an EFI variable without attributes, which has no size
    Damaged       \* what populate_list makes of a text that it refuses

VARIABLES
    deploy,   \* the deployment, which never changes
    medium,   \* the text in the section
    pc,       \* where the session is
    list      \* the list init returned, or the one commit was given

vars == <<deploy, medium, pc, list>>

Newline == "\n"
Nul == "NUL"
Chars == {"a", "=", " ", "\t", Newline, Nul}
Skipped == {" ", "\t", Newline}

Text == Seq(Chars)
Lists == Seq([key : Text, value : Text])
EmptyList == <<>>

(***************************************************************************)
(* a, b   : where the names of the sections A and B come from              *)
(* faults : "io"    a system call or an allocation fails                   *)
(*          "kill"  the process dies                                       *)
(***************************************************************************)
DeploymentSpace ==
    [interface : {"file", "efi"}, a : SectionSources, b : SectionSources,
     faults : SUBSET {"io", "kill"}]

ASSUME DeploymentsAssumption == Deployments \subseteq DeploymentSpace

ASSUME TextsAssumption ==
    Texts \subseteq Text /\ Keys \subseteq Text /\ Values \subseteq Text

ASSUME MarkersAssumption == Bare \notin Text /\ Damaged \notin Lists
-----------------------------------------------------------------------------
(* Reading a text *)

\* The first position of char in buf; 0 stands for NPOS.
find(buf, char) == SelectInSeq(buf, LAMBDA c : c = char)

NoEntry == [size |-> 0]

\* Mutant: the key may contain a newline.
find_entry_joins_lines(buf) ==
    LET eq == find(buf, "=")
        rest == SubSeq(buf, eq + 1, Len(buf))
        end == find(rest, Newline)
    IN  IF eq \in {0, 1} \/ rest = <<>> \/ end = 1
        THEN NoEntry
        ELSE [key   |-> SubSeq(buf, 1, eq - 1),
              value |-> IF end = 0 THEN rest ELSE SubSeq(rest, 1, end - 1),
              size  |-> IF end = 0 THEN Len(buf) ELSE eq + end]

\* find_entry: the entry at the start of buf and what it takes of buf.
find_entry(buf) ==
    LET eq == find(buf, "=")
        key == SubSeq(buf, 1, eq - 1)
        rest == SubSeq(buf, eq + 1, Len(buf))
        end == find(rest, Newline)
    IN  IF eq \in {0, 1} \/ find(key, Newline) # 0 \/ rest = <<>> \/ end = 1
        THEN NoEntry
        ELSE [key   |-> key,
              value |-> IF end = 0 THEN rest ELSE SubSeq(rest, 1, end - 1),
              size  |-> IF end = 0 THEN Len(buf) ELSE eq + end]

Index(l, key) == SelectInSeq(l, LAMBDA e : e.key = key)

\* libnvram_list_set: replaces the entry with this key, or appends one.
list_set(l, e) ==
    IF Index(l, e.key) = 0 THEN Append(l, e) ELSE ReplaceAt(l, Index(l, e.key), e)

\* The loop of populate_list: what it makes of buf when the list so far is l.
scan[buf \in Text] ==
    [l \in Lists |->
        IF buf = <<>> THEN l
        ELSE IF Head(buf) \in Skipped THEN scan[Tail(buf)][l]
        ELSE LET e == find_entry(buf)
             IN  IF e = NoEntry THEN Damaged
                 ELSE scan[SubSeq(buf, e.size + 1, Len(buf))]
                          [list_set(l, [key |-> e.key, value |-> e.value])]]

populate_list(buf) == scan[buf][EmptyList]

Content(text) == IF text = Bare THEN Damaged ELSE populate_list(text)
-----------------------------------------------------------------------------
(* Writing a text *)

\* Mutant: values may not contain "=" either.
Refused_strict(l) ==
    \E e \in ToSet(l) :
        \/ find(e.key, "=") # 0 \/ find(e.value, "=") # 0
        \/ find(e.key, Newline) # 0 \/ find(e.value, Newline) # 0

\* legacy_commit: the lists it does not accept.
Refused(l) ==
    \E e \in ToSet(l) :
        \/ find(e.key, "=") # 0
        \/ find(e.key, Newline) # 0
        \/ find(e.value, Newline) # 0

NulFree(s) == find(s, Nul) = 0

\* The arguments of a program are strings: no NUL is part of them.
ASSUME ArgumentsAssumption == \A s \in Keys \cup Values : NulFree(s)

\* What "%s" prints of a string: the characters before its first NUL.
Printed(s) == IF NulFree(s) THEN s ELSE SubSeq(s, 1, find(s, Nul) - 1)

Row(e) == Printed(e.key) \o <<"=">> \o Printed(e.value) \o <<Newline>>

Serialize(l) == FlattenSeq([i \in DOMAIN l |-> Row(l[i])])
-----------------------------------------------------------------------------
(* The section after each stage of write(), and of one that went wrong *)

\* An EFI variable without text may not exist yet: opening it creates it.
Prepared(text) ==
    IF deploy.interface = "file" THEN {<<>>}
    ELSE IF text = <<>> THEN {<<>>, Bare}
    ELSE {text}

\* write(2) of a file may stop anywhere; that of a variable may not.
PartlyProgrammed(old, text) ==
    IF deploy.interface = "file" THEN {<<>>} \cup (Prefixes(text) \ {text}) ELSE {old}
-----------------------------------------------------------------------------
TypeOK ==
    /\ deploy \in Deployments
    /\ medium \in Text \cup {Bare}
    /\ pc \in {"closed", "open", "prepare", "program", "committed", "failed"}
    /\ list \in Lists

Init ==
    /\ deploy \in Deployments
    /\ medium \in Texts
    /\ pc = "closed"
    /\ list = EmptyList

\* Mutant: what populate_list returns is not checked.
Openable_unchecked == SingleSection(deploy.a, deploy.b)

Openable == SingleSection(deploy.a, deploy.b) /\ Content(medium) # Damaged

legacy_init ==
    /\ pc = "closed"
    /\ Openable
    /\ pc' = "open"
    /\ list' = Content(medium)
    /\ UNCHANGED <<deploy, medium>>

legacy_init_fails ==
    /\ pc = "closed"
    /\ ~Openable \/ "io" \in deploy.faults
    /\ pc' = "failed"
    /\ UNCHANGED <<deploy, medium, list>>

\* What main hands to commit: the list of the session with one change.
Edits ==
    {l \in {list_set(list, [key |-> k, value |-> v]) : k \in Keys, v \in Values}
               \cup {RemoveAt(list, i) : i \in DOMAIN list} :
        Len(l) <= MaxEntries}

legacy_commit(l) ==
    /\ pc \in {"open", "committed"}
    /\ ~Refused(l)
    /\ pc' = "prepare"
    /\ list' = l
    /\ UNCHANGED <<deploy, medium>>

legacy_commit_refused(l) ==
    /\ pc \in {"open", "committed"}
    /\ Refused(l) \/ "io" \in deploy.faults
    /\ pc' = "failed"
    /\ UNCHANGED <<deploy, medium, list>>

Prepare ==
    /\ pc = "prepare"
    /\ pc' = "program"
    /\ medium' \in Prepared(medium)
    /\ UNCHANGED <<deploy, list>>

PrepareFails ==
    /\ pc = "prepare"
    /\ "io" \in deploy.faults
    /\ pc' = "failed"
    /\ medium' \in {medium} \cup Prepared(medium)
    /\ UNCHANGED <<deploy, list>>

Program ==
    /\ pc = "program"
    /\ pc' = "committed"
    /\ medium' = Serialize(list)
    /\ UNCHANGED <<deploy, list>>

\* Mutant: a short write(2) is taken for a success.
ProgramFails_unnoticed ==
    /\ pc = "program"
    /\ "io" \in deploy.faults
    /\ pc' = "committed"
    /\ medium' \in PartlyProgrammed(medium, Serialize(list))
    /\ UNCHANGED <<deploy, list>>

ProgramFails ==
    /\ pc = "program"
    /\ "io" \in deploy.faults
    /\ pc' = "failed"
    /\ medium' \in PartlyProgrammed(medium, Serialize(list))
    /\ UNCHANGED <<deploy, list>>

legacy_close ==
    /\ pc \in {"open", "committed", "failed"}
    /\ pc' = "closed"
    /\ list' = EmptyList
    /\ UNCHANGED <<deploy, medium>>

\* What a write leaves when the process dies in it.
Interrupted ==
    CASE pc = "prepare" -> {medium} \cup Prepared(medium)
      [] pc = "program" -> {medium, Serialize(list)}
                               \cup PartlyProgrammed(medium, Serialize(list))
      [] OTHER -> {medium}

Kill ==
    /\ pc # "closed"
    /\ "kill" \in deploy.faults
    /\ medium' \in Interrupted
    /\ pc' = "closed"
    /\ list' = EmptyList
    /\ UNCHANGED deploy

Next ==
    \/ legacy_init
    \/ legacy_init_fails
    \/ \E l \in Edits : legacy_commit(l) \/ legacy_commit_refused(l)
    \/ Prepare
    \/ PrepareFails
    \/ Program
    \/ ProgramFails
    \/ legacy_close
    \/ Kill

Spec == Init /\ [][Next]_vars
-----------------------------------------------------------------------------
(* Properties *)

LineStarts(t) == {i \in DOMAIN t : i = 1 \/ t[i - 1] = Newline}

\* The line that starts at i, from its first character that is not blank.
Line(t, i) ==
    LET end == CHOOSE j \in i..Len(t) + 1 :
                 /\ j = Len(t) + 1 \/ t[j] = Newline
                 /\ \A k \in i..j - 1 : t[k] # Newline
        begin == CHOOSE j \in i..end :
                   /\ j = end \/ t[j] \notin Skipped
                   /\ \A k \in i..j - 1 : t[k] \in Skipped
    IN  SubSeq(t, begin, end - 1)

\* The key and the value of a line, split at its first "=".
Splits(line) ==
    {e \in {[key |-> SubSeq(line, 1, k - 1), value |-> SubSeq(line, k + 1, Len(line))] :
               k \in {j \in DOMAIN line : line[j] = "="}} :
        e.key # <<>> /\ e.value # <<>> /\ "=" \notin ToSet(e.key)}

(***************************************************************************)
(* The scanner, which works by positions and skips blanks and newlines     *)
(* alike, reads exactly the grammar that the documentation describes by    *)
(* lines: every line that is not blank is a key, "=" and a value, neither  *)
(* of them empty, and the last line with a key decides its value.          *)
(***************************************************************************)
ScanIsLineWise ==
    medium # Bare =>
        LET lines == {i \in LineStarts(medium) : Line(medium, i) # <<>>}
            entries(i) == Splits(Line(medium, i))
            read == populate_list(medium)
        IN  /\ read = Damaged <=> \E i \in lines : entries(i) = {}
            /\ read # Damaged =>
                 ToSet(read) = {e \in UNION {entries(i) : i \in lines} :
                                  \E i \in lines :
                                    /\ e \in entries(i)
                                    /\ \A j \in lines, f \in entries(i) :
                                         j > i => \A g \in entries(j) : g.key # f.key}

\* The list as it is printed, every key and value up to its first NUL.
PrintedList(l) ==
    [i \in DOMAIN l |-> [key |-> Printed(l[i].key), value |-> Printed(l[i].value)]]

\* The NULs within l do not begin a key or a value, nor make two keys the same.
PrintsApart(l) ==
    \A i, j \in DOMAIN l :
        /\ Printed(l[i].key) # <<>> /\ Printed(l[i].value) # <<>>
        /\ Printed(l[i].key) = Printed(l[j].key) => i = j

(***************************************************************************)
(* Whatever text init accepted, its list can be committed again, and reads *)
(* back as it was, except that a key or a value with a NUL in it ends      *)
(* there: a change to one attribute does not lose another one, unless NULs *)
(* leave nothing of a key or a value, or the same of two keys.             *)
(***************************************************************************)
RewriteKeepsList ==
    LET read == Content(medium)
    IN  read # Damaged =>
            /\ ~Refused(read)
            /\ PrintsApart(read) => populate_list(Serialize(read)) = PrintedList(read)

(***************************************************************************)
(* nvram_format.h: commit returns 0 for success.  A committed list is what *)
(* the next init will return.                                              *)
(***************************************************************************)
CommittedIsRead == pc = "committed" => Content(medium) = list

\* The entries of l before the n-th, and that one with the value v.
CutAt(l, n, v) == SubSeq(l, 1, n - 1) \o <<[key |-> l[n].key, value |-> v]>>

\* What the next init makes of a text that ends within the rows of l.
TornList(l) ==
    {Damaged} \cup {SubSeq(l, 1, n) : n \in 0..Len(l)}
        \cup UNION {{CutAt(l, n, v) : v \in Prefixes(l[n].value) \ {<<>>}} : n \in DOMAIN l}

PlainEntry(e) == NulFree(e.key) /\ NulFree(e.value)

Plain(l) == \A i \in 1..Len(l) : PlainEntry(l[i])

\* Neither what is stored nor the list of the session has a NUL in it.
PlainState ==
    /\ Content(medium) # Damaged => Plain(Content(medium))
    /\ Plain(list)

Store == INSTANCE NvramStore WITH
            Damage <- {Damaged},
            Torn   <- TornList,
            stored <- Content(medium),
            pc     <- IF pc \in {"prepare", "program"} THEN "commit" ELSE pc

(***************************************************************************)
(* With keys and values that the format can hold, it does what NvramStore  *)
(* promises as long as there are no NULs, and it adds none: a commit that  *)
(* fails or is cut short leaves no more than a part of the new list, with  *)
(* a value cut short at most, or a text that init refuses.                 *)
(***************************************************************************)
LegacyStore ==
    /\ Store!Init
    /\ [][PlainState => Store!Next /\ PlainState']_(Store!vars)
=============================================================================
