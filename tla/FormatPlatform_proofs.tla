----------------------- MODULE FormatPlatform_proofs ------------------------
(***************************************************************************)
(* Theorems about FormatPlatform, for all fields, integer widths, texts    *)
(* and deployments.                                                        *)
(***************************************************************************)
EXTENDS FormatPlatform, TLAPS

-----------------------------------------------------------------------------
(* Numbers, headers and lists *)

LEMMA UlongMax ==
    ASSUME deploy \in Deployments
    PROVE  deploy.ulong_max \in {Max32, Max64}
BY DeploymentsAssumption DEF DeploymentSpace

LEMMA StrtoulType ==
    ASSUME NEW t \in Texts, NEW max \in {Max32, Max64}
    PROVE  strtoul(t, max) \in 0..max
BY NumbersAssumption DEF strtoul, Texts

\* Arithmetic on the width of a field, apart from everything else.
LEMMA ModWidth ==
    ASSUME NEW n \in Nat
    PROVE  /\ n % (Max32 + 1) \in 0..Max32
           /\ n <= Max32 => n % (Max32 + 1) = n
<1>1. Max32 \in Nat
  BY NumbersAssumption
<1> QED
  BY <1>1

LEMMA ValueType ==
    ASSUME deploy \in Deployments, NEW t \in Texts, NEW f \in NumberFields
    PROVE  /\ value_to_header(f, t) \in 0..Max64
           /\ f \in U32Fields => value_to_header(f, t) <= Max32
<1>1. CASE f \in U32Fields
  <2>1. strtoul(t, deploy.ulong_max) \in Nat
    BY UlongMax, StrtoulType, NumbersAssumption
  <2>2. value_to_header(f, t) \in 0..Max32
    BY <1>1, <2>1, ModWidth DEF value_to_header
  <2> QED
    BY <2>2, NumbersAssumption
<1>2. CASE f \notin U32Fields
  BY <1>2, StrtoulType DEF value_to_header
<1> QED
  BY <1>1, <1>2

LEMMA HeaderType ==
    ASSUME deploy \in Deployments, NEW l \in Lists, ~list_refused(l, FALSE)
    PROVE  list_to_header(l) \in Headers /\ Valid(list_to_header(l))
<1> DEFINE h == list_to_header(l)
<1>1. \A k \in DOMAIN l : l[k] \in Texts
  BY DEF Lists
<1>2. h.name \in Names
  BY <1>1, NumbersAssumption
  DEF list_to_header, list_refused, value_refused, Names, Fields, EmptyText, Texts, Forms
<1>3. \A f \in NumberFields :
        /\ h.number[f] \in 0..Max64
        /\ f \in U32Fields => h.number[f] <= Max32
  BY <1>1, ValueType, NumbersAssumption DEF list_to_header
<1>4. h.number \in [NumberFields -> 0..Max64]
  BY <1>3 DEF list_to_header
<1>5. h \in Headers
  BY <1>2, <1>4 DEF list_to_header, Headers, HEADER_VERSION
<1> QED
  BY <1>3, <1>5 DEF Valid, NumberFields

LEMMA ListType ==
    ASSUME NEW h \in Headers
    PROVE  header_to_list(h) \in Lists
<1>1. \A f \in Fields : value_to_list(h, f) \in Texts
  BY NumbersAssumption DEF value_to_list, Headers, Names, Texts, Forms, Fields
<1>2. header_to_list(h) \in [Fields -> Texts]
  BY <1>1 DEF header_to_list
<1> QED
  BY <1>2, FieldsAssumption DEF Lists

LEMMA EmptyListType == EmptyList \in Lists
BY DEF EmptyList, Lists

LEMMA ContentType ==
    ASSUME TypeOK
    PROVE  Content(medium) \in Lists \cup {Damaged}
BY ListType, EmptyListType DEF TypeOK, Content

LEMMA EditsType ==
    ASSUME TypeOK, NEW l \in Edits
    PROVE  l \in Lists
<1>1. list \in [DOMAIN list -> Texts] /\ DOMAIN list \subseteq Keys
  BY DEF TypeOK, Lists
<1>2. CASE \E k \in Keys, t \in SetTexts : l = Set(list, k, t)
  <2>1. PICK k \in Keys, t \in SetTexts : l = Set(list, k, t)
    BY <1>2
  <2>2. l \in [DOMAIN list \cup {k} -> Texts]
    BY <1>1, <2>1, SetTextsAssumption DEF Set
  <2> QED
    BY <1>1, <2>2 DEF Lists
<1>3. CASE \E k \in Keys : l = Delete(list, k)
  <2>1. PICK k \in Keys : l = Delete(list, k)
    BY <1>3
  <2>2. l \in [DOMAIN list \ {k} -> Texts]
    BY <1>1, <2>1 DEF Delete
  <2> QED
    BY <1>1, <2>2 DEF Lists
<1> QED
  BY <1>2, <1>3 DEF Edits

\* The stale errno makes commit refuse more, never less.
LEMMA ErrnoRefusesMore ==
    ASSUME NEW l, NEW erange \in BOOLEAN, ~list_refused(l, erange)
    PROVE  ~list_refused(l, FALSE)
BY DEF list_refused, value_refused

(***************************************************************************)
(* A number printed as value_to_list prints it is read as that number, if  *)
(* the build can hold it.                                                  *)
(***************************************************************************)
LEMMA HexKept ==
    ASSUME NEW n \in Nat, NEW max \in Nat, n <= max
    PROVE  /\ strtoul([form |-> "hex", number |-> n], max) = n
           /\ ~OutOfRange([form |-> "hex", number |-> n], max)
<1> DEFINE t == [form |-> "hex", number |-> n]
<1>1. t.form = "hex" /\ t.number = n /\ "hex" \notin NotANumber
  BY DEF NotANumber
<1> HIDE DEF t
<1>2. strtoul(t, max) = n /\ ~OutOfRange(t, max)
  BY <1>1 DEF strtoul, OutOfRange
<1> QED
  BY <1>2 DEF t

(***************************************************************************)
(* What value_to_list prints is accepted again and is the same value.      *)
(***************************************************************************)
LEMMA RoundTrip ==
    ASSUME deploy \in Deployments, NEW h \in Headers, Valid(h), h.version = HEADER_VERSION
    PROVE  ~list_refused(header_to_list(h), FALSE) /\ list_to_header(header_to_list(h)) = h
<1> DEFINE l == header_to_list(h)
<1>1. DOMAIN l = Fields /\ \A f \in Fields : l[f] = value_to_list(h, f)
  BY DEF header_to_list
<1>2. h.name \in Names /\ h.number \in [NumberFields -> 0..Max64]
  BY DEF Headers
<1>3. \A f \in NumberFields : l[f] = [form |-> "hex", number |-> h.number[f]]
  BY <1>1, FieldsAssumption DEF Fields, value_to_list
<1>4. l["name"] = h.name
  BY <1>1 DEF Fields, value_to_list
<1>5. ASSUME NEW f \in NumberFields
      PROVE  ~value_refused(f, l[f], FALSE) /\ value_to_header(f, l[f]) = h.number[f]
  <2>1. h.number[f] \in 0..Max64 /\ f # "name"
    BY <1>2, FieldsAssumption
  <2>2. CASE f \in U32Fields
    <3>1. h.number[f] <= Max32 /\ h.number[f] <= deploy.ulong_max
      BY <2>1, <2>2, UlongMax, NumbersAssumption DEF Valid
    <3>2. /\ strtoul(l[f], deploy.ulong_max) = h.number[f]
          /\ ~OutOfRange(l[f], deploy.ulong_max)
      <4>1. deploy.ulong_max \in Nat /\ h.number[f] \in Nat
        BY <2>1, UlongMax, NumbersAssumption
      <4>2. l[f] = [form |-> "hex", number |-> h.number[f]]
        BY <1>3
      <4> HIDE DEF l
      <4> QED
        BY <3>1, <4>1, <4>2, HexKept
    <3>3. ~value_refused(f, l[f], FALSE)
      BY <2>1, <2>2, <3>1, <3>2, NumbersAssumption DEF value_refused
    <3>4. value_to_header(f, l[f]) = h.number[f]
      BY <2>1, <2>2, <3>1, <3>2, ModWidth DEF value_to_header
    <3> QED
      BY <3>3, <3>4
  <2>3. CASE f \notin U32Fields
    <3>1. strtoul(l[f], Max64) = h.number[f] /\ ~OutOfRange(l[f], Max64)
      <4>1. Max64 \in Nat /\ h.number[f] \in Nat /\ h.number[f] <= Max64
        BY <2>1, NumbersAssumption
      <4>2. l[f] = [form |-> "hex", number |-> h.number[f]]
        BY <1>3
      <4> HIDE DEF l
      <4> QED
        BY <4>1, <4>2, HexKept
    <3> QED
      BY <2>1, <2>3, <3>1 DEF value_refused, value_to_header
  <2> QED
    BY <2>2, <2>3
<1>6. ~list_refused(l, FALSE)
  BY <1>1, <1>2, <1>4, <1>5 DEF list_refused, Fields, value_refused, Names
<1>7. list_to_header(l).number = h.number
  BY <1>1, <1>2, <1>5 DEF list_to_header, Fields
<1>8. list_to_header(l) = h
  BY <1>1, <1>4, <1>7 DEF list_to_header, Headers, Fields, HEADER_VERSION
<1> QED
  BY <1>6, <1>8

(***************************************************************************)
(* A plain number that is not refused is stored as it is.                  *)
(***************************************************************************)
LEMMA PlainNumbersKept ==
    ASSUME deploy \in Deployments, NEW f \in NumberFields, NEW t \in Texts,
           t.form \in Plain, ~value_refused(f, t, FALSE)
    PROVE  value_to_header(f, t) = t.number
<1>1. t.form \notin NotANumber /\ t.form # "negative" /\ t.number \in Nat /\ f # "name"
  BY FieldsAssumption DEF Plain, NotANumber, Texts
<1>2. CASE f \in U32Fields
  <2> DEFINE max == deploy.ulong_max
  <2>1. max \in {Max32, Max64} /\ max \in Nat
    BY UlongMax, NumbersAssumption
  <2>2. ~(strtoul(t, max) = max /\ OutOfRange(t, max)) /\ ~(strtoul(t, max) > Max32)
    BY <1>1, <1>2 DEF value_refused
  <2>3. ~(t.number > max)
    BY <1>1, <2>1, <2>2 DEF strtoul, OutOfRange
  <2>4. strtoul(t, max) = t.number
    BY <1>1, <2>1, <2>3 DEF strtoul
  <2> QED
    BY <1>1, <1>2, <2>2, <2>4, ModWidth, NumbersAssumption DEF value_to_header
<1>3. CASE f \notin U32Fields
  <2>1. ~(strtoul(t, Max64) = Max64 /\ OutOfRange(t, Max64))
    BY <1>1, <1>3 DEF value_refused
  <2>2. strtoul(t, Max64) = t.number
    BY <1>1, <2>1, NumbersAssumption DEF strtoul, OutOfRange
  <2> QED
    BY <1>3, <2>2 DEF value_to_header
<1> QED
  BY <1>2, <1>3
-----------------------------------------------------------------------------
(* The inductive invariant *)

LEMMA InvInit ==
    ASSUME Init
    PROVE  PlatformInv
<1>1. TypeOK
  BY EmptyListType DEF Init, DeviceInit, Media, TypeOK, Steps
<1>2. GuardInv
  BY DEF Init, DeviceInit, GuardInv, HasGuard
<1> QED
  BY <1>1, <1>2 DEF Init, DeviceInit, PlatformInv, WriteMatches, ListAccepted, ListRead

\* The header being written is one that the store may hold.
LEMMA NewHeader ==
    ASSUME PlatformInv, pc = "write"
    PROVE  /\ list_to_header(list) \in Headers
           /\ Valid(list_to_header(list))
           /\ list_to_header(list) \notin {Absent, Erased, Bare}
BY HeaderType, MediaAssumption DEF PlatformInv, TypeOK, ListAccepted

\* What a call of write() leaves when it leaves the section alone.
LEMMA WriteKeepsMedium ==
    ASSUME PlatformInv, pc = "write", UNCHANGED <<deploy, pc, list, medium>>,
           step' \in Steps \ {"idle"}, failed' \in BOOLEAN, guarded' \in BOOLEAN,
           lapsed' \in BOOLEAN, ~failed' => step' \notin {"protect", "done"} \/ step = "protect",
           ~failed' => ~failed,
           GuardInv'
    PROVE  PlatformInv'
<1>1. TypeOK'
  BY DEF PlatformInv, TypeOK, Valid
<1>2. WriteMatches'
  BY DEF PlatformInv, WriteMatches, list_to_header, value_to_header
<1>3. ListAccepted' /\ ListRead'
  BY DEF PlatformInv, ListAccepted, ListRead, list_refused, value_refused
<1> QED
  BY <1>1, <1>2, <1>3 DEF PlatformInv

LEMMA WriteInv ==
    ASSUME PlatformInv, Write
    PROVE  PlatformInv'
<1> USE DEF Write
<1>1. CASE OpenFails
  <2>1. GuardInv'
    BY <1>1 DEF OpenFails, FirstStep, GuardInv, HasGuard, PlatformInv
  <2> QED
    BY <1>1, <2>1, WriteKeepsMedium DEF OpenFails, Steps, PlatformInv, TypeOK
<1>2. CASE Unprotect
  <2>1. GuardInv'
    BY <1>2 DEF Unprotect, GuardInv, HasGuard, PlatformInv
  <2> QED
    BY <1>2, <2>1, WriteKeepsMedium DEF Unprotect, Steps, PlatformInv, TypeOK
<1>3. CASE UnprotectFails
  <2>1. GuardInv'
    BY <1>3 DEF UnprotectFails, GuardInv, HasGuard, PlatformInv
  <2> QED
    BY <1>3, <2>1, WriteKeepsMedium DEF UnprotectFails, Steps, PlatformInv, TypeOK
<1>4. CASE Prepare
  <2>1. Prepared \notin {Absent} /\ (Prepared = Bare => deploy.interface = "efi")
    BY MediaAssumption DEF Prepared
  <2>2. GuardInv'
    BY <1>4, <2>1 DEF Prepare, GuardInv, HasGuard, PlatformInv
  <2>3. TypeOK'
    BY <1>4, <2>1 DEF Prepare, Prepared, PlatformInv, TypeOK, Steps, Valid
  <2>4. WriteMatches' /\ ListAccepted' /\ ListRead'
    BY <1>4 DEF Prepare, PlatformInv, WriteMatches, ListAccepted, ListRead,
                list_refused, value_refused
  <2> QED
    BY <2>2, <2>3, <2>4 DEF PlatformInv
<1>5. CASE PrepareFails
  <2>1. Prepared \notin {Absent} /\ (Prepared = Bare => deploy.interface = "efi")
    BY MediaAssumption DEF Prepared
  <2>2. GuardInv'
    BY <1>5, <2>1 DEF PrepareFails, LastStep, GuardInv, HasGuard, PlatformInv
  <2>3. TypeOK'
    BY <1>5, <2>1 DEF PrepareFails, LastStep, Prepared, PlatformInv, TypeOK, Steps, Valid
  <2>4. WriteMatches' /\ ListAccepted' /\ ListRead'
    BY <1>5 DEF PrepareFails, LastStep, PlatformInv, WriteMatches, ListAccepted, ListRead,
                list_refused, value_refused
  <2> QED
    BY <2>2, <2>3, <2>4 DEF PlatformInv
<1>6. CASE Program(list_to_header(list))
  <2>1. GuardInv'
    BY <1>6, NewHeader DEF Program, LastStep, GuardInv, HasGuard, PlatformInv
  <2>2. TypeOK'
    BY <1>6, NewHeader DEF Program, LastStep, PlatformInv, TypeOK, Steps, Valid
  <2>3. WriteMatches' /\ ListAccepted' /\ ListRead'
    BY <1>6 DEF Program, LastStep, PlatformInv, WriteMatches, ListAccepted, ListRead,
                list_refused, value_refused, list_to_header, value_to_header
  <2> QED
    BY <2>1, <2>2, <2>3 DEF PlatformInv
<1>7. CASE ProgramFails
  <2>1. GuardInv'
    BY <1>7 DEF ProgramFails, LastStep, GuardInv, HasGuard, PlatformInv
  <2> QED
    BY <1>7, <2>1, WriteKeepsMedium DEF ProgramFails, LastStep, Steps, PlatformInv, TypeOK
<1>8. CASE Protect
  <2>1. GuardInv'
    BY <1>8 DEF Protect, GuardInv, HasGuard, PlatformInv
  <2> QED
    BY <1>8, <2>1, WriteKeepsMedium DEF Protect, Steps, PlatformInv, TypeOK
<1>9. CASE ProtectFails
  <2>1. GuardInv'
    BY <1>9 DEF ProtectFails, GuardInv, HasGuard, PlatformInv
  <2> QED
    BY <1>9, <2>1, WriteKeepsMedium DEF ProtectFails, Steps, PlatformInv, TypeOK
<1> QED
  BY <1>1, <1>2, <1>3, <1>4, <1>5, <1>6, <1>7, <1>8, <1>9 DEF WriteStep

LEMMA KillInv ==
    ASSUME PlatformInv, Kill
    PROVE  PlatformInv'
<1>1. medium' # medium => pc = "write"
  BY DEF Kill, Cut, PlatformInv, WriteMatches
<1>2. TypeOK'
  <2>1. CASE medium' = medium
    BY <2>1, EmptyListType DEF Kill, Cut, PlatformInv, TypeOK, Steps, Valid
  <2>2. CASE step = "prepare" /\ medium' = Prepared
    BY <2>2, EmptyListType, MediaAssumption
    DEF Kill, Cut, Prepared, PlatformInv, TypeOK, Steps, Valid
  <2>3. CASE step = "program" /\ medium' = list_to_header(list)
    <3>1. pc = "write"
      BY <2>3 DEF PlatformInv, WriteMatches
    <3> QED
      BY <2>3, <3>1, NewHeader, EmptyListType DEF Kill, Cut, PlatformInv, TypeOK, Steps, Valid
  <2> QED
    BY <2>1, <2>2, <2>3 DEF Kill, Cut
<1>3. GuardInv'
  <2>1. CASE medium' = medium
    BY <2>1 DEF Kill, Cut, PlatformInv, GuardInv, HasGuard, TypeOK
  <2>2. CASE medium' # medium
    BY <2>2 DEF Kill, Cut, PlatformInv, GuardInv, HasGuard, TypeOK
  <2> QED
    BY <2>1, <2>2
<1> QED
  BY <1>2, <1>3 DEF Kill, Cut, PlatformInv, WriteMatches, ListAccepted, ListRead

LEMMA InvNext ==
    ASSUME PlatformInv, [Next]_vars
    PROVE  PlatformInv'
<1>1. CASE platform_init
  <2>1. Content(medium) \in Lists
    BY <1>1, ContentType DEF platform_init, Openable, PlatformInv
  <2>2. TypeOK'
    BY <1>1, <2>1 DEF platform_init, device, PlatformInv, TypeOK, Valid
  <2>3. WriteMatches' /\ ListAccepted'
    BY <1>1 DEF platform_init, device, PlatformInv, WriteMatches, ListAccepted
  <2>4. ListRead' /\ GuardInv'
    BY <1>1 DEF platform_init, device, PlatformInv, ListRead, GuardInv, HasGuard, Content
  <2> QED
    BY <2>2, <2>3, <2>4 DEF PlatformInv
<1>2. CASE platform_init_fails
  <2>1. TypeOK'
    BY <1>2 DEF platform_init_fails, device, PlatformInv, TypeOK, Valid
  <2> QED
    BY <1>2, <2>1 DEF platform_init_fails, device, PlatformInv, WriteMatches, ListAccepted,
                      ListRead, GuardInv, HasGuard
<1>3. ASSUME NEW l \in Edits, platform_commit(l)
      PROVE  PlatformInv'
  <2>1. l \in Lists /\ ~list_refused(l, FALSE)
    BY <1>3, EditsType, ErrnoRefusesMore DEF platform_commit, Errno, PlatformInv
  <2>2. TypeOK'
    BY <1>3, <2>1 DEF platform_commit, WriteCalled, FirstStep, PlatformInv, TypeOK, Steps, Valid
  <2>3. WriteMatches' /\ ListRead'
    BY <1>3 DEF platform_commit, WriteCalled, FirstStep, WriteMatches, ListRead
  <2>4. ListAccepted'
    BY <1>3, <2>1 DEF platform_commit, ListAccepted, list_refused, value_refused
  <2>5. GuardInv'
    BY <1>3 DEF platform_commit, WriteCalled, FirstStep, PlatformInv, GuardInv, HasGuard,
                WriteMatches
  <2> QED
    BY <2>2, <2>3, <2>4, <2>5 DEF PlatformInv
<1>4. ASSUME NEW l \in Edits, platform_commit_refused(l)
      PROVE  PlatformInv'
  <2>1. TypeOK'
    BY <1>4 DEF platform_commit_refused, device, PlatformInv, TypeOK, Valid
  <2> QED
    BY <1>4, <2>1 DEF platform_commit_refused, device, PlatformInv, WriteMatches,
                      ListAccepted, ListRead, GuardInv, HasGuard
<1>5. CASE Write
  BY <1>5, WriteInv
<1>6. CASE WriteReturns
  <2>1. TypeOK'
    BY <1>6 DEF WriteReturns, PlatformInv, TypeOK, Steps, Valid
  <2>2. WriteMatches'
    BY <1>6 DEF WriteReturns, PlatformInv, WriteMatches, list_to_header, value_to_header
  <2>3. ListAccepted' /\ ListRead'
    BY <1>6 DEF WriteReturns, PlatformInv, ListAccepted, ListRead, list_refused, value_refused
  <2>4. GuardInv'
    BY <1>6 DEF WriteReturns, PlatformInv, GuardInv, HasGuard
  <2> QED
    BY <2>1, <2>2, <2>3, <2>4 DEF PlatformInv
<1>7. CASE platform_close
  <2>1. TypeOK'
    BY <1>7, EmptyListType DEF platform_close, device, PlatformInv, TypeOK, Valid
  <2> QED
    BY <1>7, <2>1 DEF platform_close, device, PlatformInv, WriteMatches, ListAccepted,
                      ListRead, GuardInv, HasGuard
<1>8. CASE Kill
  BY <1>8, KillInv
<1>9. CASE UNCHANGED vars
  <2>1. TypeOK' /\ GuardInv'
    BY <1>9 DEF vars, device, PlatformInv, TypeOK, GuardInv, HasGuard, Valid
  <2>2. WriteMatches'
    BY <1>9 DEF vars, device, PlatformInv, WriteMatches, list_to_header, value_to_header
  <2>3. ListAccepted' /\ ListRead'
    BY <1>9 DEF vars, device, PlatformInv, ListAccepted, ListRead, list_refused,
                value_refused, Content
  <2> QED
    BY <2>1, <2>2, <2>3 DEF PlatformInv
<1> QED
  BY <1>1, <1>2, <1>3, <1>4, <1>5, <1>6, <1>7, <1>8, <1>9 DEF Next
-----------------------------------------------------------------------------
(* The properties *)

\* Every reachable state satisfies the inductive invariant.
THEOREM PlatformInvariant == Spec => []PlatformInv
<1>1. Init => PlatformInv
  BY InvInit
<1>2. PlatformInv /\ [Next]_vars => PlatformInv'
  BY InvNext
<1> QED
  BY <1>1, <1>2, PTL DEF Spec

(***************************************************************************)
(* The section always holds a header whose numbers fit their fields, or    *)
(* one of the things that are no header; sessions and write() stay in      *)
(* their states.                                                           *)
(***************************************************************************)
THEOREM PlatformTypeCorrect == Spec => []TypeOK
<1>1. PlatformInv => TypeOK
  BY DEF PlatformInv
<1> QED
  BY <1>1, PlatformInvariant, PTL

(***************************************************************************)
(* What init read can be written back, and gives the same header.          *)
(***************************************************************************)
THEOREM ReadIsWritable == Spec => []HeaderRoundTrip
<1>1. PlatformInv => HeaderRoundTrip
  <2> SUFFICES ASSUME PlatformInv, pc = "open", medium \in Headers
               PROVE  ~list_refused(list, FALSE) /\ list_to_header(list) = medium
    BY DEF HeaderRoundTrip
  <2>1. list = Content(medium) /\ list # Damaged /\ medium \notin {Absent, Erased, Bare}
    BY MediaAssumption DEF PlatformInv, ListRead, TypeOK
  <2>2. medium.version = HEADER_VERSION /\ list = header_to_list(medium)
    BY <2>1 DEF Content, Headers, HEADER_VERSION
  <2>3. deploy \in Deployments /\ Valid(medium)
    BY <2>1 DEF PlatformInv, TypeOK
  <2> QED
    BY <2>2, <2>3, RoundTrip
<1> QED
  BY <1>1, PlatformInvariant, PTL

(***************************************************************************)
(* A commit that returned 0 stored the numbers that it was given.          *)
(***************************************************************************)
THEOREM NumbersAreKept == Spec => []NumbersKept
<1>1. PlatformInv => NumbersKept
  <2> SUFFICES ASSUME PlatformInv, pc = "committed"
               PROVE  /\ medium \in Headers
                      /\ medium.name = IF "name" \in DOMAIN list THEN list["name"]
                                       ELSE EmptyText
                      /\ \A f \in NumberFields :
                           IF f \notin DOMAIN list THEN medium.number[f] = 0
                           ELSE list[f].form \in Plain
                                  => medium.number[f] = list[f].number
    BY DEF NumbersKept
  <2>1. medium = list_to_header(list) /\ ~list_refused(list, FALSE)
    BY DEF PlatformInv, WriteMatches, ListAccepted
  <2>2. deploy \in Deployments /\ list \in Lists
    BY DEF PlatformInv, TypeOK
  <2>3. medium \in Headers
    BY <2>1, <2>2, HeaderType
  <2>4. ASSUME NEW f \in NumberFields, f \in DOMAIN list, list[f].form \in Plain
        PROVE  medium.number[f] = list[f].number
    <3>1. list[f] \in Texts
      BY <2>2, <2>4 DEF Lists
    <3>2. ~value_refused(f, list[f], FALSE)
      BY <2>1, <2>4 DEF list_refused, Fields
    <3>3. value_to_header(f, list[f]) = list[f].number
      BY <2>2, <2>4, <3>1, <3>2, PlainNumbersKept
    <3> QED
      BY <2>1, <2>4, <3>3 DEF list_to_header
  <2> QED
    BY <2>1, <2>3, <2>4 DEF list_to_header
<1> QED
  BY <1>1, PlatformInvariant, PTL

(***************************************************************************)
(* Between two writes the protection of the section is on, unless a        *)
(* process was killed or the call that puts it back failed.                *)
(***************************************************************************)
THEOREM ProtectionIsRestored == Spec => []ProtectionRestored
<1>1. PlatformInv => ProtectionRestored
  BY DEF PlatformInv, GuardInv, ProtectionRestored
<1> QED
  BY <1>1, PlatformInvariant, PTL

(***************************************************************************)
(* No step erases or writes a protected section.                           *)
(***************************************************************************)
THEOREM NoProtectedWrite == Spec => WritesUnprotected
<1> DEFINE Safe == medium' # medium /\ HasGuard /\ medium # Absent => ~guarded
<1>1. ASSUME PlatformInv, [Next]_vars
      PROVE  [Safe]_<<deploy, device>>
  <2> SUFFICES ASSUME medium' # medium
               PROVE  ~guarded
    OBVIOUS
  <2>1. step \in {"prepare", "program"}
    BY <1>1 DEF Next, vars, platform_init, platform_init_fails, platform_commit,
       platform_commit_refused, Write, WriteReturns, platform_close, Kill, device,
       WriteCalled, WriteStep, OpenFails, Unprotect, UnprotectFails, Prepare, PrepareFails,
       Program, ProgramFails, Protect, ProtectFails, Cut
  <2> QED
    BY <1>1, <2>1 DEF PlatformInv, GuardInv
<1> QED
  BY <1>1, PlatformInvariant, PTL DEF Spec, WritesUnprotected
-----------------------------------------------------------------------------
(* The refinement *)

\* The next init reads a header that was written as its canonical list.
LEMMA NewContent ==
    ASSUME deploy \in Deployments, NEW l \in Lists, ~list_refused(l, FALSE)
    PROVE  Content(list_to_header(l)) = Canonical(l) /\ Canonical(l) \in Lists
<1>1. list_to_header(l) \in Headers
  BY HeaderType
<1>2. list_to_header(l).version = HEADER_VERSION
  BY DEF list_to_header
<1>3. Content(list_to_header(l)) = Canonical(l)
  BY <1>1, <1>2, MediaAssumption DEF Content, Canonical, HEADER_VERSION
<1> QED
  BY <1>1, <1>3, ListType DEF Canonical

LEMMA StoreStutters ==
    ASSUME UNCHANGED <<deploy, medium, pc, list>>
    PROVE  UNCHANGED Store!vars
BY DEF Store!vars, Content, Canonical, list_to_header, value_to_header, header_to_list

LEMMA StoreInit ==
    ASSUME Init
    PROVE  Store!Init
<1>1. TypeOK
  BY InvInit DEF PlatformInv
<1>2. Content(medium) \in Store!Contents
  BY <1>1, ContentType DEF Store!Contents
<1> QED
  BY <1>2 DEF Init, Store!Init

\* The section changes while write() runs: to the new header or to no header.
LEMMA StoreTakesEffect ==
    ASSUME PlatformInv, pc = "write", UNCHANGED <<deploy, pc, list>>,
           medium' \in {medium, Prepared, list_to_header(list)}
    PROVE  [Store!Next]_(Store!vars)
<1>1. CASE medium' = medium
  BY <1>1, StoreStutters
<1>2. CASE medium' # medium
  <2>1. Content(medium') \in {Canonical(list)} \cup TornHeader(list)
    <3>1. CASE medium' = list_to_header(list)
      BY <3>1, NewContent DEF PlatformInv, TypeOK, ListAccepted
    <3>2. CASE medium' = Prepared
      BY <1>2, <3>2, MediaAssumption DEF Prepared, Content, TornHeader
    <3> QED
      BY <1>2, <3>1, <3>2
  <2>2. Content(medium)' = Content(medium')
    BY DEF Content
  <2>3. Canonical(list)' = Canonical(list)
    BY DEF Canonical, list_to_header, value_to_header, header_to_list
  <2>4. Store!TakeEffect
    BY <2>1, <2>2, <2>3 DEF Store!TakeEffect, TornHeader
  <2> QED
    BY <2>4 DEF Store!Next
<1> QED
  BY <1>1, <1>2

LEMMA StoreNext ==
    ASSUME PlatformInv, [Next]_vars
    PROVE  [Store!Next]_(Store!vars)
<1>1. TypeOK /\ list \in Lists
  BY DEF PlatformInv, TypeOK
<1>2. CASE platform_init
  <2>1. Content(medium) \in Lists
    BY <1>1, <1>2, ContentType DEF platform_init, Openable
  <2>2. Store!Open
    BY <1>2, <2>1 DEF platform_init, device, Store!Open, Content
  <2> QED
    BY <2>2 DEF Store!Next
<1>3. CASE platform_init_fails
  <2>1. Store!OpenFails
    BY <1>1, <1>3 DEF platform_init_fails, device, Store!OpenFails, Content
  <2> QED
    BY <2>1 DEF Store!Next
<1>4. ASSUME NEW l \in Edits, platform_commit(l)
      PROVE  Store!Next
  <2>1. l \in Lists /\ ~list_refused(l, FALSE)
    BY <1>1, <1>4, EditsType, ErrnoRefusesMore DEF platform_commit, Errno
  <2>2. Canonical(l) \in Lists
    BY <1>1, <2>1, NewContent DEF TypeOK
  <2>3. Canonical(list)' = Canonical(l)
    BY <1>4 DEF platform_commit, Canonical, list_to_header, value_to_header, header_to_list
  <2>4. Store!Commit
    BY <1>4, <2>2, <2>3 DEF platform_commit, WriteCalled, Store!Commit, Content
  <2> QED
    BY <2>4 DEF Store!Next
<1>5. ASSUME NEW l \in Edits, platform_commit_refused(l)
      PROVE  Store!Next
  <2>1. Store!CommitRefused
    BY <1>1, <1>5 DEF platform_commit_refused, device, Store!CommitRefused, Content
  <2> QED
    BY <2>1 DEF Store!Next
<1>6. CASE Write
  <2>1. medium' \in {medium, Prepared, list_to_header(list)}
    BY <1>6 DEF Write, WriteStep, OpenFails, Unprotect, UnprotectFails, Prepare, PrepareFails,
                Program, ProgramFails, Protect, ProtectFails
  <2> QED
    BY <1>6, <2>1, StoreTakesEffect DEF Write
<1>7. CASE WriteReturns
  <2>1. CASE failed
    <3>1. Store!CommitFails
      BY <1>1, <1>7, <2>1 DEF WriteReturns, Store!CommitFails, Content
    <3> QED
      BY <3>1 DEF Store!Next
  <2>2. CASE ~failed
    <3>1. medium = list_to_header(list)
      BY <1>7, <2>2 DEF WriteReturns, PlatformInv, WriteMatches
    <3>2. Content(medium) = Canonical(list)
      BY <1>1, <1>7, <3>1, NewContent DEF WriteReturns, PlatformInv, ListAccepted, TypeOK
    <3>3. UNCHANGED <<deploy, medium, list>> /\ pc = "write" /\ pc' = "committed"
      BY <1>7, <2>2 DEF WriteReturns
    <3>4. Content(medium)' = Content(medium) /\ Canonical(list)' = Canonical(list)
      BY <3>3 DEF Content, Canonical, list_to_header, value_to_header, header_to_list
    <3>5. Store!CommitOk
      BY <3>2, <3>3, <3>4 DEF Store!CommitOk
    <3> QED
      BY <3>5 DEF Store!Next
  <2> QED
    BY <2>1, <2>2
<1>8. CASE platform_close
  <2>1. Store!End
    BY <1>8 DEF platform_close, device, Store!End, Content
  <2> QED
    BY <2>1 DEF Store!Next
<1>9. CASE Kill
  <2>1. pc # "closed" /\ pc' = "closed" /\ list' = EmptyList
    BY <1>9 DEF Kill
  <2>2. CASE medium' = medium
    <3>1. Store!End
      BY <2>1, <2>2 DEF Store!End, Content
    <3> QED
      BY <3>1 DEF Store!Next
  <2>3. CASE medium' # medium
    <3>1. pc = "write" /\ medium' \in {Prepared, list_to_header(list)}
      BY <1>9, <2>3 DEF Kill, Cut, PlatformInv, WriteMatches
    <3>2. Content(medium') \in {Canonical(list)} \cup TornHeader(list)
      <4>1. CASE medium' = list_to_header(list)
        BY <1>1, <3>1, <4>1, NewContent DEF PlatformInv, TypeOK, ListAccepted
      <4>2. CASE medium' = Prepared
        BY <2>3, <4>2, MediaAssumption DEF Prepared, Content, TornHeader
      <4> QED
        BY <3>1, <4>1, <4>2
    <3>3. Content(medium)' = Content(medium')
      BY DEF Content
    <3>4. Store!End
      BY <2>1, <3>1, <3>2, <3>3 DEF Store!End, TornHeader
    <3> QED
      BY <3>4 DEF Store!Next
  <2> QED
    BY <2>2, <2>3
<1>10. CASE UNCHANGED vars
  BY <1>10, StoreStutters DEF vars, device
<1> QED
  BY <1>2, <1>3, <1>4, <1>5, <1>6, <1>7, <1>8, <1>9, <1>10 DEF Next

(***************************************************************************)
(* The platform format does what NvramStore promises: a commit that        *)
(* returned 0 stored its list; any other leaves the old list, the new one, *)
(* no header or, on EFI, an empty variable.                                *)
(***************************************************************************)
THEOREM PlatformImplementsStore == Spec => PlatformStore
<1>1. Init => Store!Init
  BY StoreInit
<1>2. PlatformInv /\ [Next]_vars => [Store!Next]_(Store!vars)
  BY StoreNext
<1> QED
  BY <1>1, <1>2, PlatformInvariant, PTL DEF Spec, PlatformStore, Store!Spec
=============================================================================
