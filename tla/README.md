# Verification of nvram

TLA+ models of the `nvram` utility, the TLC runs that check them on small
instances, and the theorems that TLAPS proves for every instance. Paths are
relative to the repository; `v2.c` is short for `src/nvram_format_v2.c`, and so on.

## 1. The system

`nvram` reads or changes lists of key/value attributes. There are two lists,
*system* and *user*. Each is kept in a store, which is one or two *sections*: A and B.

| Component | State it keeps | Operations | Talks to |
|---|---|---|---|
| command line, `main.c` | options, the two lists in memory, the lock's descriptor | parse, validate, lock, init both stores, execute, commit at most one store, release, exit status | all below |
| lock file, `main.c:71-131` | a path, an inode and its `flock` | acquire (10 attempts), release (close, then unlink) | other runs of the program |
| v2 format, `v2.c` | `struct nvram`: a transaction (which section is active, both counters) and two section handles | init, commit, close | libnvram, an interface |
| legacy format | one section of `KEY=VALUE` lines | init, commit, close | an interface |
| platform format | one section with a versioned fixed header | init, commit, close | an interface |
| interfaces file, mtd, efi | the section on the medium (the file interface takes regular files and block devices); a write-protect GPIO (mtd), the immutable flag (efi) | init, size, read, write | the kernel |
| registries, `nvram_format.c`, `nvram_interface.c` | constant tables, the environment | look up by name | - |
| libnvram (a submodule) | - | which section to read, which to write next, (de)serialize | - |

How they interact: `main` takes the lock, calls `init` of the chosen format for
each store it may use, lets the operations change the lists in memory, calls
`commit` of at most one store, and releases the lock. The format calls the
interface once or twice per section. Several runs may be started at any time and
only the lock file stands between them.

What is hard to get right, and what correctness is, by component:

* **v2 format.** A commit overwrites the older of two sections. Each write is
  not atomic (truncate or erase, then program) and can fail or be cut short;
  when the counter reaches its maximum both sections must be rewritten. Correct
  means: commits are all or nothing, the last stored list is never lost, the
  handle in memory never falls behind the medium, and a damaged section does
  not keep the intact one from being read.
* **interfaces.** What an interrupted write leaves depends on the medium, and so
  does what has reached the storage when power goes.
* **lock file.** Runs interleave between any two system calls, the lock is on an
  inode and the name can change under it, runs die while they hold it. Correct
  means: mutual exclusion (which a third run's unlink can break, section 3), no lock-out by
  dead runs, no lock file left without a cause.
* **command line.** A list of operations is all or nothing; the exit status says
  whether it was done; the SYS_ prefix rules decide which store is written.
* **legacy, platform.** What commit accepts, init reads back unchanged; changing one
  attribute keeps the others; a torn section is no more than torn.
* **write protection.** Every way through `write()` lifts the GPIO or the immutable
  flag before it touches the section, and puts it back.

`PROJECT.json` lists each hazard with its line and the properties that cover it.

## 2. Modules

| Module | What it is | Source |
|---|---|---|
| `NvramStore` | abstract: one stored list, sessions that open, commit and end; what a torn commit may leave is a parameter | the contract in `nvram_format.h:10-46` |
| `Libnvram` | external: images of a section, transactions, which section is next | the calls in `v2.c` |
| `Interface` | what the stages of `write()` leave behind, per medium, and what survives a power loss | `nvram_interface_{file,mtd,efi}.c` |
| `FormatV2` | the v2 format on one store, with failures and crashes | `v2.c` |
| `MCFormatV2` | the deployments the TLC runs choose from | - |
| `FormatV2_proofs` | theorems about `FormatV2` | - |
| `SectionNames` | how a section gets its name, and the rule of the formats with one section | `main.c`, `nvram_interface.c`, `nvram_format_{legacy,platform}.c` |
| `FormatLegacy` | the legacy format: scanner, writer, sessions, torn writes | `nvram_format_legacy.c` |
| `MCFormatLegacy` | texts, keys and values of the TLC runs | - |
| `FormatLegacy_proofs` | theorems about `FormatLegacy`: scanner, writer, sessions | - |
| `FormatLegacyLines_proofs` | the theorem that the scanner reads lines | - |
| `DataInduction` | induction and recursion over data, for the proofs | - |
| `WriteProtect` | `write()` call by call, with the protection it lifts and restores | `nvram_interface_{file,mtd,efi}.c` |
| `FormatPlatform` | the platform format: header, fields, numbers, sessions, over `WriteProtect` | `nvram_format_platform.c` |
| `MCFormatPlatform` | the set texts and deployments of the TLC runs | - |
| `FormatPlatform_proofs` | theorems about `FormatPlatform` and `WriteProtect` | - |
| `Lockfile` | acquire and release, system call by system call | `main.c:71-131` |
| `Lockfile_proofs` | theorems about `Lockfile` | - |
| `NvramCli` | `main` for several runs at once, over the lock and both stores | `main.c` |
| `MCNvramCli` | the command lines of the TLC runs | - |
| `NvramCli_proofs` | theorems about `NvramCli` | - |

`FormatV2` extends `Interface`, which extends `Libnvram`; it instantiates
`NvramStore` with a refinement mapping. `NvramCli` extends `Lockfile`, and its two
stores behave as `NvramStore` promises: init returns what is stored, a commit takes
effect at one moment or not at all. So the formats are checked once, against
`NvramStore`, and `main` is checked over what they promise, with one exception: a list
that cannot be serialized is dropped by a commit that returns 0, as `v2_commit` does
(finding 3). Findings 1, 2 and 5 and the NULs of section 3, which are about what later
runs can read, are not part of the stores of `NvramCli`. `FormatLegacy` and
`FormatPlatform` extend `SectionNames`, and the latter `WriteProtect`; both are shown to
implement `NvramStore` with weaker parameters. `Damage` are the contents that no session
can open, `Torn(l)` is what a commit of `l` that fails or is cut short may leave besides
the old list and `l`: nothing for v2, whose commits are all or nothing, a part of the
text for legacy, an empty or refused store for platform.

### FormatV2 and its helpers

*State.* `media` is what reading each section would give, `stable` what is on the
storage itself; they differ only for files and block devices (page cache) and for an EFI variable
that was created and not yet written. An *image* abstracts the bytes of a section
to what `read_section` and libnvram tell apart: `blank` (absent, erased, no valid
header), `corrupt` (readable, not verified), `unreadable` (a read error), or
`full` with a counter and a list. `trans` is `struct nvram`'s transaction, `op`
and `target` are the local variables of `v2_commit`, `list` is the session's list,
`pc` the place in a session. `deploy` is a constant of each behaviour: the
interface, the configured sections, the lists that fit, and the faults that may occur.

*Actions.* `v2_init` and `v2_init_fails` are the two outcomes of init.
`v2_commit(l)` covers commit up to its first write; then each section write is
`Prepare` (truncate, erase, open) and `ProgramFirst` (the first of the two writes
of a counter reset) or `ProgramLast` (the last write, which also updates the
transaction). `PrepareFails` and `ProgramFails` return an error with the section in
any state the failed stage can leave. `v2_commit_not_serialized` and
`v2_commit_without_section` are the two early ways out. `Kill` ends the process
anywhere, leaving any state of an interrupted stage; `Writeback` and `PowerLoss`
are the kernel and the power supply. A power loss in the middle of a commit is a
`Kill` followed by a `PowerLoss`. After an error a session can only be closed, as
in `main`; after a success it may commit again, which `nvram_format.h` allows,
although `main` commits once per run.

libnvram's sources are not in the repository. `NextOps` therefore offers every
operation that the protocol of `v2.c` is compatible with: the section written first
is any that is not the only active one, the counter grows by one, or restarts at 1
with both sections to be written (`COUNTER_RESET`). Results hold for any
libnvram that keeps to that.

*Media.* The file interface also takes a block device, which `O_TRUNC` does not
shorten: it is overwritten in place, cached like a file, and what an interrupted
commit leaves always has the full size. A file that lost the end of its data has a valid header and is a short
read (`-EIO`), or has no header and reads as blank. An MTD partition always has
its full size, so that a torn list reads as corrupt, except a list that was too
large for the partition: the driver clips the write, and the header
announces more than can be read. An EFI variable is replaced by one write or not at all,
but a new one exists empty before, which `efi_size` refuses.

### FormatLegacy and SectionNames

*State.* `medium` is the text in the section, a sequence over the characters that the
scanner and the writer tell apart (`a` is every other one; `Nul` is one, which the scanner
takes like any other and at which the writer's `%s` ends), or `Bare`, an EFI variable
without its attributes. `list` and `pc` are as in `FormatV2`. All that this format can
get wrong is in the text, so this is the one module that models characters.

*Operators.* `find_entry` and `scan` are the loop of `populate_list`, `Refused` and
`Serialize` are `legacy_commit`, `Printed` is what `%s` makes of a string; `list_set` is libnvram's list, which replaces an entry
with the same key. `ChosenSection` is the order of option, environment and build, where an
empty environment variable switches a section off; `SingleSection` is the rule of the
two formats that refuse section B.

*Actions.* `legacy_init` and `legacy_init_fails`; `legacy_commit(l)`, whose list differs
from the one read in one `--set` or `--del`, and `legacy_commit_refused(l)`; then
`Prepare`, `Program` and their failures, and `Kill`. A file may be cut at any character.

### FormatPlatform and WriteProtect

*State.* `medium` is a header (version, name, numbers), or `Erased`, `Absent`, `Bare`.
`WriteProtect` keeps where `write()` is (`step`), whether it is going to fail (`failed`)
and whether the protection is on (`guarded`). `lapsed` is not in the code: no action
reads it; it remembers that the last process left the protection off because it was
killed or could not put it back.

*Operators.* A text is the form and the number that `strtoul` sees. `strtoul` has its
saturation, its negation modulo the width of `unsigned long`, and its silent 0 for what
is no number; `value_refused` and `value_to_header` are the two results of the function
of that name. `errno` is not reset before `strtoul`, so that an old `ERANGE` may be there
(`Errno`). `list_to_header`, `header_to_list` and `Content` are the conversions of whole lists.

*Actions.* `platform_init`, `platform_commit` and their failures; `Write`, a step of
`write()`: `Unprotect`, `Prepare`, `Program`, `Protect` and the failure of each, with
MTD and EFI leaving at the places where the code does; `WriteReturns`; `Kill` in any of them.

### Lockfile

*State.* `path` is the inode that the lock file's name stands for, `holder` the
process that has each inode locked, `fd` the inode each process has open, `retries`
and `pc` per process. Every system call of `acquire_lockfile` and
`release_lockfile` is an action, with its failures; with `Dies` the kernel closes
the descriptor. A process is one run of the program: it starts once, and there are as
many as one likes. What a run does while it holds the lock is left to `NvramCli`. One
variable is not in the code: `lost`, which no action reads, remembers the runs whose file
another run has unlinked while they had it open.

### NvramCli

*State.* `stores` is what is stored in the system and the user store. Each run has a
command line `cmd`, which it keeps, and a place `at` in `main`; `opened` are the stores
it has initialized, `mem` its `list_system` and `list_user`, `next` the operation to
execute, `dirty` is `write_performed`, and `r` is `main`'s variable of that name, zero
or not. Two variables are not in the code: `read`, which no action uses, remembers what
init returned, and `stored` tells the part of a commit before it takes effect from the
part after it.

*Actions.* `Validate` is everything up to the lock. `Acquire` and `Release` take the
steps of `Lockfile`; `Acquired` and `NotAcquired` are its outcome. `FormatInit` opens the
system store first, then the user store, as the mode needs. `Execute` is one operation,
`ExecuteFails` one that ends the list: a key that is not there, or no memory. `Executed`
goes to the commit if something changed. `Commit` is the moment a commit takes effect,
`CommitReturns` and `CommitFails` its result; a list in `Unserializable` takes no effect
and is reported as committed; a failing commit may have taken effect,
as in `FormatV2` when only the second write of a counter reset fails. `Exit` combines the results of `main` and
`release_lockfile`; `Kill` ends a run anywhere.

*Abstractions.* The text of the arguments is reduced to `parses`, keys to those with
the prefix and those without it, values to a set. What the stores hold at first is
arbitrary as long as the prefix rule holds for it.

## 3. Runs

| Run | Module, cfg | Checks | Shows |
|---|---|---|---|
| `v2_store` | `MCFormatV2`, `v2_store.cfg` | `TypeOK`, `Inductive`, `TieImpliesSame`, `CountersAdjacent`, `HandleIsCurrent`, `StoredListSurvives`, `StoreRefinement` | the v2 format implements `NvramStore` and does not lose the last stored list |
| `v2_readable` | `MCFormatV2`, `v2_readable.cfg` | `ReadableWithFallback` | on MTD and block devices a damaged section never blocks init |
| `legacy` | `MCFormatLegacy`, `legacy.cfg` | `TypeOK`, `ScanIsLineWise`, `RewriteKeepsList`, `LegacyStore` | the scanner reads the documented lines, a rewrite loses nothing but what follows a NUL, and without NULs torn commits are no worse than torn |
| `platform` | `MCFormatPlatform`, `platform.cfg` | `TypeOK`, `PlatformInv`, `HeaderRoundTrip`, `NumbersKept`, `ProtectionRestored`, `WritesUnprotected`, `PlatformStore` | numbers are kept or refused, the protection comes back, and the format implements `NvramStore` up to torn headers |
| `lock_many` | `Lockfile`, `lock_many.cfg` | `ManyInv`, `ExclusionUnlessLost`, `LockedIsNamed`, `LockfileRemoved`, `AloneAcquires` | what three runs can and cannot do to the lock file; no lock-out |
| `cli_pair` | `MCNvramCli`, `cli_pair.cfg` | `TypeOK`, `CliInv`, `StoresSeparated`, `LockedSuccessMeansDone`, `SystemWritesUnlocked`, `RunsEnd` | whatever two runs do, each of them ends, the stores stay separated and guarded, and exit status 0 with the lock means done, but for lists that cannot be serialized |
| `cli_many` | `MCNvramCli`, `cli_many.cfg` | `SnapshotIsCurrent`, `NoLostUpdate` | three runs never commit a command in part, and undo each other's updates only after a third one's unlink |
| `v2_file_power` | `MCFormatV2`, `v2_file_power.cfg` | `StoredListSurvives`, **violated** | files and power loss |
| `v2_file_kill` | `MCFormatV2`, `v2_file_kill.cfg` | `ReadableWithFallback`, **violated** | files and a killed commit |
| `v2_serialize` | `MCFormatV2`, `v2_serialize.cfg` | `StoreRefinement`, **violated** | commit reports success without storing |
| `legacy_commit` | `MCFormatLegacy`, `legacy_commit.cfg` | `CommittedIsRead`, **violated** | an empty value is committed and cannot be read |
| `cli_success` | `MCNvramCli`, `cli_success.cfg` | `SuccessMeansDone`, **violated** | a run that does not get the lock exits with 0 |

**Bounds.** `MaxCounter` is 4 in `v2_store`: two adjacent counters, a gap of two
and the reset are then all different from each other, and a behaviour may pass the reset any number of
times. Three lists tell the empty, the old and the new list apart. The six
deployments of `v2_store` are the four media with both sections, an MTD where only
the empty list fits, and an EFI store with a single section, the shipped default
for EFI; files and block devices are only exposed to I/O errors and kills there,
because of the first finding. The other v2 runs use `MaxCounter` 3. Those that are
violated have one deployment; `v2_readable` has MTD and block devices with every set of
configured sections and every fault, serialize included. Lists that do not fit are left
out there, since a clipped list is unreadable and blocks init as in the second finding.

`legacy` starts from every text of up to six characters over a letter, `=`, a blank and
a newline, and from every three lines of nine kinds, valid and not, in a file, in an EFI
variable, and in a store whose section B is set, which is refused. Six characters hold
two entries and a line in between or around that is blank or bad. Lists that are committed have up to
three entries; keys include one with a blank at its end and one that commit refuses. A
written text may be cut anywhere. To these it adds every text of up to five characters with
NUL in the alphabet, and every three lines of those nine kinds and of six with a NUL before,
within or after a key or a value, including keys that are the same up to it. `legacy_commit`
needs no faults and two entries.

`platform` has a field of 32 bits and one of 64, whose maxima are shrunk to 1 and 3;
texts denote numbers up to 4, so that each limit is met, passed by one and passed
for both. The six texts of `--set` have every form but trailing characters, which the
module treats as digits; keys include one that is no field. The six deployments are
files, MTD with and without GPIO, EFI, builds whose `unsigned long` has 32 or 64
bits, a build without `ALLOW_WRITE`, and the defaults, which name a section B.

`lock_many` has three processes with two attempts and three inodes, which reaches every
overlap of release, open and lock, among them two runs inside the lock at once. Inodes that
are free are alike, and as many of them as there are runs are enough for an `open` to
find a free one (`InodesAssumption`); they are reused.

`cli_pair` has two runs, two inodes and two attempts, one key with the prefix and
one without, and two values, of which the second makes a list that cannot be serialized.
Its eight command lines change the system store with and
without the magic, the user store in both modes, set a key to what it already is,
delete and set it again, set it to what cannot be stored, read, and are refused. What is
checked there holds of each run by itself; what takes three is in `cli_many`. With two
attempts a run that meets the other one's lock waits and tries again before it gives up, and
as `RunsEnd` is liveness, there is no symmetry.

`cli_many` has three runs and three inodes, so that two of them can be inside
the lock after the third one's unlink, and one attempt, since waiting adds nothing to
that. `cli_many` has one key and one value, and two command lines: one deletes the key and
sets it again, the other one deletes it; one operation done without the other, or on a
stale list, shows. Runs and inodes are interchangeable there, so both are symmetry sets.

Deadlock is checked for the three formats, where a session can always be opened again.
It is not for `Lockfile` and `NvramCli`: a process is one run of the program, and runs end.

**What the lock promises.** `release_lockfile` closes, and so unlocks, before it unlinks:
a second run can lock the old inode, the first removes its name, and a third creates and
locks a new one. So mutual exclusion does not hold. `ExclusionUnlessLost` is what does, with
any number of runs: two are inside together only if one of them has *lost* its file to a
third run, which has released the lock. `SnapshotIsCurrent` and `NoLostUpdate` build on it:
a run works on a list that is no longer stored only if it was `Overtaken` in this way by a
run that stored something. With two runs there is no third, so they exclude each
other and lose no update. Three can: two that set unrelated keys get past the lock together,
read the same list, and the one that commits last takes back what the other one, which
exits with 0, has set. No run is there for that alone, because the repository nowhere says
that runs exclude each other; without `Overtaken` both properties are violated in `cli_many`.

**Fairness.** Only `AloneAcquires` and `RunsEnd` need it: `LockFairSpec` and `FairSpec`
have weak fairness of each process's own steps, which is what a scheduler gives to a
process that never waits without a bound (`flock` is non-blocking and tried at most
ten times). `Dies` and `Kill` are not fair.

**Findings.** (1) `README.md:43` of the repository promises power fail safe
updates; with the file interface a power loss can destroy both sections, because
nothing is synced. (2) A file torn by a kill has a valid header, reading it is an
error, and init then fails for good although the other section is intact.
(3) `v2_commit` returns 0 when `libnvram_serialize` returns 0.
(4) `main` exits with 0 when `acquire_lockfile` fails (`main.c:681-683`), though none
of the operations was executed and the usage text promises an error number
(`main.c:172-174`). `LockedSuccessMeansDone` is what holds: a run that did get the lock and exits with 0 has
executed its operations, and stored what they changed, unless finding 3 dropped it.
(5) `legacy_commit` accepts an empty value and returns 0 for a text that `find_entry`
refuses (`nvram_format_legacy.c:77-79, 183-194`), and from then on every command fails;
`test.py:516` wants such a text refused, `nvram_format.h:33-35` promises that 0 is success.

**NULs in legacy texts.** `find_entry` accepts NULs within keys and values, and `legacy_commit`
prints them with `%s`, which ends there (`nvram_format_legacy.c:61-90, 178, 196, 213`): changing
one attribute cuts others, makes their keys the same, or leaves a text that is refused.
`RewriteKeepsList` says what is kept; the values that NULs leave empty come to the same as
finding 5.

## 4. Proofs

For every set of lists, every counter limit above 1 and every set of deployments
(`EmptyListAssumption`, `MaxCounterAssumption`, `DeploymentsAssumption`),
`FormatV2_proofs` proves:

* `TypeCorrect`: `Spec => []TypeOK`.
* `InductiveInvariant`: `Spec => []Inductive`. `Inductive` is `TypeOK` and, for
  *journaled* stores, `JournalInv`. A store is journaled when both sections are
  configured and it is not a file exposed to power loss. The properties are not
  inductive alone: that a commit may destroy its target needs to know that the
  *other* section holds the counter the operation was computed from
  (`FirstStage`), or, in the second write of a reset, that the first section already
  holds the new list (`SecondStage`). `StableMatches` ties the storage to what is read.
* `TiesAreHarmless`, `CountersStayAdjacent`, `HandleStaysCurrent`: the three
  invariants, for journaled stores.
* `StoredListsSurvive`: if all deployments are journaled (`JournaledDeployments`),
  `Spec => StoredListSurvives`.
* `ImplementsStore`: if moreover no deployment has the serialize fault,
  `Spec => StoreRefinement`. Each step maps to a step of `NvramStore` or to none; the
  key lemma, `WriteEffect`, says that a write to the target leaves the readable list
  as it was or makes it the list being committed. The two conditions are exactly
  findings 1 and 3.
* `ReadableOnRoomyMedia`: if all deployments are MTD partitions or block devices with room
  for every list (`RoomyDeployments`), `Spec => []ReadableWithFallback`. No action
  leaves a section, or what is stable of it, unreadable (`NothingUnreadable`). It holds
  for any configured sections, and its conditions are what finding 2 lacks.

For any fields, widths, `--set` texts and deployments (`FieldsAssumption`,
`NumbersAssumption`, `SetTextsAssumption`, `DeploymentsAssumption`, and
`MediaAssumption`, that the markers for damaged media are no headers), `FormatPlatform_proofs` proves:

* `PlatformInvariant`: `Spec => []PlatformInv`. Besides `TypeOK` it says that a commit
  past its write has the header of its list on the medium (`WriteMatches`), that its list
  was accepted (`ListAccepted`), that an open session has what init read (`ListRead`),
  and where in `write()` the protection is off and why (`GuardInv`).
* `PlatformTypeCorrect`, `ProtectionIsRestored`, `NoProtectedWrite` follow from it.
* `ReadIsWritable`: `Spec => []HeaderRoundTrip`, by the lemma `RoundTrip` on a header,
  its list and its header again. `NumbersAreKept`: `Spec => []NumbersKept`.
* `PlatformImplementsStore`: `Spec => PlatformStore`, each step a step of `NvramStore` or none.

For any texts to start from, any keys and values, and texts and lists of any length,
`FormatLegacy_proofs` proves (`TextsAssumption`, `DeploymentsAssumption`,
`ArgumentsAssumption`, that the arguments of a program have no NUL, and
`MarkersAssumption`, that the markers `Bare` and `Damaged` are no text and no list):

* `LegacyTypeCorrect`: `Spec => []TypeOK`. That `scan` returns a list at all is the
  lemma `ScanType`.
* `RewritesKeepLists`: `Spec => []RewriteKeepsList`. The scanner only returns *storable*
  lists (`ScanStorable`): keys differ, are not empty, do not start with white space and
  have no `=` and no newline, values are not empty and have no newline. `SerializeIsRead`
  says that a storable list without NULs (`Plain`) is read back as it was written. It goes
  row by row (`ScanRow` for one row in front of any text, `ScanRows` for all of them). What is
  written of a list with NULs is what is written of its printed form (`PrintedIsStorable`),
  which is storable as long as the NULs leave something of every key and value, and keys
  that differ (`PrintsApart`).
* `LegacyImplementsStore`: if the keys and values of `--set` are such that the format can
  hold them (`StorableArguments`: keys that are not empty and do not start with white
  space, values that are not empty), `Spec => LegacyStore`: a step from a state without NULs
  is a step of `NvramStore` to a state without NULs. What init and commit do not check is
  exactly this, finding 5 and the NULs above. The inductive invariant `LegacyInv` says that
  the list of a session, and the one that is being written, is storable. `TornIsRead` says
  what the scanner makes of a text cut at any character: a number of whole entries, possibly
  the next one with its value cut, or a text that is refused; `TornIsPlain`, that none of
  them has a NUL that was not there.
* `PlainLegacyIsStore`: if moreover no text to start from is read as a list with a NUL in it
  (`PlainTexts`), `Spec => Store!Spec`, all of `NvramStore`.

`FormatLegacyLines_proofs` proves `ScannerReadsLines`: `Spec => []ScanIsLineWise`. By
`ScanReadsLines`, for any list so far, a text is refused if and only if one of its lines
has no entry, and otherwise its lines replace the entries with their keys. A step of
the scanner either skips a character, and leaves lines with the same content in the same
order (`SkippedSaysNothing`, `SameLines`), or takes exactly the first line
(`FirstLineSplits`, `EntryThenLines`).

*Recursion.* `scan`, the writer and a list of operations are recursive functions. The
library states induction for operators, which the provers cannot instantiate.
`DataInduction` therefore states it for sets (`NatSetInduction`, `StrongNatSetInduction`),
from the library's theorem that finite sets are well-founded by inclusion. A recursion with a
rank that decreases has a solution (`RecursiveFunctionExists`), so the recursive
definitions satisfy their equations (`ScanRecursion`, `FlattenSteps`, `AfterRecursion`), and
induction over the length of a text or the number of operations does the rest.

`Lockfile_proofs` proves, for any number of runs, inodes and retries (`ProcsAssumption`,
`InodesAssumption`, `RetriesAssumption`):

* `LockTypeCorrect`: `LockSpec => []LockTypeOK`.
* `ManyInvariant`: `LockSpec => []ManyInv`. Whoever is inside has the flock of the inode it
  opened (`HoldersLocked`); whoever holds or tries an inode that the path does not name is in
  `lost`, and whoever is in `lost` can point at another run that has called `unlink`
  (`LockedIsNamed`, `LostToOther`); as long as no run died or failed, the path
  belongs to a run that will remove it (`PathOwned`).
* `RunsExclude`: `LockSpec => []ExclusionUnlessLost`, from that invariant: two runs inside
  hold two inodes, the path names one at most, so one of them has lost its file, and the run
  that unlinked it is neither of the two, since it has released the lock.
* `LockedNamed` (`LockedIsNamed`) and `LockfileIsRemoved` (`LockfileRemoved`), from the same.

`NvramCli_proofs` proves, for any keys, values and command lines that satisfy
`KeysAssumption`, `PrefixAssumption` and `CommandsAssumption`, any lists that cannot be
serialized (`SerializeAssumption`), and any number of runs:

* `CliTypeCorrect`: `Spec => []TypeOK`. `LockStep` shows that each step of `NvramCli`
  is a step of `Lockfile` or none, so that the type lemmas of the lock are reused.
* `CliInvariant`: `Spec => []CliInv`. Its parts: where `main` is against the lock
  (`LockMatches`); nothing is open before the lock (`OpenedLocked`); whoever got past
  the arguments has a valid command line (`Validated`); the lists in memory obey the
  prefix rule like the stored ones (`ListsSeparated`); a list that was changed is
  noticed, and a changed system list had the magic (`ChangesNoticed`); a run that is
  still without error on the way out has executed all it had to, and what it changed is
  stored or cannot be serialized (`DoneWhenOk`); the list in memory is that of
  init after the operations so far (`WorkDone`).
* `StoresStaySeparated`, `LockedRunsAreDone` and `SystemStoreGuarded` follow from it:
  they need no lock.
* `RunsUseTheLock`: `Spec => LockSpec`. All that is proved of the lock holds for runs of
  the whole program; `RunsExcludeEachOther` is `ExclusionUnlessLost` for them.
* `SnapshotsStayCurrent`: `Spec => []SnapshotIsCurrent`. Whoever commits is inside the lock,
  so another run that has read already, and has not committed yet, is inside with it,
  and by `ExclusionUnlessLost` a third run let them in: it is overtaken. That it stays so
  needs `lost` and the released run to stay, which they do.
* `NoUpdateIsLost`: `Spec => NoLostUpdate`. `WorkDone`, a part of
  `CliInv`, says that the list in memory is what init read after the operations executed
  so far; a commit comes after all of them (`DoneWhenOk`), and by `SnapshotIsCurrent` what
  init read is still what is stored, unless the run was overtaken.

Only model-checked: `AloneAcquires` and `RunsEnd`, which are liveness under fairness. All
invariants and action properties of the passing runs are theorems. `ReadableWithFallback`,
`StoreRefinement` and `LegacyStore` are proved under the conditions given above; the runs
that show a violation are outside those conditions, or check properties that no
theorem claims (`SuccessMeansDone`, `CommittedIsRead`).

## 5. Not modelled

`PROJECT.json` has every part with its reason. In short: logging, the tables of formats
and interfaces, the build and the tests have no behaviour worth a model; the bytes of a
section and the CRCs inside libnvram are below this abstraction, and so are libnvram's list
functions, except that a key is there once. Of the command line, the text of the
arguments and what is printed are left out. The lookup of an MTD partition by its label
keeps no state.

* *Sections that change between runs.* The names of the sections are a constant of each
  behaviour. Runs that name only A and then only B leave two sections with the same counter
  and different lists; the repository promises nothing about that.
* *Legacy on MTD or on a block device.* Both have a fixed size, and the padding behind
  the text does not parse.
* *A list that cannot be serialized* is `Unserializable` in `NvramCli`, whose stores
  otherwise are what `NvramStore` promises: what a later run cannot read (findings 1, 2
  and 5, and NULs) is in the modules of the formats only.
* *Power loss for legacy and platform.* They have one section and promise no fallback;
  what a killed write leaves is modelled, what the page cache loses is not.
* *Platform on a block device*, which differs from a file only in that nothing is
  truncated; *a blob behind the header*, which nothing in the code reads or writes; and
  *builds with `NVRAM_PLATFORM_VERSION` above 0*, for which the code has no fields.

## 6. Plan

1. `FormatV2` with the configured sections chosen per session, and the invariant that is
   left of `TieImpliesSame` then.
2. `NvramCli` over stores whose commits may be torn, as legacy and platform have them.
3. Power loss for `FormatLegacy` and `FormatPlatform`, with the page cache of `Interface`.
4. Proofs: the stores of `NvramCli` as instances of `NvramStore` while no run is overtaken,
   so that the refinements of the formats and of `main` meet in one module.
