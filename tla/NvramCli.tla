------------------------------ MODULE NvramCli ------------------------------
(***************************************************************************)
(* main of main.c: runs of the nvram program that share the lock file and  *)
(* the system and user stores.  A run validates its operations, takes the  *)
(* lock, reads the stores it uses, executes the operations in memory,      *)
(* commits at most one store and releases the lock.  The lock is Lockfile; *)
(* a store keeps the promises of NvramStore.                               *)
(***************************************************************************)
EXTENDS Lockfile, Sequences

CONSTANTS
    Keys,            \* the keys of attributes
    SysKeys,         \* those that start with NVRAM_SYSTEM_PREFIX
    Values,          \* the values of attributes
    Absent,          \* the value of a key that is not in a list
    PrefixEnforced,  \* sysprefix_enforced(): the prefix is not empty
    Commands,        \* the command lines, see CommandsAssumption
    Unserializable   \* the lists for which libnvram_serialize returns 0

ASSUME KeysAssumption == SysKeys \subseteq Keys /\ Absent \notin Values

ASSUME PrefixAssumption == PrefixEnforced \in BOOLEAN

Operation == [op : {"set", "get", "del", "list"}, key : Keys, value : Values]

(***************************************************************************)
(* mode     : "sys" and "user" for --sys and --user, else "default"        *)
(* unlocked : NVRAM_SYSTEM_UNLOCK has the magic value                      *)
(* parses   : arguments, interface and format are known                    *)
(* ops      : the operations, in order                                     *)
(***************************************************************************)
ASSUME CommandsAssumption ==
    \A c \in Commands :
        /\ c.mode \in {"default", "sys", "user"}
        /\ c.unlocked \in BOOLEAN
        /\ c.parses \in BOOLEAN
        /\ c.ops \in Seq(Operation)
        /\ c.ops # << >>

Stores == {"system", "user"}

Attributes == [Keys -> Values \cup {Absent}]

ASSUME SerializeAssumption == Unserializable \subseteq Attributes

VARIABLES
    stores,  \* the stored list of each store
    cmd,     \* the command line of each run
    at,      \* where main is
    opened,  \* the stores each run has initialized
    read,    \* what their init returned
    mem,     \* list_system and list_user
    next,    \* the operation to execute next
    dirty,   \* write_performed
    stored,  \* the commit has taken effect
    r        \* the local variable of main: whether it is 0

locals == <<opened, read, mem, next, dirty>>
vars == <<path, holder, fd, retries, pc, lost, stores, cmd, at,
          opened, read, mem, next, dirty, stored, r>>

Nothing == [s \in Stores |-> [k \in Keys |-> Absent]]

TypeOK ==
    /\ LockTypeOK
    /\ stores \in [Stores -> Attributes]
    /\ cmd \in [Procs -> Commands]
    /\ at \in [Procs -> {"args", "lock", "work", "commit", "release", "exited", "dead"}]
    /\ opened \in [Procs -> SUBSET Stores]
    /\ read \in [Procs -> [Stores -> Attributes]]
    /\ mem \in [Procs -> [Stores -> Attributes]]
    /\ next \in [Procs -> Nat \ {0}]
    /\ dirty \in [Procs -> BOOLEAN]
    /\ stored \in [Procs -> BOOLEAN]
    /\ r \in [Procs -> {"ok", "error"}]

(***************************************************************************)
(* With the prefix enforced the system store has only keys that have it,   *)
(* and the user store none, so that no user attribute is hidden behind a   *)
(* system attribute that exec_get prefers.                                 *)
(***************************************************************************)
Separated(lists) ==
    PrefixEnforced =>
        \A k \in Keys :
            /\ lists["system"][k] # Absent => k \in SysKeys
            /\ lists["user"][k] # Absent => k \notin SysKeys

Init ==
    /\ LockInit
    /\ stores \in [Stores -> Attributes \ Unserializable]
    /\ Separated(stores)
    /\ cmd \in [Procs -> Commands]
    /\ at = [p \in Procs |-> "args"]
    /\ opened = [p \in Procs |-> {}]
    /\ read = [p \in Procs |-> Nothing]
    /\ mem = [p \in Procs |-> Nothing]
    /\ next = [p \in Procs |-> 1]
    /\ dirty = [p \in Procs |-> FALSE]
    /\ stored = [p \in Procs |-> FALSE]
    /\ r = [p \in Procs |-> "ok"]

At(p, l) == at' = [at EXCEPT ![p] = l]

Returns(p, x) == r' = [r EXCEPT ![p] = x]

\* MODE_*_READ and MODE_*_WRITE: the stores a run reads, and the one it writes.
Reads(c) ==
    IF c.mode = "sys" THEN {"system"}
    ELSE IF c.mode = "user" THEN {"user"}
    ELSE Stores

Writes(c) == IF c.mode = "sys" THEN "system" ELSE "user"
-----------------------------------------------------------------------------
(* Arguments *)

\* Mutant: the unlocked system store takes any key.
validate_set_unlocked(c, o) ==
    IF Writes(c) = "system"
    THEN c.unlocked
    ELSE PrefixEnforced => o.key \notin SysKeys

validate_set(c, o) ==
    IF Writes(c) = "system"
    THEN (PrefixEnforced => o.key \in SysKeys) /\ c.unlocked
    ELSE PrefixEnforced => o.key \notin SysKeys

\* Mutant: deleting needs no unlock.
validate_del_locked(c) == TRUE

validate_del(c) == Writes(c) = "system" => c.unlocked

OpTypes(c) == {c.ops[i].op : i \in DOMAIN c.ops}

validate_operations(c) ==
    /\ \A i \in DOMAIN c.ops :
        /\ c.ops[i].op = "set" => validate_set(c, c.ops[i])
        /\ c.ops[i].op = "del" => validate_del(c)
    /\ OpTypes(c) \cap {"get", "list"} = {} \/ OpTypes(c) \cap {"set", "del"} = {}
    /\ ~({"get", "list"} \subseteq OpTypes(c))

Validate(p) ==
    /\ at[p] = "args"
    /\ IF cmd[p].parses /\ validate_operations(cmd[p])
       THEN At(p, "lock") /\ UNCHANGED r
       ELSE At(p, "exited") /\ Returns(p, "error")
    /\ UNCHANGED <<lockvars, stores, cmd, locals, stored>>
-----------------------------------------------------------------------------
(* The lock *)

Acquire(p) ==
    /\ at[p] = "lock"
    /\ \/ Open(p)
       \/ OpenFails(p)
       \/ FlockSucceeds(p)
       \/ FlockBlocks(p)
       \/ FlockTimesOut(p)
       \/ FlockFails(p)
    /\ UNCHANGED <<stores, cmd, at, locals, stored, r>>

\* Mutant: the run goes on once the file is open, locked or not.
Acquired_unlocked(p) ==
    /\ at[p] = "lock"
    /\ pc[p] \in {"try", "locked"}
    /\ At(p, "work")
    /\ UNCHANGED <<lockvars, stores, cmd, locals, stored, r>>

Acquired(p) ==
    /\ at[p] = "lock"
    /\ pc[p] = "locked"
    /\ At(p, "work")
    /\ UNCHANGED <<lockvars, stores, cmd, locals, stored, r>>

\* Mutant: a lock file that cannot be opened is not noticed.
NotAcquired_timeout(p) ==
    /\ at[p] = "lock"
    /\ pc[p] = "timeout"
    /\ At(p, "exited")
    /\ UNCHANGED <<lockvars, stores, cmd, locals, stored, r>>

\* fd_lock is negative: main leaves, with r still 0.
NotAcquired(p) ==
    /\ at[p] = "lock"
    /\ pc[p] \in {"timeout", "failed"}
    /\ At(p, "exited")
    /\ UNCHANGED <<lockvars, stores, cmd, locals, stored, r>>
-----------------------------------------------------------------------------
(* The work under the lock *)

\* format->init of the system store, then of the user store.
FormatInit(p) ==
    LET pending == Reads(cmd[p]) \ opened[p]
        s == IF "system" \in pending THEN "system" ELSE "user"
    IN  /\ at[p] = "work"
        /\ pending # {}
        /\ opened' = [opened EXCEPT ![p] = @ \cup {s}]
        /\ read' = [read EXCEPT ![p][s] = stores[s]]
        /\ mem' = [mem EXCEPT ![p][s] = stores[s]]
        /\ UNCHANGED <<lockvars, stores, cmd, at, next, dirty, stored, r>>

FormatInitFails(p) ==
    /\ at[p] = "work"
    /\ Reads(cmd[p]) \ opened[p] # {}
    /\ At(p, "release")
    /\ Returns(p, "error")
    /\ UNCHANGED <<lockvars, stores, cmd, locals, stored>>

Executing(p) ==
    /\ at[p] = "work"
    /\ Reads(cmd[p]) \subseteq opened[p]
    /\ next[p] <= Len(cmd[p].ops)

Found(p, key) == \E s \in Reads(cmd[p]) : mem[p][s][key] # Absent

\* Mutant: write_performed is what the last operation did.
Execute_last(p) ==
    LET o == cmd[p].ops[next[p]]
        s == Writes(cmd[p])
        new == IF o.op = "set" THEN o.value
               ELSE IF o.op = "del" THEN Absent
               ELSE mem[p][s][o.key]
    IN  /\ Executing(p)
        /\ o.op = "get" => Found(p, o.key)
        /\ mem' = [mem EXCEPT ![p][s][o.key] = new]
        /\ dirty' = [dirty EXCEPT ![p] = (new # mem[p][s][o.key])]
        /\ next' = [next EXCEPT ![p] = @ + 1]
        /\ UNCHANGED <<lockvars, stores, cmd, at, opened, read, stored, r>>

\* exec_set, exec_del, exec_get or exec_list of the next operation.
Execute(p) ==
    LET o == cmd[p].ops[next[p]]
        s == Writes(cmd[p])
        new == IF o.op = "set" THEN o.value
               ELSE IF o.op = "del" THEN Absent
               ELSE mem[p][s][o.key]
    IN  /\ Executing(p)
        /\ o.op = "get" => Found(p, o.key)
        /\ mem' = [mem EXCEPT ![p][s][o.key] = new]
        /\ dirty' = [dirty EXCEPT ![p] = @ \/ new # mem[p][s][o.key]]
        /\ next' = [next EXCEPT ![p] = @ + 1]
        /\ UNCHANGED <<lockvars, stores, cmd, at, opened, read, stored, r>>

\* Mutant: a failed operation does not keep the others from being committed.
ExecuteFails_commits(p) ==
    LET o == cmd[p].ops[next[p]]
    IN  /\ Executing(p)
        /\ \/ o.op = "get" /\ ~Found(p, o.key)
           \/ o.op = "set" /\ mem[p][Writes(cmd[p])][o.key] # o.value
        /\ At(p, IF dirty[p] THEN "commit" ELSE "release")
        /\ Returns(p, "error")
        /\ UNCHANGED <<lockvars, stores, cmd, locals, stored>>

\* -ENOENT, or libnvram_list_set fails: the operations that follow are skipped.
ExecuteFails(p) ==
    LET o == cmd[p].ops[next[p]]
    IN  /\ Executing(p)
        /\ \/ o.op = "get" /\ ~Found(p, o.key)
           \/ o.op = "set" /\ mem[p][Writes(cmd[p])][o.key] # o.value
        /\ At(p, "release")
        /\ Returns(p, "error")
        /\ UNCHANGED <<lockvars, stores, cmd, locals, stored>>

Executed(p) ==
    /\ at[p] = "work"
    /\ Reads(cmd[p]) \subseteq opened[p]
    /\ next[p] > Len(cmd[p].ops)
    /\ At(p, IF dirty[p] THEN "commit" ELSE "release")
    /\ UNCHANGED <<lockvars, stores, cmd, locals, stored, r>>

\* format->commit takes effect, some time before it returns.
Commit(p) ==
    LET s == Writes(cmd[p])
    IN  /\ at[p] = "commit"
        /\ ~stored[p]
        /\ mem[p][s] \notin Unserializable
        /\ stores' = [stores EXCEPT ![s] = mem[p][s]]
        /\ stored' = [stored EXCEPT ![p] = TRUE]
        /\ UNCHANGED <<lockvars, cmd, at, locals, r>>

\* A list that cannot be serialized is dropped, and commit returns 0 all the same.
CommitReturns(p) ==
    /\ at[p] = "commit"
    /\ stored[p] \/ mem[p][Writes(cmd[p])] \in Unserializable
    /\ At(p, "release")
    /\ UNCHANGED <<lockvars, stores, cmd, locals, stored, r>>

\* A commit that fails may have taken effect.
CommitFails(p) ==
    /\ at[p] = "commit"
    /\ At(p, "release")
    /\ Returns(p, "error")
    /\ UNCHANGED <<lockvars, stores, cmd, locals, stored>>
-----------------------------------------------------------------------------
(* The way out *)

Release(p) ==
    /\ at[p] = "release"
    /\ \/ Close(p)
       \/ CloseFails(p)
       \/ Unlink(p)
       \/ UnlinkFails(p)
    /\ UNCHANGED <<stores, cmd, at, locals, stored, r>>

\* main returns its own error first, that of release_lockfile second.
Exit(p) ==
    /\ at[p] = "release"
    /\ pc[p] \in {"released", "already_removed", "unreleased"}
    /\ At(p, "exited")
    /\ IF pc[p] = "released" THEN UNCHANGED r ELSE Returns(p, "error")
    /\ UNCHANGED <<lockvars, stores, cmd, locals, stored>>

Kill(p) ==
    /\ at[p] \notin {"exited", "dead"}
    /\ At(p, "dead")
    /\ IF pc[p] \in Finished THEN UNCHANGED lockvars ELSE Dies(p)
    /\ UNCHANGED <<stores, cmd, locals, stored, r>>

Main(p) ==
    \/ Validate(p)
    \/ Acquire(p)
    \/ Acquired(p)
    \/ NotAcquired(p)
    \/ FormatInit(p)
    \/ FormatInitFails(p)
    \/ Execute(p)
    \/ ExecuteFails(p)
    \/ Executed(p)
    \/ Commit(p)
    \/ CommitReturns(p)
    \/ CommitFails(p)
    \/ Release(p)
    \/ Exit(p)

Next == \E p \in Procs : Main(p) \/ Kill(p)

Spec == Init /\ [][Next]_vars

\* The scheduler runs every process; see Lockfile.
FairSpec == Spec /\ \A p \in Procs : WF_vars(Main(p))
-----------------------------------------------------------------------------
\* What an operation makes of the list it is executed on.
Applied(o, list) ==
    IF o.op = "set" THEN [list EXCEPT ![o.key] = o.value]
    ELSE IF o.op = "del" THEN [list EXCEPT ![o.key] = Absent]
    ELSE list

\* The list after the first n operations of ops.
After(ops, list, n) ==
    LET result[i \in 0..Len(ops)] ==
          IF i = 0 THEN list ELSE Applied(ops[i], result[i - 1])
    IN  result[n]

\* Another run that got past the lock together with p has stored in s.
Overtaken(p, s) ==
    \E q \in Procs \ {p} : stored[q] /\ Writes(cmd[q]) = s /\ LockLost(p, q)

(***************************************************************************)
(* A store changes only by all the operations of one run, none in part,    *)
(* applied to what that run has read; and that is what is stored at that   *)
(* time, so that no update is lost, unless the run was overtaken.          *)
(***************************************************************************)
NoLostUpdate ==
    [][\A s \in Stores : stores'[s] # stores[s] =>
          \E p \in Procs :
              /\ stored'[p] /\ ~stored[p]
              /\ Writes(cmd[p]) = s
              /\ stores'[s] = After(cmd[p].ops, read[p][s], Len(cmd[p].ops))
              /\ read[p][s] = stores[s] \/ Overtaken(p, s)]_vars

StoresSeparated == Separated(stores)

(***************************************************************************)
(* A run works on a list that another run has replaced only if the two got *)
(* past the lock together: until its own commit takes effect, what its     *)
(* init returned is what is stored.                                        *)
(***************************************************************************)
SnapshotIsCurrent ==
    \A p \in Procs, s \in Stores :
        at[p] \in {"work", "commit"} /\ ~stored[p] /\ s \in opened[p] =>
            read[p][s] = stores[s] \/ Overtaken(p, s)

(***************************************************************************)
(* The system store is changed only by runs with the unlock magic.         *)
(***************************************************************************)
SystemWritesUnlocked ==
    [][stores'["system"] # stores["system"] =>
        \E p \in Procs : stored'[p] /\ ~stored[p] /\ cmd[p].unlocked]_vars

ExecutedAll(p) == next[p] > Len(cmd[p].ops)

\* What the operations have changed is stored.
Kept(p) == stored[p] \/ mem[p][Writes(cmd[p])] = read[p][Writes(cmd[p])]

(***************************************************************************)
(* A run that exits with 0 has executed all its operations and stored what *)
(* they changed ("Return values: 0 if ok", print_usage).                   *)
(***************************************************************************)
SuccessMeansDone ==
    \A p \in Procs : at[p] = "exited" /\ r[p] = "ok" => ExecutedAll(p) /\ Kept(p)

Dropped(p) == mem[p][Writes(cmd[p])] \in Unserializable

(***************************************************************************)
(* What is left of it: the run got the lock, and its list was one that     *)
(* libnvram can serialize.  Its operations it has executed in any case.    *)
(***************************************************************************)
LockedSuccessMeansDone ==
    \A p \in Procs :
        at[p] = "exited" /\ r[p] = "ok" /\ pc[p] = "released" =>
            ExecutedAll(p) /\ (Kept(p) \/ Dropped(p))

(***************************************************************************)
(* Every run ends, whatever the others do: nobody waits without a bound.   *)
(***************************************************************************)
RunsEnd == \A p \in Procs : <>(at[p] \in {"exited", "dead"})
-----------------------------------------------------------------------------
(***************************************************************************)
(* The inductive invariant behind StoresSeparated, SystemWritesUnlocked    *)
(* and LockedSuccessMeansDone, for any number of runs.                     *)
(***************************************************************************)
\* Where main is determines how far the run has got with the lock.
LockMatches ==
    \A p \in Procs :
        /\ at[p] = "args" => pc[p] = "start"
        /\ at[p] = "lock" => pc[p] \in {"start", "try", "locked", "timeout", "failed"}
        /\ at[p] \in {"work", "commit"} => pc[p] = "locked"
        /\ at[p] = "release" =>
              pc[p] \in {"locked", "unlink", "released", "already_removed", "unreleased"}

OpenedLocked == \A p \in Procs : at[p] \in {"args", "lock"} => opened[p] = {}

Validated ==
    \A p \in Procs :
        at[p] \notin {"args", "exited", "dead"} => validate_operations(cmd[p])

ListsSeparated == Separated(stores) /\ \A p \in Procs : Separated(mem[p])

ChangesNoticed ==
    \A p \in Procs :
        LET s == Writes(cmd[p])
        IN  /\ ~dirty[p] => mem[p][s] = read[p][s]
            /\ dirty[p] /\ s = "system" => cmd[p].unlocked

DoneWhenOk ==
    \A p \in Procs :
        /\ at[p] = "commit" => next[p] > Len(cmd[p].ops) /\ dirty[p]
        /\ r[p] = "ok" /\ (at[p] = "release" \/ (at[p] = "exited" /\ pc[p] = "released"))
              => ExecutedAll(p) /\ (Kept(p) \/ Dropped(p))

\* The list in memory is what init read after the operations executed so far.
WorkDone ==
    \A p \in Procs :
        LET c == cmd[p]
            s == Writes(c)
        IN  /\ next[p] <= Len(c.ops) + 1
            /\ next[p] > 1 \/ at[p] = "commit" => Reads(c) \subseteq opened[p]
            /\ mem[p][s] = After(c.ops, read[p][s], next[p] - 1)

CliInv ==
    /\ TypeOK
    /\ LockMatches
    /\ OpenedLocked
    /\ Validated
    /\ ListsSeparated
    /\ ChangesNoticed
    /\ DoneWhenOk
    /\ WorkDone
=============================================================================
