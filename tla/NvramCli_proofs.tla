--------------------------- MODULE NvramCli_proofs ---------------------------
(***************************************************************************)
(* Proofs about main and the lock together, for every set of command       *)
(* lines, keys and values.                                                 *)
(***************************************************************************)
EXTENDS NvramCli, Lockfile_proofs, DataInduction

-----------------------------------------------------------------------------
(***************************************************************************)
(* Steps of main as steps of the lock                                      *)
(***************************************************************************)
\* Every step of main is a step of the lock or leaves it alone.
LEMMA LockStep == [Next]_vars => [LockNext]_lockvars
<1>1. ASSUME NEW p \in Procs, Main(p) PROVE [LockNext]_lockvars
  <2>1. CASE Acquire(p)
    BY <2>1 DEF Acquire, LockNext, Step
  <2>2. CASE Release(p)
    BY <2>2 DEF Release, LockNext, Step
  <2>3. CASE ~Acquire(p) /\ ~Release(p)
    <3>1. UNCHANGED lockvars
      BY <1>1, <2>3
         DEF Main, Validate, Acquired, NotAcquired, FormatInit, FormatInitFails,
             Execute, ExecuteFails, Executed, Commit, CommitReturns, CommitFails, Exit
    <3> QED BY <3>1
  <2> QED BY <2>1, <2>2, <2>3
<1>2. ASSUME NEW p \in Procs, Kill(p) PROVE [LockNext]_lockvars
  BY <1>2 DEF Kill, LockNext
<1>3. UNCHANGED vars => UNCHANGED lockvars
  BY DEF vars, lockvars
<1> QED BY <1>1, <1>2, <1>3 DEF Next

\* What the lock's steps in main do to pc: only that of the process itself.
LEMMA LockSteps ==
    ASSUME TypeOK, NEW p \in Procs
    PROVE  /\ Acquire(p) =>
                 /\ pc[p] \in {"start", "try"}
                 /\ pc' = [pc EXCEPT ![p] = pc'[p]]
                 /\ pc'[p] \in {"try", "locked", "timeout", "failed"}
           /\ Release(p) =>
                 /\ pc[p] \in {"locked", "unlink"}
                 /\ pc' = [pc EXCEPT ![p] = pc'[p]]
                 /\ pc'[p] \in {"unlink", "released", "already_removed", "unreleased"}
           /\ Kill(p) => pc' = [pc EXCEPT ![p] = pc'[p]]
<1>1. pc \in [Procs -> {"start", "try", "locked", "unlink"} \cup Finished]
  BY DEF TypeOK, LockTypeOK
<1>2. Acquire(p) =>
        /\ pc[p] \in {"start", "try"}
        /\ pc' = [pc EXCEPT ![p] = pc'[p]]
        /\ pc'[p] \in {"try", "locked", "timeout", "failed"}
  BY <1>1 DEF Acquire, Open, OpenFails, FlockSucceeds, FlockBlocks, FlockTimesOut,
              FlockFails, Goto
<1>3. Release(p) =>
        /\ pc[p] \in {"locked", "unlink"}
        /\ pc' = [pc EXCEPT ![p] = pc'[p]]
        /\ pc'[p] \in {"unlink", "released", "already_removed", "unreleased"}
  BY <1>1 DEF Release, Close, CloseFails, Unlink, UnlinkFails, Goto
<1>4. Kill(p) => pc' = [pc EXCEPT ![p] = pc'[p]]
  BY <1>1 DEF Kill, Dies, Goto, lockvars
<1> QED BY <1>2, <1>3, <1>4
-----------------------------------------------------------------------------
(***************************************************************************)
(* Type correctness                                                        *)
(***************************************************************************)
\* The stores of a run are stores.
LEMMA ModeTypes ==
    ASSUME NEW c PROVE Reads(c) \subseteq Stores /\ Writes(c) \in Stores
BY DEF Reads, Writes, Stores

\* Operations have keys and values.
LEMMA OperationTypes ==
    ASSUME TypeOK, NEW p \in Procs, Executing(p)
    PROVE  /\ next[p] \in DOMAIN cmd[p].ops
           /\ cmd[p].ops[next[p]] \in Operation
<1>1. cmd[p].ops \in Seq(Operation) /\ next[p] \in Nat \ {0}
  BY CommandsAssumption DEF TypeOK
<1> QED BY <1>1 DEF Executing

\* Initial states are well typed.
LEMMA CliTypeInit == Init => TypeOK
<1> SUFFICES ASSUME Init PROVE TypeOK
  OBVIOUS
<1>1. Nothing \in [Stores -> Attributes]
  BY DEF Nothing, Attributes
<1> QED BY <1>1, LockTypeInit DEF Init, TypeOK

\* Steps lead from well-typed to well-typed states.
LEMMA CliTypeNext == TypeOK /\ [Next]_vars => TypeOK'
<1> SUFFICES ASSUME TypeOK, [Next]_vars PROVE TypeOK'
  OBVIOUS
<1>1. LockTypeOK'
  BY LockStep, LockTypeNext DEF TypeOK
<1>2. CASE UNCHANGED vars
  BY <1>1, <1>2 DEF vars, TypeOK
<1>3. ASSUME NEW p \in Procs, Main(p) \/ Kill(p) PROVE TypeOK'
  <2>1. CASE FormatInit(p)
    <3>1. PICK t \in Stores :
            /\ opened' = [opened EXCEPT ![p] = @ \cup {t}]
            /\ read' = [read EXCEPT ![p][t] = stores[t]]
            /\ mem' = [mem EXCEPT ![p][t] = stores[t]]
      BY <2>1 DEF FormatInit, Stores
    <3>2. UNCHANGED <<stores, cmd, at, next, dirty, stored, r>>
      BY <2>1 DEF FormatInit
    <3> QED BY <1>1, <3>1, <3>2 DEF TypeOK
  <2>2. CASE Execute(p)
    <3>1. mem' \in [Procs -> [Stores -> Attributes]]
      <4> DEFINE o == cmd[p].ops[next[p]]
                 s == Writes(cmd[p])
                 new == IF o.op = "set" THEN o.value
                        ELSE IF o.op = "del" THEN Absent
                        ELSE mem[p][s][o.key]
      <4>1. o.key \in Keys /\ o.value \in Values /\ s \in Stores
        BY <2>2, OperationTypes, ModeTypes DEF Execute, Operation
      <4>2. mem[p][s][o.key] \in Values \cup {Absent}
        BY <4>1 DEF TypeOK, Attributes
      <4>3. new \in Values \cup {Absent}
        BY <4>1, <4>2
      <4>4. mem' = [mem EXCEPT ![p][s][o.key] = new]
        BY <2>2 DEF Execute
      <4> HIDE DEF o, s, new
      <4> QED BY <4>1, <4>3, <4>4 DEF TypeOK, Attributes
    <3>2. dirty' \in [Procs -> BOOLEAN]
      BY <2>2 DEF Execute, TypeOK
    <3>3. next' \in [Procs -> Nat \ {0}]
      BY <2>2 DEF Execute, TypeOK
    <3> QED BY <1>1, <2>2, <3>1, <3>2, <3>3 DEF Execute, TypeOK
  <2>3. CASE Commit(p)
    BY <1>1, <2>3, ModeTypes DEF Commit, TypeOK, locals
  <2>4. CASE ~FormatInit(p) /\ ~Execute(p) /\ ~Commit(p)
    <3>1. UNCHANGED <<stores, cmd, locals, stored>>
      BY <1>3, <2>4
         DEF Main, Validate, Acquire, Acquired, NotAcquired, FormatInitFails,
             ExecuteFails, Executed, CommitReturns, CommitFails, Release, Exit, Kill
    <3>2. /\ at' = at \/ \E l \in {"lock", "work", "commit", "release", "exited", "dead"} :
                             at' = [at EXCEPT ![p] = l]
          /\ r' = r \/ r' = [r EXCEPT ![p] = "error"]
      BY <1>3, <2>4
         DEF Main, Validate, Acquire, Acquired, NotAcquired, FormatInitFails, At, Returns,
             ExecuteFails, Executed, CommitReturns, CommitFails, Release, Exit, Kill
    <3> QED BY <1>1, <3>1, <3>2 DEF locals, TypeOK
  <2> QED BY <2>1, <2>2, <2>3, <2>4
<1> QED BY <1>2, <1>3 DEF Next

(***************************************************************************)
(* Every reachable state of main and the lock is well typed.               *)
(***************************************************************************)
THEOREM CliTypeCorrect == Spec => []TypeOK
BY CliTypeInit, CliTypeNext, PTL DEF Spec
-----------------------------------------------------------------------------
(***************************************************************************)
(* Operations on a list                                                    *)
(***************************************************************************)
\* An operation makes a list of a list.
LEMMA AppliedType ==
    ASSUME NEW o \in Operation, NEW list \in Attributes
    PROVE  Applied(o, list) \in Attributes
BY DEF Applied, Attributes, Operation

\* After is the recursion that it is written as.
LEMMA AfterRecursion ==
    ASSUME NEW ops \in Seq(Operation), NEW list \in Attributes
    PROVE  /\ After(ops, list, 0) = list
           /\ \A n \in 1..Len(ops) :
                After(ops, list, n) = Applied(ops[n], After(ops, list, n - 1))
<1> DEFINE D == 0..Len(ops)
           rank == [n \in D |-> n]
           Value(n, f) == IF n = 0 THEN list
                          ELSE IF f[n - 1] \in Attributes THEN Applied(ops[n], f[n - 1])
                          ELSE list
           F == [D -> Attributes]
           Equation == [n \in D |-> [f \in F |-> Value(n, f)]]
           result == CHOOSE f : f = [n \in D |-> IF n = 0 THEN list
                                                  ELSE Applied(ops[n], f[n - 1])]
<1>1. \A n \in D, f \in F :
        /\ n # 0 => n - 1 \in D /\ n \in 1..Len(ops) /\ ops[n] \in Operation
        /\ Value(n, f) \in Attributes
        /\ Value(n, f) = IF n = 0 THEN list ELSE Applied(ops[n], f[n - 1])
  BY AppliedType
<1>2. Recursive(D, Attributes, rank, Equation)
  <2>1. rank \in [D -> Nat]
    OBVIOUS
  <2>2. Equation \in [D -> [F -> Attributes]]
    BY <1>1
  <2>3. ASSUME NEW n \in D, NEW g \in F, NEW h \in F,
               \A m \in D : rank[m] < rank[n] => g[m] = h[m]
        PROVE  Equation[n][g] = Equation[n][h]
    <3>1. n # 0 => g[n - 1] = h[n - 1]
      BY <2>3, <1>1
    <3> QED
      BY <3>1
  <2> QED
    BY <2>1, <2>2, <2>3 DEF Recursive
<1>3. PICK f \in F : \A n \in D : f[n] = Equation[n][f]
  <2> HIDE DEF D, F, rank, Equation
  <2> QED
    BY <1>2, RecursiveFunctionExists DEF F
<1>4. f = [n \in D |-> IF n = 0 THEN list ELSE Applied(ops[n], f[n - 1])]
  BY <1>1, <1>3
<1>5. result = [n \in D |-> IF n = 0 THEN list ELSE Applied(ops[n], result[n - 1])]
  BY <1>4
<1>6. \A n \in D : After(ops, list, n) = result[n]
  BY DEF After
<1> QED
  BY <1>5, <1>6

\* A step of main changes nothing of the other runs.
LEMMA Frame ==
    ASSUME TypeOK, NEW p \in Procs, Main(p) \/ Kill(p)
    PROVE  /\ cmd' = cmd
           /\ \A q \in Procs \ {p} :
                /\ at'[q] = at[q]
                /\ pc'[q] = pc[q]
                /\ opened'[q] = opened[q]
                /\ read'[q] = read[q]
                /\ mem'[q] = mem[q]
                /\ next'[q] = next[q]
                /\ dirty'[q] = dirty[q]
                /\ stored'[q] = stored[q]
                /\ r'[q] = r[q]
<1>1. cmd' = cmd
  BY DEF Main, Validate, Acquire, Acquired, NotAcquired, FormatInit, FormatInitFails,
         Execute, ExecuteFails, Executed, Commit, CommitReturns, CommitFails, Release,
         Exit, Kill
<1>2. ASSUME NEW q \in Procs \ {p} PROVE pc'[q] = pc[q]
  <2>1. CASE Acquire(p) \/ Release(p) \/ Kill(p)
    <3>1. pc' = [pc EXCEPT ![p] = pc'[p]]
      BY <2>1, LockSteps
    <3> HIDE DEF Main, Kill
    <3> QED BY <3>1, <1>2 DEF TypeOK, LockTypeOK
  <2>2. CASE ~Acquire(p) /\ ~Release(p) /\ ~Kill(p)
    BY <2>2
       DEF Main, Validate, Acquired, NotAcquired, FormatInit, FormatInitFails, lockvars,
           Execute, ExecuteFails, Executed, Commit, CommitReturns, CommitFails, Exit
  <2> QED BY <2>1, <2>2
<1>3. ASSUME NEW q \in Procs \ {p} PROVE at'[q] = at[q] /\ r'[q] = r[q]
  BY <1>3
     DEF Main, Validate, Acquire, Acquired, NotAcquired, FormatInit, FormatInitFails,
         Execute, ExecuteFails, Executed, Commit, CommitReturns, CommitFails, Release,
         Exit, Kill, At, Returns, TypeOK
<1>4. ASSUME NEW q \in Procs \ {p}
      PROVE  /\ opened'[q] = opened[q]
             /\ read'[q] = read[q]
             /\ mem'[q] = mem[q]
             /\ next'[q] = next[q]
             /\ dirty'[q] = dirty[q]
             /\ stored'[q] = stored[q]
  BY <1>4
     DEF Main, Validate, Acquire, Acquired, NotAcquired, FormatInit, FormatInitFails,
         Execute, ExecuteFails, Executed, Commit, CommitReturns, CommitFails, Release,
         Exit, Kill, locals, TypeOK
<1> QED BY <1>1, <1>2, <1>3, <1>4

\* main and the lock stay in step.
LEMMA LockMatchesNext ==
    ASSUME TypeOK, TypeOK', LockMatches, Validated, NEW p \in Procs, Main(p) \/ Kill(p)
    PROVE  LockMatches' /\ Validated'
<1> DEFINE Own == /\ at'[p] = "args" => pc'[p] = "start"
                  /\ at'[p] = "lock" =>
                        pc'[p] \in {"start", "try", "locked", "timeout", "failed"}
                  /\ at'[p] \in {"work", "commit"} => pc'[p] = "locked"
                  /\ at'[p] = "release" =>
                        pc'[p] \in {"locked", "unlink", "released", "already_removed",
                                    "unreleased"}
                  /\ at'[p] \notin {"args", "exited", "dead"} => validate_operations(cmd[p])
<1>5. Own
  <2>1. CASE Acquire(p)
    <3>1. at' = at /\ at[p] = "lock"
      BY <2>1 DEF Acquire
    <3>2. pc'[p] \in {"try", "locked", "timeout", "failed"}
      BY <2>1, LockSteps
    <3>3. validate_operations(cmd[p])
      BY <3>1 DEF Validated
    <3> QED BY <3>1, <3>2, <3>3
  <2>2. CASE Release(p)
    <3>1. at' = at /\ at[p] = "release"
      BY <2>2 DEF Release
    <3>2. pc'[p] \in {"unlink", "released", "already_removed", "unreleased"}
      BY <2>2, LockSteps
    <3>3. validate_operations(cmd[p])
      BY <3>1 DEF Validated
    <3> QED BY <3>1, <3>2, <3>3
  <2>3. CASE Kill(p)
    <3>1. at'[p] = "dead"
      BY <2>3 DEF Kill, At, TypeOK
    <3> QED BY <3>1
  <2>4. CASE ~Acquire(p) /\ ~Release(p) /\ ~Kill(p)
    <3>1. pc' = pc
      BY <2>4
         DEF Main, Validate, Acquired, NotAcquired, FormatInit, FormatInitFails, lockvars,
             Execute, ExecuteFails, Executed, Commit, CommitReturns, CommitFails, Exit
    <3>2. CASE Validate(p)
      <4>1. pc[p] = "start"
        BY <3>2 DEF Validate, LockMatches
      <4>2. at'[p] = "exited" \/ (at'[p] = "lock" /\ validate_operations(cmd[p]))
        BY <3>2 DEF Validate, At, TypeOK
      <4> QED BY <3>1, <4>1, <4>2
    <3>3. CASE Acquired(p)
      <4>1. at'[p] = "work" /\ pc[p] = "locked" /\ validate_operations(cmd[p])
        BY <3>3 DEF Acquired, At, TypeOK, Validated
      <4> QED BY <3>1, <4>1
    <3>4. CASE NotAcquired(p) \/ Exit(p)
      <4>1. at'[p] = "exited"
        BY <3>4 DEF NotAcquired, Exit, At, TypeOK
      <4> QED BY <4>1
    <3>5. CASE ~Validate(p) /\ ~Acquired(p) /\ ~NotAcquired(p) /\ ~Exit(p)
      <4>1. at[p] \in {"work", "commit"} /\ at'[p] \in {"work", "commit", "release"}
        BY <2>4, <3>5
           DEF Main, FormatInit, FormatInitFails, Execute, ExecuteFails, Executed, Executing,
               Commit, CommitReturns, CommitFails, At, TypeOK
      <4>2. pc[p] = "locked" /\ validate_operations(cmd[p])
        BY <4>1 DEF LockMatches, Validated
      <4> QED BY <3>1, <4>1, <4>2
    <3> QED BY <3>2, <3>3, <3>4, <3>5
  <2> QED BY <2>1, <2>2, <2>3, <2>4
<1> HIDE DEF Own
<1>6. \A q \in Procs \ {p} : at'[q] = at[q] /\ pc'[q] = pc[q] /\ cmd'[q] = cmd[q]
  BY Frame
<1>7. LockMatches'
  BY <1>5, <1>6 DEF Own, LockMatches
<1>8. Validated'
  BY <1>5, <1>6, Frame DEF Own, Validated
<1> QED BY <1>7, <1>8

\* No store is read before the lock is taken.
LEMMA OpenedNext ==
    ASSUME TypeOK, TypeOK', OpenedLocked, NEW p \in Procs, Main(p) \/ Kill(p)
    PROVE  OpenedLocked'
<1>1. at'[p] \in {"args", "lock"} => at[p] \in {"args", "lock"}
  BY DEF Main, Validate, Acquire, Acquired, NotAcquired, FormatInit, FormatInitFails, Execute,
         Executing, ExecuteFails, Executed, Commit, CommitReturns, CommitFails, Release, Exit,
         Kill, At, TypeOK
<1>2. CASE FormatInit(p)
  <2>1. at'[p] = "work"
    BY <1>2 DEF FormatInit
  <2> QED BY <2>1, Frame DEF OpenedLocked
<1>3. CASE ~FormatInit(p)
  <2>1. opened' = opened
    BY <1>3
       DEF Main, Validate, Acquire, Acquired, NotAcquired, FormatInitFails, Execute, locals,
           ExecuteFails, Executed, Commit, CommitReturns, CommitFails, Release, Exit, Kill
  <2> QED BY <1>1, <2>1, Frame DEF OpenedLocked
<1> QED BY <1>2, <1>3

\* What the operations of a run may change, once they are validated.
LEMMA ValidatedChange ==
    ASSUME TypeOK, Validated, NEW p \in Procs, Executing(p)
    PROVE  LET o == cmd[p].ops[next[p]]
               s == Writes(cmd[p])
           IN  /\ o.op \in {"set", "del"} /\ s = "system" => cmd[p].unlocked
               /\ o.op = "set" /\ s = "system" /\ PrefixEnforced => o.key \in SysKeys
               /\ o.op = "set" /\ s = "user" /\ PrefixEnforced => o.key \notin SysKeys
<1>1. next[p] \in DOMAIN cmd[p].ops
  BY OperationTypes
<1>2. validate_operations(cmd[p])
  BY DEF Validated, Executing
<1> QED
  BY <1>1, <1>2 DEF validate_operations, validate_set, validate_del

\* No list gets a key it must not have.
LEMMA SeparatedNext ==
    ASSUME TypeOK, TypeOK', Validated, ListsSeparated, NEW p \in Procs, Main(p) \/ Kill(p)
    PROVE  ListsSeparated'
<1>1. \A q \in Procs \ {p} : mem'[q] = mem[q]
  BY Frame
<1>2. Separated(stores') /\ Separated(mem'[p])
  <2>1. CASE FormatInit(p)
    <3>1. PICK t \in Stores : mem' = [mem EXCEPT ![p][t] = stores[t]]
      BY <2>1 DEF FormatInit, Stores
    <3>2. mem'[p]["system"] \in {mem[p]["system"], stores["system"]}
          /\ mem'[p]["user"] \in {mem[p]["user"], stores["user"]}
      BY <3>1 DEF TypeOK, Stores
    <3>3. stores' = stores
      BY <2>1 DEF FormatInit
    <3> QED BY <3>2, <3>3 DEF ListsSeparated, Separated
  <2>2. CASE Execute(p)
    <3> DEFINE o == cmd[p].ops[next[p]]
               s == Writes(cmd[p])
    <3>1. o.key \in Keys /\ s \in Stores /\ Executing(p)
      BY <2>2, OperationTypes, ModeTypes DEF Execute, Operation
    <3>2. PICK new :
            /\ mem' = [mem EXCEPT ![p][s][o.key] = new]
            /\ new = IF o.op = "set" THEN o.value
                     ELSE IF o.op = "del" THEN Absent
                     ELSE mem[p][s][o.key]
      BY <2>2 DEF Execute
    <3>3. /\ o.op = "set" /\ s = "system" /\ PrefixEnforced => o.key \in SysKeys
          /\ o.op = "set" /\ s = "user" /\ PrefixEnforced => o.key \notin SysKeys
      BY <3>1, ValidatedChange
    <3>4. stores' = stores
      BY <2>2 DEF Execute
    <3>5. Separated(mem[p]) /\ Separated(stores)
      BY DEF ListsSeparated
    <3> HIDE DEF o, s
    <3>6. mem[p] \in [Stores -> Attributes]
      BY DEF TypeOK
    <3>7. mem'[p] = [mem[p] EXCEPT ![s][o.key] = new]
      BY <3>2 DEF TypeOK
    <3>8. \A t \in Stores, k \in Keys :
            mem'[p][t][k] = IF t = s /\ k = o.key THEN new ELSE mem[p][t][k]
      BY <3>1, <3>6, <3>7 DEF Attributes
    <3>9. ASSUME PrefixEnforced, NEW k \in Keys
          PROVE  /\ mem'[p]["system"][k] # Absent => k \in SysKeys
                 /\ mem'[p]["user"][k] # Absent => k \notin SysKeys
      <4>1. /\ mem[p]["system"][k] # Absent => k \in SysKeys
            /\ mem[p]["user"][k] # Absent => k \notin SysKeys
        BY <3>5, <3>9 DEF Separated
      <4> QED BY <3>1, <3>2, <3>3, <3>8, <3>9, <4>1 DEF Stores
    <3> QED BY <3>4, <3>5, <3>9 DEF Separated
  <2>3. CASE Commit(p)
    <3>1. stores' = [stores EXCEPT ![Writes(cmd[p])] = mem[p][Writes(cmd[p])]]
          /\ mem' = mem
      BY <2>3 DEF Commit, locals
    <3>2. stores'["system"] \in {mem[p]["system"], stores["system"]}
          /\ stores'["user"] \in {mem[p]["user"], stores["user"]}
      BY <3>1, ModeTypes DEF TypeOK, Stores
    <3> QED BY <3>1, <3>2 DEF ListsSeparated, Separated
  <2>4. CASE ~FormatInit(p) /\ ~Execute(p) /\ ~Commit(p)
    <3>1. stores' = stores /\ mem' = mem
      BY <2>4
         DEF Main, Validate, Acquire, Acquired, NotAcquired, FormatInitFails, locals,
             ExecuteFails, Executed, CommitReturns, CommitFails, Release, Exit, Kill
    <3> QED BY <3>1 DEF ListsSeparated
  <2> QED BY <2>1, <2>2, <2>3, <2>4
<1> QED BY <1>1, <1>2 DEF ListsSeparated, Separated

\* write_performed tells whether the list to be written has changed.
LEMMA ChangesNext ==
    ASSUME TypeOK, TypeOK', Validated, ChangesNoticed, NEW p \in Procs, Main(p) \/ Kill(p)
    PROVE  ChangesNoticed'
<1> DEFINE s == Writes(cmd[p])
<1>1. /\ ~dirty[p] => mem[p][s] = read[p][s]
      /\ dirty[p] /\ s = "system" => cmd[p].unlocked
  BY DEF ChangesNoticed
<1>2. /\ ~dirty'[p] => mem'[p][s] = read'[p][s]
      /\ dirty'[p] /\ s = "system" => cmd[p].unlocked
  <2>1. CASE FormatInit(p)
    <3>1. PICK t \in Stores :
            /\ read' = [read EXCEPT ![p][t] = stores[t]]
            /\ mem' = [mem EXCEPT ![p][t] = stores[t]]
      BY <2>1 DEF FormatInit, Stores
    <3>2. dirty' = dirty /\ s \in Stores
      BY <2>1, ModeTypes DEF FormatInit
    <3> HIDE DEF s
    <3>3. mem'[p][s] = (IF s = t THEN stores[t] ELSE mem[p][s])
          /\ read'[p][s] = (IF s = t THEN stores[t] ELSE read[p][s])
      BY <3>1, <3>2 DEF TypeOK
    <3> QED BY <1>1, <3>2, <3>3
  <2>2. CASE Execute(p)
    <3> DEFINE o == cmd[p].ops[next[p]]
               new == IF o.op = "set" THEN o.value
                      ELSE IF o.op = "del" THEN Absent
                      ELSE mem[p][s][o.key]
    <3>1. o.key \in Keys /\ s \in Stores /\ Executing(p)
      BY <2>2, OperationTypes, ModeTypes DEF Execute, Operation
    <3>2. o.op \in {"set", "del"} /\ s = "system" => cmd[p].unlocked
      BY <3>1, ValidatedChange
    <3>3. /\ mem' = [mem EXCEPT ![p][s][o.key] = new]
          /\ dirty' = [dirty EXCEPT ![p] = @ \/ new # mem[p][s][o.key]]
          /\ read' = read
      BY <2>2 DEF Execute
    <3>4. new # mem[p][s][o.key] => o.op \in {"set", "del"}
      OBVIOUS
    <3> HIDE DEF o, s, new
    <3>5. mem[p][s] \in Attributes
      BY <3>1 DEF TypeOK
    <3>6. mem'[p][s] = [mem[p][s] EXCEPT ![o.key] = new]
      BY <3>1, <3>3 DEF TypeOK
    <3>7. new = mem[p][s][o.key] => mem'[p][s] = mem[p][s]
      BY <3>1, <3>5, <3>6 DEF Attributes
    <3>8. dirty'[p] <=> dirty[p] \/ new # mem[p][s][o.key]
      BY <3>3 DEF TypeOK
    <3> QED BY <1>1, <3>2, <3>3, <3>4, <3>7, <3>8
  <2>3. CASE ~FormatInit(p) /\ ~Execute(p)
    <3>1. UNCHANGED <<read, mem, dirty>>
      BY <2>3
         DEF Main, Validate, Acquire, Acquired, NotAcquired, FormatInitFails, locals, Commit,
             ExecuteFails, Executed, CommitReturns, CommitFails, Release, Exit, Kill
    <3> QED BY <1>1, <3>1
  <2> QED BY <2>1, <2>2, <2>3
<1> HIDE DEF s
<1>3. \A q \in Procs \ {p} : mem'[q] = mem[q] /\ read'[q] = read[q] /\ dirty'[q] = dirty[q]
  BY Frame
<1> QED BY <1>2, <1>3, Frame DEF s, ChangesNoticed

\* Whoever is about to leave with 0 has done his work.
LEMMA DoneNext ==
    ASSUME TypeOK, TypeOK', LockMatches, ChangesNoticed, DoneWhenOk,
           NEW p \in Procs, Main(p) \/ Kill(p)
    PROVE  DoneWhenOk'
<1> DEFINE Own == /\ at'[p] = "commit" => next'[p] > Len(cmd[p].ops) /\ dirty'[p]
                  /\ r'[p] = "ok" /\ (at'[p] = "release"
                                        \/ (at'[p] = "exited" /\ pc'[p] = "released"))
                        => (ExecutedAll(p) /\ (Kept(p) \/ Dropped(p)))'
<1>1. cmd' = cmd
  BY Frame
<1>2. Own
  <2>1. CASE Acquire(p) \/ Acquired(p) \/ FormatInit(p) \/ Execute(p) \/ Kill(p)
    <3>1. at'[p] \in {"lock", "work", "dead"}
      BY <2>1 DEF Acquire, Acquired, FormatInit, Execute, Executing, Kill, At, TypeOK
    <3> QED BY <3>1
  <2>2. CASE Validate(p)
    <3>1. at'[p] = "lock" \/ r'[p] = "error"
      BY <2>2 DEF Validate, At, Returns, TypeOK
    <3>2. at'[p] \in {"lock", "exited"}
      BY <2>2 DEF Validate, At, TypeOK
    <3> QED BY <3>1, <3>2
  <2>3. CASE NotAcquired(p)
    <3>1. at'[p] = "exited" /\ pc'[p] \in {"timeout", "failed"}
      BY <2>3 DEF NotAcquired, At, TypeOK, lockvars
    <3> QED BY <3>1
  <2>4. CASE FormatInitFails(p) \/ ExecuteFails(p) \/ CommitFails(p)
    <3>1. r'[p] = "error" /\ at'[p] = "release"
      BY <2>4 DEF FormatInitFails, ExecuteFails, CommitFails, Returns, At, TypeOK
    <3> QED BY <3>1
  <2>5. CASE Executed(p)
    <3>1. /\ next[p] > Len(cmd[p].ops)
          /\ at'[p] = IF dirty[p] THEN "commit" ELSE "release"
          /\ UNCHANGED <<read, mem, next, dirty, stored>>
      BY <2>5 DEF Executed, At, TypeOK, locals
    <3>2. ~dirty[p] => mem[p][Writes(cmd[p])] = read[p][Writes(cmd[p])]
      BY DEF ChangesNoticed
    <3> QED BY <1>1, <3>1, <3>2 DEF ExecutedAll, Kept
  <2>6. CASE Commit(p)
    <3>1. at' = at /\ at[p] = "commit" /\ UNCHANGED <<next, dirty>>
      BY <2>6 DEF Commit, locals
    <3> QED BY <3>1 DEF DoneWhenOk
  <2>7. CASE CommitReturns(p)
    <3>1. /\ at[p] = "commit" /\ at'[p] = "release" /\ (stored[p] \/ Dropped(p))
          /\ UNCHANGED <<read, mem, next, dirty, stored>>
      BY <2>7 DEF CommitReturns, At, TypeOK, locals, Dropped
    <3> QED BY <1>1, <3>1 DEF ExecutedAll, Kept, Dropped, DoneWhenOk
  <2>8. CASE Release(p)
    <3>1. at' = at /\ at[p] = "release" /\ r' = r /\ UNCHANGED <<read, mem, next, dirty, stored>>
      BY <2>8 DEF Release, locals
    <3> QED BY <1>1, <3>1 DEF ExecutedAll, Kept, Dropped, DoneWhenOk
  <2>9. CASE Exit(p)
    <3>1. /\ at[p] = "release" /\ at'[p] = "exited"
          /\ UNCHANGED <<read, mem, next, dirty, stored>>
          /\ r' = r \/ r'[p] = "error"
      BY <2>9 DEF Exit, At, Returns, TypeOK, locals
    <3> QED BY <1>1, <3>1 DEF ExecutedAll, Kept, Dropped, DoneWhenOk
  <2> QED BY <2>1, <2>2, <2>3, <2>4, <2>5, <2>6, <2>7, <2>8, <2>9 DEF Main
<1> HIDE DEF Own
<1>3. ASSUME NEW q \in Procs \ {p}
      PROVE  /\ at'[q] = "commit" => next'[q] > Len(cmd[q].ops) /\ dirty'[q]
             /\ r'[q] = "ok" /\ (at'[q] = "release"
                                   \/ (at'[q] = "exited" /\ pc'[q] = "released"))
                   => (ExecutedAll(q) /\ (Kept(q) \/ Dropped(q)))'
  BY <1>3, Frame DEF DoneWhenOk, ExecutedAll, Kept, Dropped
<1> QED BY <1>1, <1>2, <1>3 DEF Own, DoneWhenOk

\* What Execute does to the list that the run may change.
LEMMA ExecuteApplies ==
    ASSUME TypeOK, NEW p \in Procs, Execute(p)
    PROVE  LET s == Writes(cmd[p])
           IN  mem'[p][s] = Applied(cmd[p].ops[next[p]], mem[p][s])
<1> DEFINE o == cmd[p].ops[next[p]]
           s == Writes(cmd[p])
           new == IF o.op = "set" THEN o.value
                  ELSE IF o.op = "del" THEN Absent
                  ELSE mem[p][s][o.key]
<1>1. o \in Operation /\ s \in Stores
  BY OperationTypes, ModeTypes DEF Execute
<1>2. mem[p][s] \in Attributes /\ mem \in [Procs -> [Stores -> Attributes]]
  BY <1>1 DEF TypeOK
<1>3. mem' = [mem EXCEPT ![p][s][o.key] = new]
  BY DEF Execute
<1> HIDE DEF o, s
<1>4. mem'[p][s] = [mem[p][s] EXCEPT ![o.key] = new]
  BY <1>1, <1>2, <1>3
<1>5. mem'[p][s] = Applied(o, mem[p][s])
  BY <1>1, <1>2, <1>4 DEF Applied, Attributes, Operation
<1> QED
  BY <1>5 DEF o, s

\* The list in memory stays the list that was read after the executed operations.
LEMMA WorkNext ==
    ASSUME TypeOK, TypeOK', OpenedLocked, WorkDone, NEW p \in Procs, Main(p) \/ Kill(p)
    PROVE  WorkDone'
<1> DEFINE c == cmd[p]
           s == Writes(c)
           Work(q) == LET d == cmd[q]
                          t == Writes(d)
                      IN  /\ next[q] <= Len(d.ops) + 1
                          /\ next[q] > 1 \/ at[q] = "commit" => Reads(d) \subseteq opened[q]
                          /\ mem[q][t] = After(d.ops, read[q][t], next[q] - 1)
<1>1. cmd' = cmd /\ \A q \in Procs \ {p} : Work(q)'
  BY Frame DEF WorkDone
<1>2. c.ops \in Seq(Operation) /\ s \in Stores /\ next[p] \in Nat \ {0} /\ Reads(c) \subseteq Stores
  BY CommandsAssumption, ModeTypes DEF TypeOK
<1>3. Work(p)
  BY DEF WorkDone
<1>4. Work(p)'
  <2>1. CASE FormatInit(p)
    <3>1. PICK t \in Stores :
            /\ opened' = [opened EXCEPT ![p] = @ \cup {t}]
            /\ read' = [read EXCEPT ![p][t] = stores[t]]
            /\ mem' = [mem EXCEPT ![p][t] = stores[t]]
      BY <2>1 DEF FormatInit, Stores
    <3>2. next' = next /\ at' = at /\ at[p] = "work" /\ ~(Reads(c) \subseteq opened[p])
      BY <2>1 DEF FormatInit
    <3>3. next[p] = 1
      BY <1>2, <1>3, <3>2
    <3>4. mem[p][s] = read[p][s] /\ read[p][s] \in Attributes
      BY <1>2, <1>3, <3>3, AfterRecursion DEF TypeOK
    <3>5. mem'[p][s] = read'[p][s] /\ read'[p][s] \in Attributes
      BY <1>2, <3>1, <3>4 DEF TypeOK
    <3>6. mem'[p][s] = After(c.ops, read'[p][s], 0)
      BY <1>2, <3>5, AfterRecursion
    <3> QED
      BY <1>1, <1>2, <3>2, <3>3, <3>6
  <2>2. CASE Execute(p)
    <3>1. /\ next[p] <= Len(c.ops)
          /\ Reads(c) \subseteq opened[p]
          /\ next'[p] = next[p] + 1
          /\ UNCHANGED <<at, opened, read>>
      BY <2>2 DEF Execute, Executing, TypeOK
    <3>2. mem'[p][s] = Applied(c.ops[next[p]], mem[p][s])
      BY <2>2, ExecuteApplies
    <3>3. next[p] \in 1..Len(c.ops) /\ read[p][s] \in Attributes
      BY <1>2, <3>1 DEF TypeOK
    <3>4. After(c.ops, read[p][s], next[p])
            = Applied(c.ops[next[p]], After(c.ops, read[p][s], next[p] - 1))
      BY <1>2, <3>3, AfterRecursion
    <3>5. mem'[p][s] = After(c.ops, read[p][s], next[p])
      BY <1>3, <3>2, <3>4
    <3>6. next'[p] - 1 = next[p] /\ next'[p] <= Len(c.ops) + 1
      BY <1>2, <3>1
    <3> QED
      BY <1>1, <3>1, <3>5, <3>6
  <2>3. CASE ~FormatInit(p) /\ ~Execute(p)
    <3>1. UNCHANGED <<opened, read, mem, next>>
      BY <2>3
         DEF Main, Validate, Acquire, Acquired, NotAcquired, FormatInitFails, ExecuteFails,
             Executed, Commit, CommitReturns, CommitFails, Release, Exit, Kill, locals
    <3>2. at'[p] = "commit" => at[p] = "commit" \/ Reads(c) \subseteq opened[p]
      BY <2>3
         DEF Main, Validate, Acquire, Acquired, NotAcquired, FormatInitFails, ExecuteFails,
             Executed, Commit, CommitReturns, CommitFails, Release, Exit, Kill, At, TypeOK
    <3> QED
      BY <1>1, <1>3, <3>1, <3>2
  <2> QED
    BY <2>1, <2>2, <2>3
<1> HIDE DEF Work
<1>5. \A q \in Procs : Work(q)'
  BY <1>1, <1>4
<1> QED
  BY <1>5 DEF Work, WorkDone

\* The invariant holds initially.
LEMMA CliInvInit == Init => CliInv
<1> SUFFICES ASSUME Init PROVE CliInv
  OBVIOUS
<1>1. TypeOK
  BY CliTypeInit
<1>2. LockMatches /\ OpenedLocked
  BY DEF Init, LockInit, LockMatches, OpenedLocked
<1>3. Validated /\ ChangesNoticed /\ DoneWhenOk
  BY DEF Init, Validated, ChangesNoticed, DoneWhenOk
<1>4. Separated(Nothing)
  BY DEF Separated, Nothing, Stores
<1>5. ListsSeparated
  BY <1>4 DEF Init, ListsSeparated
<1>6. WorkDone
  <2> SUFFICES ASSUME NEW p \in Procs
               PROVE  LET c == cmd[p]
                          s == Writes(c)
                      IN  /\ next[p] <= Len(c.ops) + 1
                          /\ next[p] > 1 \/ at[p] = "commit" => Reads(c) \subseteq opened[p]
                          /\ mem[p][s] = After(c.ops, read[p][s], next[p] - 1)
    BY DEF WorkDone
  <2>1. cmd[p].ops \in Seq(Operation) /\ Writes(cmd[p]) \in Stores
    BY <1>1, CommandsAssumption, ModeTypes DEF TypeOK
  <2>2. next[p] = 1 /\ at[p] = "args" /\ mem[p] = read[p]
    BY DEF Init
  <2>3. read[p][Writes(cmd[p])] \in Attributes
    BY <1>1, <2>1 DEF TypeOK
  <2> QED BY <2>1, <2>2, <2>3, AfterRecursion
<1> QED BY <1>1, <1>2, <1>3, <1>5, <1>6 DEF CliInv

\* Every step preserves the invariant.
LEMMA CliInvNext == CliInv /\ [Next]_vars => CliInv'
<1> SUFFICES ASSUME CliInv, [Next]_vars PROVE CliInv'
  OBVIOUS
<1>1. TypeOK'
  BY CliTypeNext DEF CliInv
<1>2. CASE UNCHANGED vars
  BY <1>1, <1>2
     DEF vars, CliInv, LockMatches, OpenedLocked, Validated, ListsSeparated, Separated,
         ChangesNoticed, DoneWhenOk, ExecutedAll, Kept, Dropped, WorkDone
<1>3. ASSUME NEW p \in Procs, Main(p) \/ Kill(p) PROVE CliInv'
  <2>1. LockMatches' /\ Validated'
    BY <1>1, <1>3, LockMatchesNext DEF CliInv
  <2>2. ListsSeparated'
    BY <1>1, <1>3, SeparatedNext DEF CliInv
  <2>3. ChangesNoticed'
    BY <1>1, <1>3, ChangesNext DEF CliInv
  <2>4. DoneWhenOk'
    BY <1>1, <1>3, DoneNext DEF CliInv
  <2>5. OpenedLocked'
    BY <1>1, <1>3, OpenedNext DEF CliInv
  <2>6. WorkDone'
    BY <1>1, <1>3, WorkNext DEF CliInv
  <2> QED BY <1>1, <2>1, <2>2, <2>3, <2>4, <2>5, <2>6 DEF CliInv
<1> QED BY <1>2, <1>3 DEF Next

(***************************************************************************)
(* The invariant that the safety properties of main follow from.           *)
(***************************************************************************)
THEOREM CliInvariant == Spec => []CliInv
BY CliInvInit, CliInvNext, PTL DEF Spec

(***************************************************************************)
(* No command line puts an attribute into the store of the other kind,     *)
(* however many runs there are and whatever fails.                         *)
(***************************************************************************)
THEOREM StoresStaySeparated == Spec => []StoresSeparated
<1>1. CliInv => StoresSeparated
  BY DEF CliInv, ListsSeparated, StoresSeparated
<1> QED BY <1>1, CliInvariant, PTL

(***************************************************************************)
(* A run that got the lock and exits with 0 has executed its operations    *)
(* and stored what they changed, or had a list that cannot be serialized.  *)
(***************************************************************************)
THEOREM LockedRunsAreDone == Spec => []LockedSuccessMeansDone
<1>1. CliInv => LockedSuccessMeansDone
  BY DEF CliInv, DoneWhenOk, LockedSuccessMeansDone
<1> QED BY <1>1, CliInvariant, PTL

(***************************************************************************)
(* Only runs with the unlock magic change the system store.                *)
(***************************************************************************)
THEOREM SystemStoreGuarded == Spec => SystemWritesUnlocked
<1>1. ASSUME CliInv, [Next]_vars, stores'["system"] # stores["system"]
      PROVE  \E p \in Procs : stored'[p] /\ ~stored[p] /\ cmd[p].unlocked
  <2>1. stores' # stores
    BY <1>1
  <2>2. PICK p \in Procs : Commit(p)
    BY <1>1, <2>1
       DEF Next, vars, Main, Validate, Acquire, Acquired, NotAcquired, FormatInit,
           FormatInitFails, Execute, ExecuteFails, Executed, CommitReturns, CommitFails,
           Release, Exit, Kill
  <2>3. Writes(cmd[p]) = "system"
    <3>1. stores' = [stores EXCEPT ![Writes(cmd[p])] = mem[p][Writes(cmd[p])]]
      BY <2>2 DEF Commit
    <3> QED BY <1>1, <3>1 DEF CliInv, TypeOK, Stores
  <2>4. dirty[p]
    BY <1>1, <2>2 DEF Commit, CliInv, DoneWhenOk
  <2>5. stored'[p] /\ ~stored[p]
    BY <1>1, <2>2 DEF Commit, CliInv, TypeOK
  <2> QED BY <1>1, <2>3, <2>4, <2>5 DEF CliInv, ChangesNoticed
<1>2. CliInv /\ [Next]_vars =>
        [stores'["system"] # stores["system"] =>
            \E p \in Procs : stored'[p] /\ ~stored[p] /\ cmd[p].unlocked]_vars
  BY <1>1
<1> QED BY <1>2, CliInvariant, PTL DEF Spec, SystemWritesUnlocked
-----------------------------------------------------------------------------
(***************************************************************************)
(* Runs and the lock they share                                            *)
(***************************************************************************)
(***************************************************************************)
(* Runs of the whole program use the lock file as Lockfile describes, so   *)
(* that what is proved there holds for them too.                           *)
(***************************************************************************)
THEOREM RunsUseTheLock == Spec => LockSpec
<1>1. Init => LockInit
  BY DEF Init
<1>2. [Next]_vars => [LockNext]_lockvars
  BY LockStep
<1> QED BY <1>1, <1>2, PTL DEF Spec, LockSpec

(***************************************************************************)
(* However many runs of the whole program there are, two are inside the    *)
(* lock only if a third one has unlinked the file of one of them.          *)
(***************************************************************************)
THEOREM RunsExcludeEachOther == Spec => []ExclusionUnlessLost
BY RunsUseTheLock, RunsExclude, PTL

\* What was lost once stays lost: files, and what a run that is over has done.
LEMMA LostStays ==
    ASSUME LockTypeOK, [LockNext]_lockvars
    PROVE  /\ lost \subseteq lost'
           /\ \A q \in Procs : pc[q] = "released" => pc'[q] = "released"
<1>1. CASE UNCHANGED lockvars
  BY <1>1 DEF lockvars
<1>2. ASSUME NEW p \in Procs, Step(p) \/ Dies(p)
      PROVE  /\ lost \subseteq lost'
             /\ \A q \in Procs : pc[q] = "released" => pc'[q] = "released"
  <2>1. pc[p] # "released" /\ lost \subseteq lost'
    BY <1>2
       DEF Step, Open, OpenFails, FlockSucceeds, FlockBlocks, FlockTimesOut, FlockFails,
           Close, CloseFails, Unlink, UnlinkFails, Dies, Finished
  <2>2. \A q \in Procs \ {p} : pc'[q] = pc[q]
    BY <1>2
       DEF Step, Open, OpenFails, FlockSucceeds, FlockBlocks, FlockTimesOut, FlockFails,
           Close, CloseFails, Unlink, UnlinkFails, Dies, Goto, LockTypeOK
  <2> QED BY <2>1, <2>2
<1> QED BY <1>1, <1>2 DEF LockNext

\* A run that was overtaken stays so.
LEMMA OvertakenStays ==
    ASSUME CliInv, [Next]_vars, NEW p \in Procs, NEW s \in Stores, Overtaken(p, s)
    PROVE  Overtaken(p, s)'
<1>1. PICK q \in Procs \ {p} : stored[q] /\ Writes(cmd[q]) = s /\ LockLost(p, q)
  BY DEF Overtaken
<1>2. LockLost(p, q)'
  <2>1. LockTypeOK /\ [LockNext]_lockvars
    BY LockStep DEF CliInv, TypeOK
  <2> QED BY <1>1, <2>1, LostStays DEF LockLost
<1>3. stored'[q] /\ cmd' = cmd
  <2>1. CASE UNCHANGED vars
    BY <1>1, <2>1 DEF vars
  <2>2. ASSUME NEW x \in Procs, Main(x) \/ Kill(x) PROVE stored'[q] /\ cmd' = cmd
    <3>1. cmd' = cmd /\ (q # x => stored'[q] = stored[q])
      BY <2>2, Frame DEF CliInv
    <3>2. CASE Commit(x)
      BY <1>1, <3>1, <3>2 DEF Commit, CliInv, TypeOK
    <3>3. CASE ~Commit(x)
      <4>1. stored' = stored
        BY <2>2, <3>3
           DEF Main, Validate, Acquire, Acquired, NotAcquired, FormatInit, FormatInitFails,
               Execute, ExecuteFails, Executed, CommitReturns, CommitFails, Release, Exit,
               Kill, locals
      <4> QED BY <1>1, <3>1, <4>1
    <3> QED BY <3>2, <3>3
  <2> QED BY <2>1, <2>2 DEF Next
<1> QED BY <1>1, <1>2, <1>3 DEF Overtaken

\* A commit makes the other runs' snapshots stale only if they are inside as well.
LEMMA CommitOvertakes ==
    ASSUME CliInv, ExclusionUnlessLost, NEW p \in Procs, Commit(p),
           NEW q \in Procs \ {p}, at[q] \in {"work", "commit"},
           NEW s \in Stores, s = Writes(cmd[p])
    PROVE  Overtaken(q, s)'
<1>1. pc[p] = "locked" /\ pc[q] = "locked"
  BY DEF Commit, CliInv, LockMatches
<1>2. LockLost(q, p)
  BY <1>1 DEF ExclusionUnlessLost
<1>3. UNCHANGED <<pc, lost, cmd>> /\ stored'[p]
  BY DEF Commit, CliInv, TypeOK, lockvars
<1> QED BY <1>2, <1>3 DEF Overtaken, LockLost

\* Snapshots stay current, or their runs are overtaken.
LEMMA SnapshotNext ==
    CliInv /\ ExclusionUnlessLost /\ SnapshotIsCurrent /\ [Next]_vars => SnapshotIsCurrent'
<1> SUFFICES ASSUME CliInv, ExclusionUnlessLost, SnapshotIsCurrent, [Next]_vars
             PROVE  SnapshotIsCurrent'
  OBVIOUS
<1> DEFINE Current(q) ==
             \A s \in Stores :
                 at[q] \in {"work", "commit"} /\ ~stored[q] /\ s \in opened[q]
                     => read[q][s] = stores[s] \/ Overtaken(q, s)
<1>1. \A q \in Procs, s \in Stores : Overtaken(q, s) => Overtaken(q, s)'
  BY OvertakenStays
<1>2. CASE UNCHANGED vars
  BY <1>1, <1>2 DEF vars, SnapshotIsCurrent
<1>3. ASSUME NEW p \in Procs, Main(p) \/ Kill(p) PROVE SnapshotIsCurrent'
  <2>1. CASE Commit(p)
    <3>1. ASSUME NEW q \in Procs \ {p}, NEW s \in Stores,
                 at'[q] \in {"work", "commit"}, ~stored'[q], s \in opened'[q]
          PROVE  read'[q][s] = stores'[s] \/ Overtaken(q, s)'
      <4>1. /\ at[q] \in {"work", "commit"} /\ ~stored[q] /\ s \in opened[q]
            /\ read'[q] = read[q]
        BY <1>3, <3>1, Frame DEF CliInv
      <4>2. CASE s = Writes(cmd[p])
        BY <2>1, <4>1, <4>2, CommitOvertakes
      <4>3. CASE s # Writes(cmd[p])
        <5>1. stores'[s] = stores[s]
          BY <2>1, <4>3 DEF Commit, CliInv, TypeOK
        <5> QED BY <1>1, <4>1, <5>1 DEF SnapshotIsCurrent
      <4> QED BY <4>2, <4>3
    <3>2. stored'[p]
      BY <2>1 DEF Commit, CliInv, TypeOK
    <3> QED BY <3>1, <3>2 DEF SnapshotIsCurrent
  <2>2. CASE ~Commit(p)
    <3>1. stores' = stores
      BY <1>3, <2>2
         DEF Main, Validate, Acquire, Acquired, NotAcquired, FormatInit, FormatInitFails,
             Execute, ExecuteFails, Executed, CommitReturns, CommitFails, Release, Exit, Kill
    <3>2. \A q \in Procs \ {p} : Current(q)'
      <4>1. ASSUME NEW q \in Procs \ {p}
            PROVE  /\ at'[q] = at[q] /\ stored'[q] = stored[q]
                   /\ opened'[q] = opened[q] /\ read'[q] = read[q]
        BY <1>3, Frame DEF CliInv
      <4> QED BY <1>1, <3>1, <4>1 DEF SnapshotIsCurrent
    <3>3. Current(p)'
      <4>1. CASE FormatInit(p)
        <5>1. PICK t \in Stores :
                /\ opened' = [opened EXCEPT ![p] = @ \cup {t}]
                /\ read' = [read EXCEPT ![p][t] = stores[t]]
          BY <4>1 DEF FormatInit, Stores
        <5>2. at' = at /\ stored' = stored
          BY <4>1 DEF FormatInit
        <5> QED BY <1>1, <3>1, <5>1, <5>2 DEF CliInv, TypeOK, SnapshotIsCurrent
      <4>2. CASE Acquired(p)
        <5>1. at[p] = "lock" /\ opened' = opened
          BY <4>2 DEF Acquired, locals
        <5> QED BY <5>1 DEF CliInv, OpenedLocked
      <4>3. CASE ~FormatInit(p) /\ ~Acquired(p)
        <5>1. at'[p] \in {"work", "commit"} => at[p] \in {"work", "commit"}
          BY <1>3, <2>2, <4>3
             DEF Main, Validate, Acquire, NotAcquired, FormatInitFails, Execute, Executing,
                 ExecuteFails, Executed, CommitReturns, CommitFails, Release, Exit, Kill,
                 At, CliInv, TypeOK
        <5>2. UNCHANGED <<opened, read, stored>>
          BY <1>3, <2>2, <4>3
             DEF Main, Validate, Acquire, NotAcquired, FormatInitFails, Execute, locals,
                 ExecuteFails, Executed, CommitReturns, CommitFails, Release, Exit, Kill
        <5> QED BY <1>1, <3>1, <5>1, <5>2 DEF SnapshotIsCurrent
      <4> QED BY <4>1, <4>2, <4>3
    <3> HIDE DEF Current
    <3>4. \A q \in Procs : Current(q)'
      BY <3>2, <3>3
    <3> QED BY <3>4 DEF Current, SnapshotIsCurrent
  <2> QED BY <2>1, <2>2
<1> QED BY <1>2, <1>3 DEF Next

(***************************************************************************)
(* However many runs there are, one works on a list that another one has   *)
(* replaced only if the two got past the lock together.                    *)
(***************************************************************************)
THEOREM SnapshotsStayCurrent == Spec => []SnapshotIsCurrent
<1>1. Init => SnapshotIsCurrent
  BY DEF Init, SnapshotIsCurrent
<1> QED
  BY <1>1, SnapshotNext, CliInvariant, RunsExcludeEachOther, PTL DEF Spec

(***************************************************************************)
(* However many runs there are, a store changes only by all the operations *)
(* of one run, applied to what is stored unless that run was overtaken.    *)
(***************************************************************************)
THEOREM NoUpdateIsLost == Spec => NoLostUpdate
<1> DEFINE Whole(s) ==
             \E p \in Procs :
                 /\ stored'[p] /\ ~stored[p]
                 /\ Writes(cmd[p]) = s
                 /\ stores'[s] = After(cmd[p].ops, read[p][s], Len(cmd[p].ops))
                 /\ read[p][s] = stores[s] \/ Overtaken(p, s)
<1>1. ASSUME CliInv, SnapshotIsCurrent, [Next]_vars, NEW s \in Stores, stores'[s] # stores[s]
      PROVE  Whole(s)
  <2>1. stores' # stores
    BY <1>1
  <2>2. PICK p \in Procs : Commit(p)
    BY <1>1, <2>1
       DEF Next, vars, Main, Validate, Acquire, Acquired, NotAcquired, FormatInit,
           FormatInitFails, Execute, ExecuteFails, Executed, CommitReturns, CommitFails,
           Release, Exit, Kill
  <2> DEFINE c == cmd[p]
  <2>3. stores' = [stores EXCEPT ![Writes(c)] = mem[p][Writes(c)]]
    BY <2>2 DEF Commit
  <2>4. s = Writes(c) /\ stores'[s] = mem[p][s]
    BY <1>1, <2>3 DEF CliInv, TypeOK
  <2>5. stored'[p] /\ ~stored[p] /\ at[p] = "commit"
    BY <1>1, <2>2 DEF Commit, CliInv, TypeOK
  <2>6. next[p] - 1 = Len(c.ops)
    <3>1. next[p] > Len(c.ops) /\ next[p] <= Len(c.ops) + 1
      BY <1>1, <2>5 DEF CliInv, DoneWhenOk, WorkDone
    <3>2. next[p] \in Nat /\ Len(c.ops) \in Nat
      BY <1>1, CommandsAssumption DEF CliInv, TypeOK
    <3> QED
      BY <3>1, <3>2
  <2>7. mem[p][s] = After(c.ops, read[p][s], Len(c.ops))
    BY <1>1, <2>4, <2>6 DEF CliInv, WorkDone
  <2>8. read[p][s] = stores[s] \/ Overtaken(p, s)
    <3>1. s \in opened[p]
      BY <1>1, <2>4, <2>5 DEF CliInv, WorkDone, Reads, Writes, Stores
    <3> QED
      BY <1>1, <2>5, <3>1 DEF SnapshotIsCurrent
  <2> QED
    BY <2>4, <2>5, <2>7, <2>8
<1>2. CliInv /\ SnapshotIsCurrent /\ [Next]_vars
        => [\A s \in Stores : stores'[s] # stores[s] => Whole(s)]_vars
  BY <1>1
<1> QED BY <1>2, CliInvariant, SnapshotsStayCurrent, PTL DEF Spec, NoLostUpdate
=============================================================================
