----------------------------- MODULE MCNvramCli -----------------------------
(***************************************************************************)
(* Small instances of NvramCli for TLC: command lines, keys and values.    *)
(***************************************************************************)
EXTENDS NvramCli, SequencesExt

CONSTANTS SysKey, UserKey, v1, v2

Command(mode, unlocked, ops) ==
    [mode |-> mode, unlocked |-> unlocked, parses |-> TRUE, ops |-> ops]

Set(k, v) == [op |-> "set", key |-> k, value |-> v]
Del(k) == [op |-> "del", key |-> k, value |-> v1]
Get(k) == [op |-> "get", key |-> k, value |-> v1]
List == [op |-> "list", key |-> UserKey, value |-> v1]

MC_Keys == {SysKey, UserKey}
MC_SysKeys == {SysKey}

\* The lists with v2 are those that cannot be serialized.
MC_Unserializable == {l \in Attributes : \E k \in Keys : l[k] = v2}

\* What each mode may do, and command lines that are refused.
MC_Commands ==
    {Command("default", FALSE, <<Set(UserKey, v1), Set(UserKey, v1)>>),
     Command("user", FALSE, <<Del(UserKey), Set(UserKey, v1)>>),
     Command("user", FALSE, <<Set(UserKey, v2)>>),
     Command("default", FALSE, <<Get(SysKey), Get(UserKey)>>),
     Command("sys", TRUE, <<Set(SysKey, v1)>>),
     Command("sys", TRUE, <<Set(UserKey, v1)>>),
     Command("sys", FALSE, <<Del(SysKey)>>),
     Command("user", TRUE, <<Set(SysKey, v1)>>)}

\* Two command lines that undo each other, on one key.
MC_Changes ==
    {Command("user", FALSE, <<Del(UserKey), Set(UserKey, v1)>>),
     Command("user", FALSE, <<Del(UserKey)>>)}

\* One command line of each kind.
MC_FewCommands ==
    {Command("default", FALSE, <<Set(UserKey, v1), Del(UserKey)>>),
     Command("sys", FALSE, <<List>>),
     Command("user", FALSE, <<Set(UserKey, v1), Get(UserKey)>>),
     [Command("sys", TRUE, <<Del(SysKey)>>) EXCEPT !.parses = FALSE]}

MC_Symmetry == Permutations(Procs) \cup Permutations(Inodes)
=============================================================================
