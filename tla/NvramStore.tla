----------------------------- MODULE NvramStore -----------------------------
(***************************************************************************)
(* What the format interface (nvram_format.h) promises to its user.  There *)
(* is one stored list.  A session opens the store, which gives it the      *)
(* stored list, commits lists and closes.  A commit that returns 0 has     *)
(* stored its list.  A commit that returns an error, or that a crash cuts  *)
(* short, leaves the old list, the new one, or what Torn(new) allows.  The *)
(* formats differ in nothing else: Torn is empty for v2, whose commits are *)
(* all or nothing.                                                         *)
(***************************************************************************)
CONSTANTS
    Lists,
    EmptyList,
    Damage,     \* the contents that no session can open
    Torn(_)     \* what a torn commit of a list may leave besides it

VARIABLES
    stored,   \* the list the next session will be given
    pc,       \* where the session is
    list      \* the list of the session: read by init, or handed to commit

vars == <<stored, pc, list>>

Contents == Lists \cup Damage

TypeOK ==
    /\ stored \in Contents
    /\ pc \in {"closed", "open", "commit", "committed", "failed"}
    /\ list \in Lists

Init ==
    /\ stored \in Contents
    /\ pc = "closed"
    /\ list = EmptyList

Open ==
    /\ pc = "closed"
    /\ stored \in Lists
    /\ pc' = "open"
    /\ list' = stored
    /\ UNCHANGED stored

\* After an error the list of the session means nothing any more.
OpenFails ==
    /\ pc = "closed"
    /\ pc' = "failed"
    /\ list' \in Lists
    /\ UNCHANGED stored

Commit ==
    /\ pc \in {"open", "committed"}
    /\ pc' = "commit"
    /\ list' \in Lists
    /\ UNCHANGED stored

\* The list is one that the format cannot hold: nothing is written.
CommitRefused ==
    /\ pc \in {"open", "committed"}
    /\ pc' = "failed"
    /\ list' \in Lists
    /\ UNCHANGED stored

\* The store changes, in one step or in two, some time before commit returns.
TakeEffect ==
    /\ pc = "commit"
    /\ stored' \in {list} \cup Torn(list)
    /\ UNCHANGED <<pc, list>>

CommitOk ==
    /\ pc = "commit"
    /\ pc' = "committed"
    /\ stored' = list
    /\ UNCHANGED list

CommitFails ==
    /\ pc = "commit"
    /\ pc' = "failed"
    /\ stored' \in {stored, list} \cup Torn(list)
    /\ list' \in Lists

\* The session ends: closed by its user, or killed where it stands.
End ==
    /\ pc # "closed"
    /\ pc' = "closed"
    /\ stored' = stored \/ (pc = "commit" /\ stored' \in {list} \cup Torn(list))
    /\ list' = EmptyList

Next ==
    \/ Open
    \/ OpenFails
    \/ Commit
    \/ CommitRefused
    \/ TakeEffect
    \/ CommitOk
    \/ CommitFails
    \/ End

Spec == Init /\ [][Next]_vars
=============================================================================
