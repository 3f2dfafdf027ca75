--------------------------- MODULE MCFormatLegacy ---------------------------
(***************************************************************************)
(* Small instances of FormatLegacy for TLC: texts, keys and values.        *)
(***************************************************************************)
EXTENDS FormatLegacy

Named(option, env, default) == [option |-> option, env |-> env, default |-> default]

\* As the tests run it: both sections are named in the environment, B by "".
MC_Single(interface, faults) ==
    [interface |-> interface, faults |-> faults,
     a |-> Named("unset", "name", "name"), b |-> Named("unset", "", "name")]

\* The shipped defaults name a section B, which this format refuses.
MC_Defaults ==
    [interface |-> "file", faults |-> {},
     a |-> Named("unset", "unset", "name"), b |-> Named("unset", "unset", "name")]

MC_Deployments ==
    {MC_Single("file", {"io", "kill"}), MC_Single("efi", {"io", "kill"}), MC_Defaults}

MC_Alphabet == {"a", "=", " ", Newline}

\* Every text of up to six characters, and three lines of any kind.
MC_Lines == {<<"a", "=", "a", Newline>>, <<"a", "=", "=", Newline>>, <<" ", "a", "=", "a">>,
             <<"a", "a", "=", " ", Newline>>, <<"a", Newline>>, <<"=", "a", Newline>>,
             <<"a", "=", Newline>>, <<" ", Newline>>, <<>>}

MC_PlainTexts ==
    BoundedSeq(MC_Alphabet, 6) \cup {x \o y \o z : x, y, z \in MC_Lines}

\* NULs within, before and after keys and values.
MC_NulLines == {<<"a", Nul, "=", "a", Newline>>, <<"a", Nul, "a", "=", "=", Newline>>,
                <<"a", "=", "a", Nul, "a", Newline>>, <<"a", "=", Nul, "a", Newline>>,
                <<Nul, "a", "=", "a", Newline>>, <<Nul>>}

MC_Texts ==
    MC_PlainTexts
        \cup BoundedSeq(MC_Alphabet \cup {Nul}, 5)
        \cup {x \o y \o z : x, y, z \in MC_Lines \cup MC_NulLines}

MC_Keys == {<<"a">>, <<"a", " ">>, <<"a", Newline>>}
MC_Values == {<<"a">>, <<" ", "=">>}

\* "--set a ''": main and legacy_commit let an empty value pass.
MC_FewTexts == {<<>>, <<"a", "=", "a", Newline>>}
MC_OddKeys == {<<"a">>}
MC_OddValues == {<<"a">>, <<>>}
MC_NoFaults == {MC_Single("file", {})}
=============================================================================
