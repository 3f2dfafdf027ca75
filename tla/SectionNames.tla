---------------------------- MODULE SectionNames ----------------------------
(***************************************************************************)
(* How main finds the names of the sections that it hands to a format, and *)
(* the rule of the formats that use one section only.                      *)
(*                                                                         *)
(* A name comes from an option (--user_a and the like), the environment    *)
(* (NVRAM_FILE_USER_A), or the build; "unset" stands for a NULL pointer,   *)
(* "" for the empty string, with which a section is switched off.          *)
(***************************************************************************)
SectionSources ==
    [option  : {"unset", "", "name"},
     env     : {"unset", "", "name"},
     default : {"", "name"}]

\* get_env_str: an empty string in the environment overrides the default.
get_env_str(env, def) == IF env # "unset" THEN env ELSE def

ChosenSection(s) ==
    IF s.option # "unset" THEN s.option ELSE get_env_str(s.env, s.default)

\* legacy_init and platform_init: section A is needed, section B refused.
SingleSection(a, b) == ChosenSection(a) # "" /\ ChosenSection(b) = ""
=============================================================================
