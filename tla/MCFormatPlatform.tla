-------------------------- MODULE MCFormatPlatform --------------------------
(***************************************************************************)
(* Small instances of FormatPlatform for TLC: integers of one bit and of   *)
(* two, and the texts around their limits.                                 *)
(***************************************************************************)
EXTENDS FormatPlatform

MC_Text(form, number) == [form |-> form, number |-> number]

MC_SetTexts ==
    {MC_Text("decimal", 1), MC_Text("decimal", 2), MC_Text("hex", 4),
     MC_Text("negative", 1), MC_Text("word", 1), MC_Text("long", 0)}

Named(option, env, default) == [option |-> option, env |-> env, default |-> default]

MC_Deployment(interface, gpio, ulong_max, faults) ==
    [interface |-> interface, gpio |-> gpio, ulong_max |-> ulong_max,
     allow_write |-> TRUE, faults |-> faults,
     a |-> Named("unset", "name", "name"), b |-> Named("", "unset", "name")]

MC_Faults == {"io", "kill", "erange"}

\* Every interface, with and without a protection, 32 and 64 bit builds, a
\* build that does not write, and the defaults, which name a section B.
MC_Deployments ==
    {MC_Deployment("file", FALSE, Max64, MC_Faults),
     MC_Deployment("mtd", TRUE, Max64, MC_Faults),
     MC_Deployment("mtd", FALSE, Max32, {"io"}),
     MC_Deployment("efi", FALSE, Max32, MC_Faults),
     [MC_Deployment("file", FALSE, Max64, {}) EXCEPT !.allow_write = FALSE],
     [MC_Deployment("file", FALSE, Max64, {}) EXCEPT !.b = Named("unset", "unset", "name")]}
=============================================================================
