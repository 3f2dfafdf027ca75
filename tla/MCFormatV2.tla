----------------------------- MODULE MCFormatV2 -----------------------------
(***************************************************************************)
(* Small instances of FormatV2 for TLC: the sets of deployments its runs   *)
(* choose from.                                                            *)
(***************************************************************************)
EXTENDS FormatV2

Deployment(interface, configured, fits, faults) ==
    [interface |-> interface, configured |-> configured,
     fits |-> fits, faults |-> faults]

Crashes == {"io", "kill", "power"}

\* Two sections on a medium whose writes are durable, or a file that is not
\* exposed to power loss, or a single section on the one atomic medium.
MC_SafeDeployments ==
    {Deployment("mtd", Sections, Lists, Crashes),
     Deployment("mtd", Sections, {EmptyList}, Crashes),
     Deployment("efi", Sections, Lists, Crashes),
     Deployment("efi", {"B"}, Lists, Crashes),
     Deployment("file", Sections, Lists, {"io", "kill"}),
     Deployment("block", Sections, Lists, {"io", "kill"})}

\* Partitions and block devices with room for every list, in every configuration.
MC_RoomyDeployments ==
    {Deployment(i, c, Lists, Faults) : i \in {"mtd", "block"}, c \in SUBSET Sections}

MC_FileWithPowerLoss == {Deployment("file", Sections, Lists, {"power"})}

MC_FileWithKill == {Deployment("file", Sections, Lists, {"kill"})}

MC_SerializeFails == {Deployment("mtd", Sections, Lists, {"serialize"})}
=============================================================================
