------------------------------ MODULE MC_FAT32 ------------------------------
(***************************************************************************)
(* Model-checking harness of FAT32.                                        *)
(***************************************************************************)
EXTENDS FAT32

(* The behaviours whose only edge path is the write of a folder into      *)
(* cluster 0, which the next boot answers by formatting.                   *)
BootEdgeOnly == edge \subseteq {"boot_cluster"}
(* The behaviours in which no call takes an edge path other than a power *)
(* loss inside delete or the first format: the environment of the          *)
(* refinement check.                                                       *)
OffEdgeNext == Next /\ edge' \subseteq {"torn_delete", "torn_format"}
OffEdgeSpec == Init /\ [][OffEdgeNext]_vars

(* The behaviours whose only edge paths are power losses inside a call or *)
(* the format.                                                             *)
CrashNext == Next /\ edge' \subseteq {"torn_write", "torn_delete", "torn_format"}
CrashSpec == Init /\ [][CrashNext]_vars

(* The behaviours with no power loss inside a call or the format: the     *)
(* environment of the runs about the other edge paths.                     *)
Torn == {"torn_write", "torn_delete", "torn_format"}
NoTornNext == Next /\ edge' \cap Torn = {}
NoTornSpec == Init /\ [][NoTornNext]_vars

(* The state that decides the future: no action reads ret or out, each    *)
(* call only writes them, so states that differ only there have the same  *)
(* successors.                                                             *)
FatView == <<disk, fat, wild, edge, up>>
=============================================================================
