------------------------------ MODULE MC_Shell ------------------------------
(***************************************************************************)
(* Model-checking harness of Shell.                                        *)
(***************************************************************************)
EXTENDS Shell

(* (the fat32_* runs show what the edge paths do).                        *)
(* (the fat32_* runs show what the edge paths do).    *)
OffEdgeNext == Next /\ edge' = {}
OffEdgeSpec == Init /\ [][OffEdgeNext]_vars

(* The behaviours of a user who only runs mkdir, touch, cd and cp, with no *)
(* power loss: small enough to give the disk a fourth free cluster, which  *)
(* a copy into a subfolder needs (a folder, a file and the copy).          *)
CopyNext ==
  /\ \/ \E n \in TypedNames :
          \/ CdChild(n)
          \/ Mkdir(n)
          \/ \E e \in FileExts : Touch(n, e, n)
          \/ \E e \in TypedExts, dst \in Dests : Cp(n, e, dst)
     \/ CdParent
     \/ Boot
  /\ edge' = {}
CopySpec == Init /\ [][CopyNext]_vars
=============================================================================
