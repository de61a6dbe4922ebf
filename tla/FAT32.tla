------------------------------- MODULE FAT32 -------------------------------
(***************************************************************************)
(* The FAT32 driver of src/src/fat32.c: the cached cluster map            *)
(* (driver_state.fat_table, written back to cluster 1 at the end of every  *)
(* mutating call) and the clusters of the disk, with the driver's CRUD     *)
(* calls read, read_directory, write and delete as actions.  Every call   *)
(* runs to completion inside the syscall interrupt gate, so each is one   *)
(* atomic step.                                                            *)
(*                                                                         *)
(* Abstractions: a name or a payload is a model value; a file's bytes are  *)
(* the chunks <<datum, k>> its clusters hold; ClusterSize is the number of *)
(* bytes of a cluster in the same unit as request sizes; a directory table *)
(* has DirSize entries instead of 64.                                       *)
(***************************************************************************)
EXTENDS Integers, Sequences, FiniteSets

CONSTANTS
  NClusters,    \* CLUSTER_MAP_SIZE: clusters 0 .. NClusters-1
  DirSize,      \* entries of a FAT32DirectoryTable
  ClusterSize,  \* CLUSTER_SIZE
  Names,        \* 8-byte names a request may carry
  RootName,     \* "root", the name in the root's self entry
  Exts,         \* 3-byte extensions a request may carry
  NoName,       \* the all-zero name of a free or deleted entry
  NoExt,        \* the all-zero extension
  Data,         \* payloads a write request may carry
  WriteSizes,   \* request.buffer_size of a write (0 creates a folder)
  ReadSizes     \* request.buffer_size of a read

ASSUME NClusters >= 4 /\ DirSize >= 2 /\ ClusterSize >= 1
ASSUME RootName \in Names /\ NoName \notin Names /\ NoExt \in Exts
ASSUME "dir" \in Exts

Clusters == 0 .. NClusters - 1
Slots    == 0 .. DirSize - 1

BOOT_SECTOR         == 0
FAT_CLUSTER_NUMBER  == 1
ROOT_CLUSTER_NUMBER == 2

\* The reserved values of the cluster map (fat32.h).
FAT32_FAT_EMPTY_ENTRY == 0
FAT32_FAT_END_OF_FILE == 268435455   \* 0x0FFFFFFF
CLUSTER_0_VALUE       == 268435440   \* 0x0FFFFFF0
CLUSTER_1_VALUE       == 268435455   \* 0x0FFFFFFF
EMPTY == FAT32_FAT_EMPTY_ENTRY
EOF   == FAT32_FAT_END_OF_FILE

ATTR_SUBDIRECTORY == 16
ATTR_FILE         == 0

(* A FAT32DirectoryEntry, and the all-zero entry.                          *)
Entry == [name: Names \cup {NoName}, ext: Exts, attr: {ATTR_SUBDIRECTORY, ATTR_FILE},
          used: BOOLEAN, cluster: Clusters, size: Nat]
ZeroEntry == [name |-> NoName, ext |-> NoExt, attr |-> ATTR_FILE,
              used |-> FALSE, cluster |-> 0, size |-> 0]

(* What a cluster holds: the boot signature, the cluster map, a directory  *)
(* table, the k-th chunk of a payload, or zeroes.                          *)
Signature == [kind |-> "sig"]
FatBlock  == [kind |-> "fat"]
Zeroes    == [kind |-> "zero"]
DirBlock(t)   == [kind |-> "dir", table |-> t]
Chunk(d, k)   == [kind |-> "data", d |-> d, k |-> k]

VARIABLES
  disk,   \* cluster -> content
  fat,    \* driver_state.fat_table.cluster_map, equal to its copy on disk
  ret,    \* return code of the last call
  out,    \* chunks the last read copied into request.buf
  wild,   \* a chain walk left the cluster map or never reached END_OF_FILE
  edge,   \* history: the edge paths of write and delete taken so far
  up      \* the kernel has run initialize_filesystem_fat32 since power-on

vars == <<disk, fat, ret, out, wild, edge, up>>

(* The edge paths: write into a folder with no free slot (the entry goes   *)
(* to slot 0), write of a folder with no EMPTY cluster from 2 (it goes to  *)
(* cluster 0), delete of a name that matches a folder's self entry, and a *)
(* write or delete that succeeds in a parent cluster that still holds the  *)
(* table of a deleted folder, no longer reachable from the root.           *)
(* A power loss inside write after the parent table and before the map,  *)
(* inside delete between the same two writes, or inside the first boot's  *)
(* format before the root table, is torn_write, torn_delete or             *)
(* torn_format.                                                            *)
Edges == {"full_folder", "boot_cluster", "self_entry", "stale_parent",
          "torn_write", "torn_delete", "torn_format"}

(* read_clusters of a cluster into a FAT32DirectoryTable.  A cluster that  *)
(* does not hold a table (signature, map, text payload, zeroes) reads as   *)
(* entries that are not folders, not occupied and match no request name.  *)
TableAt(c) ==
  IF disk[c].kind = "dir" THEN disk[c].table ELSE [i \in Slots |-> ZeroEntry]

(* Mutant of NewDirTable: every new folder's self entry names the root.   *)
NewDirTable_rootparent(name, parent) ==
  [i \in Slots |-> IF i = 0
                   THEN [ZeroEntry EXCEPT !.name = name, !.used = TRUE,
                                          !.attr = ATTR_SUBDIRECTORY, !.cluster = ROOT_CLUSTER_NUMBER]
                   ELSE ZeroEntry]

(* init_directory_table: entry 0 names the folder and points to parent.    *)
NewDirTable(name, parent) ==
  [i \in Slots |-> IF i = 0
                   THEN [ZeroEntry EXCEPT !.name = name, !.used = TRUE,
                                          !.attr = ATTR_SUBDIRECTORY, !.cluster = parent]
                   ELSE ZeroEntry]

(* Mutants of BufChunk: the source pointer not advanced, and the loop     *)
(* index taken as the chunk number.                                        *)
BufChunk_unadvanced(d, i) == Chunk(d, 1)
BufChunk_offbyone(d, i)   == Chunk(d, i)

(* request.buf + i * CLUSTER_SIZE: the chunk the i-th (from 0) iteration  *)
(* of write's cluster loop copies.                                         *)
BufChunk(d, i) == Chunk(d, i + 1)

ceil_div(a, b) == a \div b + (IF a % b # 0 THEN 1 ELSE 0)

FirstOf(S) == CHOOSE x \in S : \A y \in S : x <= y

(* The ascending list of the clusters in S.                                *)
RECURSIVE Ascending(_)
Ascending(S) == IF S = {} THEN <<>> ELSE <<FirstOf(S)>> \o Ascending(S \ {FirstOf(S)})

(* The do-while loop of read: clusters visited from c, and whether it ends *)
(* at END_OF_FILE within fuel steps without leaving the map.               *)
RECURSIVE Walk(_, _, _)
Walk(f, c, fuel) ==
  IF c \notin Clusters \/ fuel = 0 THEN [path |-> <<>>, ok |-> FALSE]
  ELSE IF f[c] = EOF THEN [path |-> <<c>>, ok |-> TRUE]
  ELSE LET rest == Walk(f, f[c], fuel - 1)
       IN  [path |-> <<c>> \o rest.path, ok |-> rest.ok]

(* Mutant of FreeChain: a while loop that stops at the last cluster        *)
(* without marking it EMPTY.                                               *)
RECURSIVE FreeChain_while(_, _, _)
FreeChain_while(f, c, fuel) ==
  IF c \notin Clusters \/ fuel = 0 THEN [fat |-> f, ok |-> FALSE]
  ELSE IF f[c] = EOF THEN [fat |-> f, ok |-> TRUE]
  ELSE FreeChain_while([f EXCEPT ![c] = EMPTY], f[c], fuel - 1)

(* The do-while loop of delete: each cluster's successor is read, then the *)
(* cluster is marked EMPTY.                                                *)
RECURSIVE FreeChain(_, _, _)
FreeChain(f, c, fuel) ==
  IF c \notin Clusters \/ fuel = 0 THEN [fat |-> f, ok |-> FALSE]
  ELSE LET nxt == f[c]
           f2  == [f EXCEPT ![c] = EMPTY]
       IN  IF nxt = EOF THEN [fat |-> f2, ok |-> TRUE] ELSE FreeChain(f2, nxt, fuel - 1)

Fuel == NClusters + 1

IsFolder(t)            == t[0].attr = ATTR_SUBDIRECTORY
Matches(t, i, n, e)    == t[i].name = n /\ t[i].ext = e
MatchIndex(t, n, e)    == FirstOf({i \in Slots : Matches(t, i, n, e)})
HasMatch(t, n, e)      == \E i \in Slots : Matches(t, i, n, e)

(* The folders reachable from the root through occupied folder entries of  *)
(* slots 1 .. DirSize-1.                                                   *)
SubFolders(c) ==
  {TableAt(c)[i].cluster : i \in {j \in 1 .. DirSize - 1 :
     TableAt(c)[j].used /\ TableAt(c)[j].attr = ATTR_SUBDIRECTORY}}
RECURSIVE Reach(_, _)
Reach(D, k) ==
  LET D2 == D \cup UNION {SubFolders(c) : c \in D}
  IN  IF k = 0 \/ D2 = D THEN D ELSE Reach(D2, k - 1)
LiveDirs    == Reach({ROOT_CLUSTER_NUMBER}, NClusters)

(***************************************************************************)
(* create_fat32 on an empty disk, as initialize_filesystem_fat32 does at   *)
(* the first boot.                                                         *)
(***************************************************************************)
FreshFat ==
  [c \in Clusters |-> CASE c = 0 -> CLUSTER_0_VALUE
                        [] c = 1 -> CLUSTER_1_VALUE
                        [] c = ROOT_CLUSTER_NUMBER -> EOF
                        [] OTHER -> EMPTY]

create_fat32(d) ==
  [d EXCEPT ![BOOT_SECTOR] = Signature, ![FAT_CLUSTER_NUMBER] = FatBlock,
            ![ROOT_CLUSTER_NUMBER] = DirBlock(NewDirTable(RootName, ROOT_CLUSTER_NUMBER))]

(* Power-on with a blank disk: every cluster, the map's included, zero.   *)
Init ==
  /\ disk = [c \in Clusters |-> Zeroes]
  /\ fat  = [c \in Clusters |-> EMPTY]
  /\ up   = FALSE
  /\ ret  = 0
  /\ out  = <<>>
  /\ wild = FALSE
  /\ edge = {}

(***************************************************************************)
(* read: look the name up in the parent (entry 0 included), check kind    *)
(* and buffer size, then copy the chain cluster by cluster.                *)
(***************************************************************************)
(* The return code of read, decided before any cluster is copied.        *)
read_status(p, n, e, bs) ==
  LET tbl == TableAt(p)
      ent == tbl[MatchIndex(tbl, n, e)]
  IN  CASE ~IsFolder(tbl)               -> -1
        [] ~HasMatch(tbl, n, e)         -> 3
        [] ent.attr = ATTR_SUBDIRECTORY -> 1
        [] bs < ent.size                -> 2
        [] OTHER                        -> 0

read(p, n, e, bs) ==
  LET tbl == TableAt(p)
      w   == Walk(fat, tbl[MatchIndex(tbl, n, e)].cluster, Fuel)
  IN  /\ ret' = read_status(p, n, e, bs)
      /\ IF ret' = 0
         THEN out' = [k \in 1 .. Len(w.path) |-> disk[w.path[k]]] /\ wild' = (wild \/ ~w.ok)
         ELSE out' = <<>> /\ UNCHANGED wild

Read(p, n, e, bs) == read(p, n, e, bs) /\ UNCHANGED <<disk, fat, edge, up>>

(***************************************************************************)
(* read_directory: the same lookup; only the return code is visible.       *)
(***************************************************************************)
read_directory(p, n, e) ==
  LET tbl == TableAt(p)
  IN  CASE ~IsFolder(tbl)       -> -1
        [] ~HasMatch(tbl, n, e) -> 2
        [] tbl[MatchIndex(tbl, n, e)].attr # ATTR_SUBDIRECTORY -> 1
        [] OTHER                -> 0

ReadDirectory(p, n, e) ==
  /\ ret' = read_directory(p, n, e)
  /\ out' = <<>>
  /\ UNCHANGED <<disk, fat, wild, edge, up>>

(***************************************************************************)
(* write: refuse a non-folder parent or an existing (name, ext); count     *)
(* EMPTY clusters from 2; a folder takes the first EMPTY cluster from 2    *)
(* (0 if there is none), a file links the first ceil_div(size) EMPTY      *)
(* clusters counted from 0; the entry goes to the first unoccupied slot    *)
(* from 1 (slot 0 if there is none); then the parent table and the map are *)
(* written back.  write_upto stops after the disk write last: "data" (the *)
(* new folder's table or the file's clusters), "table" (the parent) or    *)
(* "map" (cluster 1, the end of the call).  The cached map and the one on *)
(* disk agree between calls, so a call cut before "map" leaves fat, the    *)
(* map the next boot reloads, as it was.                                   *)
(***************************************************************************)
(* The return code of write, decided before any cluster is written.      *)
write_status(p, n, e, sz) ==
  LET tbl == TableAt(p)
  IN  CASE ~IsFolder(tbl)      -> -1
        [] HasMatch(tbl, n, e) -> 1
        [] Cardinality({c \in 2 .. NClusters - 1 : fat[c] = EMPTY}) < ceil_div(sz, ClusterSize) -> -1
        [] OTHER               -> 0

(* What a write that passed its checks computes: the new map, the disk    *)
(* after each of its three disk writes, and the edges it crosses.         *)
write_result(p, n, e, sz, d) ==
  LET tbl      == TableAt(p)
      count    == ceil_div(sz, ClusterSize)
      freeFrom2 == {c \in 2 .. NClusters - 1 : fat[c] = EMPTY}
      empty_cluster == IF freeFrom2 = {} THEN 0 ELSE FirstOf(freeFrom2)
      chain    == SubSeq(Ascending({c \in Clusters : fat[c] = EMPTY}), 1, count)
      Pos(c)   == CHOOSE k \in 1 .. count : chain[k] = c
      InChain(c) == \E k \in 1 .. count : chain[k] = c
      freeSlots == {i \in 1 .. DirSize - 1 : ~tbl[i].used}
      slot     == IF freeSlots = {} THEN 0 ELSE FirstOf(freeSlots)
      new      == [name |-> n, ext |-> e, used |-> TRUE, cluster |-> empty_cluster, size |-> sz,
                   attr |-> IF sz = 0 THEN ATTR_SUBDIRECTORY ELSE ATTR_FILE]
      fatNew   == IF sz = 0
                  THEN [fat EXCEPT ![empty_cluster] = EOF]
                  ELSE [c \in Clusters |-> IF ~InChain(c) THEN fat[c]
                                          ELSE IF Pos(c) = count THEN EOF ELSE chain[Pos(c) + 1]]
      payload  == IF sz = 0
                  THEN [disk EXCEPT ![empty_cluster] = DirBlock(NewDirTable(n, p))]
                  ELSE [c \in Clusters |-> IF InChain(c) THEN BufChunk(d, Pos(c) - 1) ELSE disk[c]]
      tabled   == [payload EXCEPT ![p] = DirBlock([tbl EXCEPT ![slot] = new])]
  IN  [fat   |-> fatNew,
       disk  |-> [data |-> payload, table |-> tabled,
                  map |-> [tabled EXCEPT ![FAT_CLUSTER_NUMBER] = FatBlock]],
       edges |-> (IF freeSlots = {} THEN {"full_folder"} ELSE {})
                 \cup (IF sz = 0 /\ freeFrom2 = {} THEN {"boot_cluster"} ELSE {})
                 \cup (IF p \notin LiveDirs THEN {"stale_parent"} ELSE {})]

(* The state a write that passed its checks leaves, cut after "last".    *)
write_effect(p, n, e, sz, d, last) ==
  LET r == write_result(p, n, e, sz, d)
  IN  /\ edge' = edge \cup r.edges \cup (IF last = "table" THEN {"torn_write"} ELSE {})
      /\ fat'  = IF last = "map" THEN r.fat ELSE fat
      /\ disk' = r.disk[last]

write_upto(p, n, e, sz, d, last) ==
  /\ ret' = write_status(p, n, e, sz)
  /\ IF ret' = 0 THEN write_effect(p, n, e, sz, d, last) ELSE UNCHANGED <<disk, fat, edge>>

write(p, n, e, sz, d) == write_upto(p, n, e, sz, d, "map")

Write(p, n, e, sz, d) == write(p, n, e, sz, d) /\ out' = <<>> /\ UNCHANGED <<wild, up>>

(* The power fails inside a write that would succeed, after the disk      *)
(* write last of its three.                                                *)
WriteCrash(p, n, e, sz, d, last) ==
  /\ write_upto(p, n, e, sz, d, last)
  /\ ret' = 0
  /\ out' = <<>>
  /\ up' = FALSE
  /\ UNCHANGED wild

(* Mutant of delete: the chain is freed in the cached map before the     *)
(* non-empty folder is refused, and the next call writes the map back.    *)
delete_late_refusal(p, n, e) ==
  LET tbl == TableAt(p)
      i   == MatchIndex(tbl, n, e)
      ent == tbl[i]
      fr  == FreeChain(fat, ent.cluster, Fuel)
  IN  CASE ~IsFolder(tbl)      -> ret' = -1 /\ UNCHANGED <<disk, fat, wild, edge>>
        [] ~HasMatch(tbl, n, e) -> ret' = 1 /\ UNCHANGED <<disk, fat, wild, edge>>
        [] ent.attr = ATTR_SUBDIRECTORY
           /\ \E j \in 1 .. DirSize - 1 : TableAt(ent.cluster)[j].used
                               -> ret' = 2 /\ fat' = fr.fat /\ UNCHANGED <<disk, wild, edge>>
        [] OTHER -> /\ ret'  = 0
                    /\ edge' = edge \cup (IF i = 0 THEN {"self_entry"} ELSE {})
                                     \cup (IF p \notin LiveDirs THEN {"stale_parent"} ELSE {})
                    /\ fat'  = fr.fat
                    /\ wild' = (wild \/ ~fr.ok)
                    /\ disk' = [disk EXCEPT
                                  ![p] = DirBlock([tbl EXCEPT ![i].used = FALSE,
                                                              ![i].name = NoName,
                                                              ![i].ext  = NoExt]),
                                  ![FAT_CLUSTER_NUMBER] = FatBlock]

(***************************************************************************)
(* delete: look the name up (entry 0 included); refuse a folder with an    *)
(* occupied slot from 1; clear the entry's name, ext and user attribute;   *)
(* free its chain; write back the parent table and the map.  delete_upto *)
(* stops after the disk write last, "table" or "map".                     *)
(***************************************************************************)
delete_upto(p, n, e, last) ==
  LET tbl == TableAt(p)
      i   == MatchIndex(tbl, n, e)
      ent == tbl[i]
      fr  == FreeChain(fat, ent.cluster, Fuel)
  IN  CASE ~IsFolder(tbl)      -> ret' = -1 /\ UNCHANGED <<disk, fat, wild, edge>>
        [] ~HasMatch(tbl, n, e) -> ret' = 1 /\ UNCHANGED <<disk, fat, wild, edge>>
        [] ent.attr = ATTR_SUBDIRECTORY
           /\ \E j \in 1 .. DirSize - 1 : TableAt(ent.cluster)[j].used
                               -> ret' = 2 /\ UNCHANGED <<disk, fat, wild, edge>>
        [] OTHER -> /\ ret'  = 0
                    /\ edge' = edge \cup (IF i = 0 THEN {"self_entry"} ELSE {})
                                     \cup (IF p \notin LiveDirs THEN {"stale_parent"} ELSE {})
                                     \cup (IF last = "table" THEN {"torn_delete"} ELSE {})
                    /\ fat'  = IF last = "map" THEN fr.fat ELSE fat
                    /\ wild' = (wild \/ ~fr.ok)
                    /\ disk' = [disk EXCEPT
                                  ![p] = DirBlock([tbl EXCEPT ![i].used = FALSE,
                                                              ![i].name = NoName,
                                                              ![i].ext  = NoExt]),
                                  ![FAT_CLUSTER_NUMBER] = IF last = "map" THEN FatBlock
                                                          ELSE disk[FAT_CLUSTER_NUMBER]]

delete(p, n, e) == delete_upto(p, n, e, "map")

Delete(p, n, e) == delete(p, n, e) /\ out' = <<>> /\ UNCHANGED up

(* The power fails inside a delete that would succeed, after the parent   *)
(* table and before the map.                                               *)
DeleteCrash(p, n, e) ==
  /\ delete_upto(p, n, e, "table")
  /\ ret' = 0
  /\ out' = <<>>
  /\ up' = FALSE

(***************************************************************************)
(* initialize_filesystem_fat32, which kernel_setup runs at every boot:    *)
(* format when the boot sector does not hold the signature, otherwise     *)
(* reload the map from cluster 1.  PowerOff ends a session between calls. *)
(***************************************************************************)
initialize_filesystem_fat32 ==
  IF disk[BOOT_SECTOR] # Signature
  THEN disk' = create_fat32(disk) /\ fat' = FreshFat
  ELSE UNCHANGED <<disk, fat>>

(***************************************************************************)
(* move_to_child_directory and move_to_parent_directory (syscalls 8 and   *)
(* 9, the shell's cd): the cluster of the first entry from slot 1 named n *)
(* with extension "dir" (0 if none), and the cluster in the self entry.   *)
(* Neither checks the entry's attribute or user_attribute.                 *)
(***************************************************************************)
move_to_child_directory_anyext(p, n) ==
  LET tbl == TableAt(p)
      S   == {i \in 1 .. DirSize - 1 : tbl[i].name = n}
  IN  IF S = {} THEN 0 ELSE tbl[FirstOf(S)].cluster

move_to_child_directory(p, n) ==
  LET tbl == TableAt(p)
      S   == {i \in 1 .. DirSize - 1 : tbl[i].name = n /\ tbl[i].ext = "dir"}
  IN  IF S = {} THEN 0 ELSE tbl[FirstOf(S)].cluster

move_to_parent_directory(p) == TableAt(p)[0].cluster

MoveToChild(p, n) ==
  /\ ret' = move_to_child_directory(p, n)
  /\ out' = <<>>
  /\ UNCHANGED <<disk, fat, wild, edge, up>>

MoveToParent(p) ==
  /\ ret' = move_to_parent_directory(p)
  /\ out' = <<>>
  /\ UNCHANGED <<disk, fat, wild, edge, up>>

Boot == ~up /\ initialize_filesystem_fat32 /\ up' = TRUE /\ UNCHANGED <<ret, out, wild, edge>>

(* The power fails inside create_fat32, after the disk write last: the    *)
(* signature ("sig") or the map ("map"), before the root table.  The map   *)
(* the next boot reloads is the one on disk.                               *)
BootCrash(last) ==
  /\ ~up
  /\ disk[BOOT_SECTOR] # Signature
  /\ disk' = IF last = "sig" THEN [disk EXCEPT ![BOOT_SECTOR] = Signature]
             ELSE [disk EXCEPT ![BOOT_SECTOR] = Signature, ![FAT_CLUSTER_NUMBER] = FatBlock]
  /\ fat'  = IF last = "sig" THEN fat ELSE FreshFat
  /\ edge' = edge \cup {"torn_format"}
  /\ UNCHANGED <<ret, out, wild, up>>

PowerOff == up /\ up' = FALSE /\ UNCHANGED <<disk, fat, ret, out, wild, edge>>

Next ==
  \/ up /\ \E p \in Clusters, n \in Names, e \in Exts :
       \/ \E bs \in ReadSizes : Read(p, n, e, bs)
       \/ ReadDirectory(p, n, e)
       \/ \E sz \in WriteSizes, d \in Data : Write(p, n, e, sz, d)
       \/ Delete(p, n, e)
       \/ \E sz \in WriteSizes, d \in Data, last \in {"data", "table"} : WriteCrash(p, n, e, sz, d, last)
       \/ DeleteCrash(p, n, e)
  \/ up /\ \E p \in Clusters, n \in Names : MoveToChild(p, n)
  \/ up /\ \E p \in Clusters : MoveToParent(p)
  \/ Boot
  \/ \E last \in {"sig", "map"} : BootCrash(last)
  \/ PowerOff

Spec == Init /\ [][Next]_vars

(***************************************************************************)
(* Properties.                                                             *)
(***************************************************************************)
LiveEntries == {<<c, i>> \in LiveDirs \X (1 .. DirSize - 1) : TableAt(c)[i].used}
EntryOf(x)  == TableAt(x[1])[x[2]]
IsDirEntry(x) == EntryOf(x).attr = ATTR_SUBDIRECTORY
ChainOf(x)  == Walk(fat, EntryOf(x).cluster, Fuel)
ClustersOf(x) == {ChainOf(x).path[k] : k \in 1 .. Len(ChainOf(x).path)}

TypeOK ==
  /\ fat \in [Clusters -> Clusters \cup {EOF, CLUSTER_0_VALUE}]
  /\ \A c \in Clusters :
       \/ disk[c] \in {Signature, FatBlock, Zeroes} \cup {Chunk(d, k) : d \in Data, k \in 1 .. NClusters}
       \/ disk[c].kind = "dir" /\ disk[c].table \in [Slots -> Entry]
  /\ ret \in {-1, 0, 1, 2, 3} \cup Clusters
  /\ wild \in BOOLEAN
  /\ edge \subseteq Edges
  /\ up \in BOOLEAN

(* The tree as the FAT32 spec describes it.  FatTree: spec invariants 1  *)
(* and 2 and their converse: the chain of every live entry ends in         *)
(* END_OF_FILE inside the map, a folder has one cluster and a file         *)
(* ceil(size / CLUSTER_SIZE), no cluster is on two chains, and the         *)
(* clusters the map marks in use are exactly the root's and those chains.  *)
FatTree ==
  /\ ~wild
  /\ fat[ROOT_CLUSTER_NUMBER] = EOF
  /\ \A x \in LiveEntries :
       /\ ChainOf(x).ok
       /\ Len(ChainOf(x).path) = IF IsDirEntry(x) THEN 1
                                 ELSE ceil_div(EntryOf(x).size, ClusterSize)
  /\ \A x, y \in LiveEntries : x # y => ClustersOf(x) \cap ClustersOf(y) = {}
  /\ {c \in 3 .. NClusters - 1 : fat[c] # EMPTY} = UNION {ClustersOf(x) : x \in LiveEntries}

(* ParentLinks: spec invariant 4, the self entry of every live folder is a *)
(* folder entry whose cluster is the folder's parent (the root's is 2).   *)
ParentLinks ==
  /\ TableAt(ROOT_CLUSTER_NUMBER)[0].attr = ATTR_SUBDIRECTORY
  /\ TableAt(ROOT_CLUSTER_NUMBER)[0].cluster = ROOT_CLUSTER_NUMBER
  /\ \A x \in LiveEntries : IsDirEntry(x) =>
       LET hdr == TableAt(EntryOf(x).cluster)[0]
       IN  hdr.attr = ATTR_SUBDIRECTORY /\ hdr.cluster = x[1]

(* Content: the k-th cluster of every live file holds the k-th chunk of    *)
(* one payload.                                                            *)
Content ==
  \A x \in LiveEntries : ~IsDirEntry(x) =>
    \E d \in Data : \A k \in 1 .. Len(ChainOf(x).path) :
      disk[ChainOf(x).path[k]] = Chunk(d, k)

(* While mounted, and as long as no call has taken an edge path, the map  *)
(* agrees with the tree (FatTree): write allocates and links exactly the   *)
(* clusters the new entry needs, delete's chain walk frees exactly the     *)
(* entry's chain, and a boot reloads the map the calls persisted.          *)
FatMatchesTree == up /\ edge = {} => FatTree

(* While mounted and off the edge paths, every live folder's self entry    *)
(* links to its parent (ParentLinks): init_directory_table writes the link *)
(* and no later write or delete of an entry disturbs it.                   *)
ParentLinksIntact == up /\ edge = {} => ParentLinks

(* While mounted and off the edge paths, a read of any live file returns   *)
(* exactly the payload one write stored (Content): write lays the chunks   *)
(* out along the chain read walks, and no later call reuses them.          *)
ContentIntact == up /\ edge = {} => Content

(* While mounted and off the edge paths, cd into any live folder and back *)
(* out lands where it started: move_to_child_directory finds a folder      *)
(* entry named n with extension "dir" at the cluster write recorded, and   *)
(* move_to_parent_directory of that cluster returns the folder it is in,   *)
(* even next to a file of the same name.                                   *)
CdRoundTrip ==
  up /\ edge = {} =>
    \A x \in LiveEntries :
      IsDirEntry(x) /\ EntryOf(x).ext = "dir" =>
        /\ move_to_child_directory(x[1], EntryOf(x).name) = EntryOf(x).cluster
        /\ move_to_parent_directory(EntryOf(x).cluster) = x[1]

(* Spec invariant 4 on every mounted state: even a write into a folder     *)
(* whose slots 1 .. DirSize-1 are all occupied leaves every link intact.   *)
ParentLinksAlways == up => ParentLinks

(* A boot keeps every file and folder written before it: kernel_setup's   *)
(* initialize_filesystem_fat32 formats only a disk that was never          *)
(* formatted, so the tree survives a power cycle.                          *)
BootKeepsFiles == [][Boot => LiveEntries \subseteq LiveEntries']_vars


(* Spec section 4.4, read: a read that succeeds copies no more than       *)
(* request.buffer_size bytes into request.buf; depth_limited_search_bm and *)
(* _kmp pass a buffer of exactly the file's size.                          *)
ReadFitsBuffer ==
  [][\A p \in Clusters, n \in Names, e \in Exts, bs \in ReadSizes :
        (Read(p, n, e, bs) /\ ret' = 0) => Len(out') * ClusterSize <= bs]_vars
(***************************************************************************)
(* Refinement: the tree the callers see.  A folder is known by its        *)
(* cluster, a file by the payload its chain holds and its size; only the   *)
(* folders reachable from the root, and their entries from slot 1, count. *)
(***************************************************************************)
PayloadOf(x) ==
  LET path == ChainOf(x).path
      Holds(d) == \A k \in 1 .. Len(path) : disk[path[k]] = Chunk(d, k)
  IN  CHOOSE d \in Data : (\E d2 \in Data : Holds(d2)) => Holds(d)

TreeEntry(x) ==
  [parent |-> x[1], name |-> EntryOf(x).name, ext |-> EntryOf(x).ext, folder |-> IsDirEntry(x),
   obj |-> IF IsDirEntry(x) THEN EntryOf(x).cluster
           ELSE [data |-> PayloadOf(x), size |-> EntryOf(x).size]]

Tree == INSTANCE FileTree WITH
          Ids <- Clusters, Root <- ROOT_CLUSTER_NUMBER, Sizes <- WriteSizes,
          dirs <- LiveDirs, entries <- {TreeEntry(x) : x \in LiveEntries}

(* Off the edge paths the driver implements FileTree: every call, boot and *)
(* power-off either leaves the visible tree alone or makes one of its      *)
(* steps; write adds exactly the entry it names, delete removes exactly    *)
(* one entry and only an empty folder, and no call disturbs another        *)
(* folder's entries or a file's payload.                                   *)
FileTreeRefined == Tree!Spec
=============================================================================
