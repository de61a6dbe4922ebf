------------------------------- MODULE Shell -------------------------------
(***************************************************************************)
(* The file commands of the user shell (src/src/user-shell.c) over the    *)
(* FAT32 driver: cd, cd .., mkdir, touch, cat, rm and echo.  The shell is  *)
(* the only program that makes file-system calls, and the file-system     *)
(* state is the one of module FAT32, instanced with the same variables.  *)
(*                                                                         *)
(* What the shell keeps between commands: cwd_cluster_number, current_dir *)
(* (as the sequence of folder names it shows, "/a/b/" being <<a, b>>) and *)
(* the global request, whose fields each command sets only in part, so a  *)
(* command sees the fields the previous one left.  Every command runs to  *)
(* completion inside the main loop; echo, the one command that makes two  *)
(* calls that write to the disk, is two steps, so a power loss may fall    *)
(* between them.                                                           *)
(*                                                                         *)
(* Names are strings: the names the user types have one character, so the *)
(* bytes after the terminator are the zeroes clear_buf left.  touch and    *)
(* echo copy 8 bytes of an uninitialised char[8]; the name they send is    *)
(* the typed one or, when the stack held garbage, Garble(n).               *)
(***************************************************************************)
EXTENDS Integers, Sequences

CONSTANTS
  NClusters, DirSize, ClusterSize, RootName, Exts, NoName, NoExt,
  WriteSizes, ReadSizes,
  TypedNames,   \* names the user types: one character each
  FileExts,     \* extensions the user types after a dot
  ShellName,    \* "shell", request.name at start
  Blank         \* the zeroes touch writes (memset(buf, 0, CLUSTER_SIZE))

ASSUME "dir" \in Exts /\ FileExts \subseteq Exts /\ "" \notin Exts

(* The name touch and echo send when filename[1..7] held garbage, and the *)
(* name rm's partial copy makes of a longer name left in request.name.    *)
Garble(n) == n \o "~"
Mangled   == "~"

Names == TypedNames \cup {Garble(n) : n \in TypedNames} \cup {RootName, ShellName, Mangled}
Data  == {Blank}

VARIABLES
  disk, fat, ret, out, wild, edge, up,   \* FAT32
  cwd,           \* cwd_cluster_number
  current_dir,   \* the folder names current_dir shows
  request,       \* the global FAT32DriverRequest (name, ext, parent, size)
  pc,            \* "idle", or "echo" between echo's delete and its write
  echo_data      \* the payload echo's read left in request.buf

fsvars    == <<disk, fat, ret, out, wild, edge, up>>
shellvars == <<cwd, current_dir, request, pc, echo_data>>
vars      == <<fsvars, shellvars>>

FS == INSTANCE FAT32
SeqX == INSTANCE SequencesExt

ROOT == FS!ROOT_CLUSTER_NUMBER

(* The static initialiser of request.                                     *)
InitRequest == [name |-> ShellName, ext |-> NoExt, parent |-> ROOT,
                buffer_size |-> ClusterSize]

ShellStart ==
  /\ cwd' = ROOT
  /\ current_dir' = <<>>
  /\ request' = InitRequest
  /\ pc' = "idle"
  /\ echo_data' = Blank

Init ==
  /\ FS!Init
  /\ cwd = ROOT /\ current_dir = <<>> /\ request = InitRequest
  /\ pc = "idle" /\ echo_data = Blank

(* kernel_setup mounts the disk, then loads and starts the shell, whose  *)
(* globals start from their initialisers.                                  *)
Boot == FS!Boot /\ ShellStart

PowerOff == FS!PowerOff /\ UNCHANGED shellvars

Ready == up /\ pc = "idle"

(* The effect on the file system of a command that only reads it.        *)
NoWrite == UNCHANGED <<disk, fat, edge, up>>

(* The driver's functions read against a given disk: cp's cd .. calls    *)
(* after its write read the disk as that write left it.                    *)
FSD(dk) == INSTANCE FAT32 WITH disk <- dk

(* The part of the shell's state cd reads and writes.                     *)
Sh == [cwd |-> cwd, dir |-> current_dir, req |-> request, ret |-> ret]

SetSh(s) == cwd' = s.cwd /\ current_dir' = s.dir /\ request' = s.req /\ ret' = s.ret

(***************************************************************************)
(* cd n: read_directory (n, "dir") in the cwd; when it is a folder,        *)
(* move_to_child_directory gives the new cwd and n is appended to         *)
(* current_dir.  cd ..: outside the root, move_to_parent_directory and    *)
(* drop the last name of current_dir; in the root only request.parent     *)
(* changes.  main calls cd once per component of a path.                   *)
(***************************************************************************)
cd_child_appendalways(s, n, dk) ==
  LET rd == FSD(dk)!read_directory(s.cwd, n, "dir")
      r  == [s.req EXCEPT !.name = n, !.ext = "dir", !.parent = s.cwd, !.buffer_size = ClusterSize]
      c  == FSD(dk)!move_to_child_directory(s.cwd, n)
  IN  IF rd = 0 THEN [cwd |-> c, dir |-> Append(s.dir, n), req |-> r, ret |-> c]
      ELSE [s EXCEPT !.dir = Append(s.dir, n), !.req = r, !.ret = rd]

cd_child(s, n, dk) ==
  LET rd == FSD(dk)!read_directory(s.cwd, n, "dir")
      r  == [s.req EXCEPT !.name = n, !.ext = "dir", !.parent = s.cwd, !.buffer_size = ClusterSize]
      c  == FSD(dk)!move_to_child_directory(s.cwd, n)
  IN  IF rd = 0 THEN [cwd |-> c, dir |-> Append(s.dir, n), req |-> r, ret |-> c]
      ELSE [s EXCEPT !.req = r, !.ret = rd]

cd_parent(s, dk) ==
  LET r == [s.req EXCEPT !.parent = s.cwd]
      c == FSD(dk)!move_to_parent_directory(s.cwd)
  IN  IF s.cwd # ROOT
      THEN [cwd |-> c, dir |-> SubSeq(s.dir, 1, Len(s.dir) - 1), req |-> r, ret |-> c]
      ELSE [s EXCEPT !.req = r]

cd(s, a, dk) == IF a = ".." THEN cd_parent(s, dk) ELSE cd_child(s, a, dk)

CdChild(n) ==
  /\ Ready
  /\ SetSh(cd(Sh, n, disk))
  /\ out' = <<>>
  /\ UNCHANGED <<disk, fat, wild, edge, up, pc, echo_data>>

CdParent ==
  /\ Ready
  /\ SetSh(cd(Sh, "..", disk))
  /\ out' = IF cwd # ROOT THEN <<>> ELSE out
  /\ UNCHANGED <<disk, fat, wild, edge, up, pc, echo_data>>

(* The first cluster of the entry (g, e) of folder p, which a read with a *)
(* cluster of buffer copies into request.buf.                              *)
FirstCluster(p, g, e) ==
  LET tbl == FS!TableAt(p) IN disk[tbl[FS!MatchIndex(tbl, g, e)].cluster]

(***************************************************************************)
(* cp n.e DEST.  reader_with_clust reads (n, e) in the cwd with a cluster *)
(* of buffer.  When that succeeds, the content (one cluster: a larger file *)
(* fails the read with 2) is written with buffer_size CLUSTER_SIZE:        *)
(*   - DEST "t.x" (a dot, no slash): as t.x in the cwd;                    *)
(*   - DEST "m1/m2" (no dot): after a cd per name, stopping at the first   *)
(*     that returns 2, under the source's name in the folder reached, then *)
(*     one cd .. per cd counted; when the last cd returned 2, only the cd  *)
(*     .. calls.  A cd that returns anything but 2 is counted, whether it  *)
(*     moved or not.                                                       *)
(* A DEST with a dot and a slash does nothing after the read, and ".."    *)
(* holds a dot, so it is a file name; neither is enumerated.               *)
(***************************************************************************)
Steps     == TypedNames
FileDests == [kind: {"file"}, name: TypedNames, ext: FileExts]
PathDests == [kind: {"path"}, path: {<<m>> : m \in Steps} \cup {<<m1, m2>> : m1, m2 \in Steps}]
Dests     == FileDests \cup PathDests

(* One turn of the cd loop of cp: a cd that returns 2 is not counted and *)
(* ends the loop; any other (0, or 1 for a file m.dir, which cd does not  *)
(* enter) is counted and the loop goes on from where cd left the shell.   *)
CdStep(acc, m, dk) ==
  LET s2 == cd(acc.st, m, dk)
  IN  IF acc.stop THEN acc
      ELSE [st |-> s2, cnt |-> acc.cnt + (IF s2.ret = 2 THEN 0 ELSE 1), stop |-> s2.ret = 2]

(* The cd loop of cp: the state it leaves and cd_count.                   *)
CdWalk(s, path, dk) ==
  SeqX!FoldLeft(LAMBDA acc, m : CdStep(acc, m, dk), [st |-> s, cnt |-> 0, stop |-> FALSE], path)

(* cd_count calls of cd("..").                                             *)
CdUp(s, k, dk) == SeqX!FoldLeft(LAMBDA t, u : cd(t, "..", dk), s, [i \in 1 .. k |-> ".."])

Cp(n, e, dst) ==
  LET ext  == IF e = "" THEN NoExt ELSE e
      rq   == [request EXCEPT !.name = n, !.ext = ext, !.parent = cwd, !.buffer_size = ClusterSize]
      rs   == FS!read_status(cwd, n, ext, ClusterSize)
      c    == FirstCluster(cwd, n, ext)
      data == IF c.kind = "data" THEN c.d ELSE Blank
      w    == CdWalk([Sh EXCEPT !.req = rq, !.ret = 0], dst.path, disk)
      wc   == w.st.cwd
      ws   == FS!write_status(wc, n, ext, ClusterSize)
      dk   == IF ws = 0 THEN FS!write_result(wc, n, ext, ClusterSize, data).disk.map ELSE disk
  IN  /\ Ready
      /\ CASE rs # 0 ->
             /\ request' = rq
             /\ FS!read(cwd, n, ext, ClusterSize)
             /\ NoWrite
             /\ UNCHANGED <<cwd, current_dir>>
          [] dst.kind = "file" ->
             /\ request' = [rq EXCEPT !.name = dst.name, !.ext = dst.ext]
             /\ FS!write(cwd, dst.name, dst.ext, ClusterSize, data)
             /\ out' = <<c>>
             /\ UNCHANGED <<cwd, current_dir>>
          [] w.st.ret = 2 ->
             /\ SetSh(CdUp(w.st, w.cnt, disk))
             /\ out' = <<c>>
             /\ NoWrite
          [] OTHER ->
             /\ IF ws = 0 THEN FS!write_effect(wc, n, ext, ClusterSize, data, "map")
                          ELSE UNCHANGED <<disk, fat, edge>>
             /\ SetSh(CdUp([w.st EXCEPT !.req = [@ EXCEPT !.name = n, !.ext = ext, !.parent = wc,
                                                            !.buffer_size = ClusterSize],
                                        !.ret = ws], w.cnt, dk))
             /\ out' = <<c>>
      /\ UNCHANGED <<wild, up, pc, echo_data>>

(***************************************************************************)
(* mkdir n: read_directory (n, "dir"); only when it is not found (2),     *)
(* write a folder (buffer_size 0).                                         *)
(***************************************************************************)
Mkdir(n) ==
  LET rd == FS!read_directory(cwd, n, "dir")
  IN  /\ Ready
      /\ request' = [request EXCEPT !.name = n, !.ext = "dir", !.parent = cwd,
                                    !.buffer_size = 0]
      /\ IF rd = 2
         THEN FS!write(cwd, n, "dir", 0, Blank)
         ELSE ret' = rd /\ UNCHANGED <<disk, fat, edge>>
      /\ out' = <<>>
      /\ UNCHANGED <<wild, up, cwd, current_dir, pc, echo_data>>

(***************************************************************************)
(* touch n.e: read (n, e) with a cluster of buffer; only when it is not   *)
(* found (3), write a file of CLUSTER_SIZE zeroes.                         *)
(***************************************************************************)
Touch(n, e, g) ==
  LET rs == FS!read_status(cwd, g, e, ClusterSize)
  IN  /\ Ready
      /\ request' = [request EXCEPT !.name = g, !.ext = e, !.parent = cwd,
                                    !.buffer_size = ClusterSize]
      /\ IF rs = 3
         THEN FS!write(cwd, g, e, ClusterSize, Blank) /\ out' = <<>> /\ UNCHANGED wild
         ELSE FS!read(cwd, g, e, ClusterSize) /\ UNCHANGED <<disk, fat, edge>>
      /\ UNCHANGED <<up, cwd, current_dir, pc, echo_data>>

(***************************************************************************)
(* cat n.e: read with a cluster of buffer.  With no dot the argument left *)
(* after split_by_first is "", memcpy copies strlen = 0 bytes, and the    *)
(* extension of the previous command is used.                              *)
(***************************************************************************)
Cat(n, e) ==
  LET ext == IF e = "" THEN request.ext ELSE e
  IN  /\ Ready
      /\ request' = [request EXCEPT !.name = n, !.ext = ext, !.parent = cwd,
                                    !.buffer_size = ClusterSize]
      /\ FS!read(cwd, n, ext, ClusterSize)
      /\ NoWrite
      /\ UNCHANGED <<cwd, current_dir, pc, echo_data>>

(***************************************************************************)
(* rm n.e.  memcpy copies strlen(filename) bytes of the name over          *)
(* request.name: a one-character name replaces a one-character one, the   *)
(* first byte of a garbled name, and makes any longer name one nobody     *)
(* has.  Then, whatever was typed, read_directory of (name, the extension *)
(* left in request.ext): a folder sets the extension to "dir"; a file is  *)
(* read with buffer_size 0, which fails (2) for any file, and the          *)
(* extension becomes the 3 bytes of the argument after the dot (zero for *)
(* "rm n" with a one-character n); not found leaves the old extension.    *)
(* delete is called with the result.                                       *)
(***************************************************************************)
RmName(old, n) ==
  CASE old \in TypedNames                   -> n
    [] \E m \in TypedNames : old = Garble(m) -> Garble(n)
    [] OTHER                                 -> Mangled

(* Mutant of RmExt: the argument after the dot is taken as typed, "" for  *)
(* no dot, instead of its three bytes.                                     *)
RmExt_emptyarg(nm, e) ==
  LET rd == FS!read_directory(cwd, nm, request.ext)
  IN  CASE rd = 0 -> "dir"
        [] rd = 1 -> IF FS!read_status(cwd, nm, request.ext, 0) = 0 THEN NoExt ELSE e
        [] OTHER  -> request.ext

RmExt(nm, e) ==
  LET rd  == FS!read_directory(cwd, nm, request.ext)
      arg == IF e = "" THEN NoExt ELSE e
  IN  CASE rd = 0 -> "dir"
        [] rd = 1 -> IF FS!read_status(cwd, nm, request.ext, 0) = 0 THEN NoExt ELSE arg
        [] OTHER  -> request.ext

Rm(n, e) ==
  LET nm  == RmName(request.name, n)
      ext == RmExt(nm, e)
  IN  /\ Ready
      /\ request' = [request EXCEPT !.name = nm, !.ext = ext, !.parent = cwd,
                                    !.buffer_size = 0]
      /\ FS!delete(cwd, nm, ext)
      /\ out' = <<>>
      /\ UNCHANGED <<up, cwd, current_dir, pc, echo_data>>

(***************************************************************************)
(* echo text>n.e.  The text is copied into request.buf, then read (n, e)  *)
(* with a cluster of buffer copies the file over it; on success delete    *)
(* and write (a cluster) store request.buf, the file's own payload.       *)
(* memcpy(request.ext, argument, 4) writes the terminator one byte past   *)
(* ext, into the padding before parent_cluster_number.                    *)
(***************************************************************************)

EchoRead(n, e, g) ==
  LET rs == FS!read_status(cwd, g, e, ClusterSize)
      c  == FirstCluster(cwd, g, e)
  IN  /\ Ready
      /\ request' = [request EXCEPT !.name = g, !.ext = e, !.parent = cwd,
                                    !.buffer_size = ClusterSize]
      /\ IF rs # 0
         THEN FS!read(cwd, g, e, ClusterSize) /\ NoWrite /\ UNCHANGED <<pc, echo_data>>
         ELSE /\ FS!delete(cwd, g, e)
              /\ out' = <<c>>
              /\ echo_data' = IF c.kind = "data" THEN c.d ELSE Blank
              /\ pc' = "echo"
      /\ UNCHANGED <<up, cwd, current_dir>>

EchoWrite ==
  /\ up /\ pc = "echo"
  /\ FS!write(request.parent, request.name, request.ext, ClusterSize, echo_data)
  /\ out' = <<>>
  /\ pc' = "idle"
  /\ UNCHANGED <<wild, up, cwd, current_dir, request, echo_data>>

TypedExts == FileExts \cup {""}

Next ==
  \/ \E n \in TypedNames :
       \/ CdChild(n)
       \/ Mkdir(n)
       \/ \E e \in FileExts, g \in {n, Garble(n)} : Touch(n, e, g) \/ EchoRead(n, e, g)
       \/ \E e \in TypedExts : Cat(n, e) \/ Rm(n, e) \/ \E dst \in Dests : Cp(n, e, dst)
  \/ CdParent
  \/ EchoWrite
  \/ Boot
  \/ PowerOff

Spec == Init /\ [][Next]_vars



(* The state that decides what the shell can do next.  Every command sets *)
(* ret, out, request.parent and request.buffer_size before it reads them,  *)
(* so two states that differ only there have the same futures.             *)
ShellView ==
  <<disk, fat, wild, edge, up, cwd, current_dir, request.name, request.ext, pc, echo_data>>

-----------------------------------------------------------------------------
TypeOK ==
  /\ FS!TypeOK
  /\ cwd \in FS!Clusters
  /\ current_dir \in Seq(TypedNames)
  /\ request \in [name: Names, ext: Exts, parent: FS!Clusters, buffer_size: {0, ClusterSize}]
  /\ pc \in {"idle", "echo"}
  /\ echo_data \in Data

(* The names from the root down to folder c, following the self entries.  *)
RECURSIVE PathOf(_, _)
PathOf(c, k) ==
  IF c = ROOT \/ k = 0 THEN <<>>
  ELSE Append(PathOf(FS!TableAt(c)[0].cluster, k - 1), FS!TableAt(c)[0].name)

(* While no call has taken an edge path of the driver, the working folder *)
(* is a live folder and the prompt's current_dir names the path to it:     *)
(* cd appends a name only when it moved into that folder, cd .. drops one *)
(* exactly when it moved up, a reboot restarts both at the root, and no   *)
(* mkdir, touch, rm or echo in any folder moves or removes the cwd.        *)
CwdMatchesPath ==
  up /\ edge = {} =>
    /\ cwd \in FS!LiveDirs
    /\ current_dir = PathOf(cwd, NClusters)

(* rm n.e removes the entry n.e of the cwd and nothing else; rm n (no dot) *)
(* removes an entry named n.  The extension rm passes to delete is decided *)
(* from request.ext, which the previous command set.                        *)
RmRemovesOnlyNamed ==
  [][\A n \in TypedNames, e \in TypedExts :
       Rm(n, e) =>
         \A x \in FS!LiveEntries \ FS!LiveEntries' :
           /\ x[1] = cwd
           /\ FS!EntryOf(x).name = n
           /\ e # "" => FS!EntryOf(x).ext = e]_vars

(* cp n.e DEST writes where DEST says: every entry it adds is in the      *)
(* folder DEST names (the cwd for t.x; for a path, the folder whose path   *)
(* is current_dir followed by DEST) and is named t.x or n.e accordingly.   *)
(* cp itself reports "the path is invalid" and copies nothing when a name *)
(* of the path cannot be entered, so the copy is never meant to land      *)
(* elsewhere.                                                              *)
CpWritesAtDest ==
  [][\A n \in TypedNames, e \in TypedExts, dst \in Dests :
       Cp(n, e, dst) =>
         \A x \in FS!LiveEntries' \ FS!LiveEntries :
           IF dst.kind = "file"
           THEN x[1] = cwd /\ FS!EntryOf(x)'.name = dst.name /\ FS!EntryOf(x)'.ext = dst.ext
           ELSE /\ PathOf(x[1], NClusters)' = current_dir \o dst.path
                /\ FS!EntryOf(x)'.name = n
                /\ FS!EntryOf(x)'.ext = IF e = "" THEN NoExt ELSE e]_vars

=============================================================================
