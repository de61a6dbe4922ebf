------------------------------ MODULE FileTree ------------------------------
(***************************************************************************)
(* What the file system promises its callers (spec.md, sections 4 and 7), *)
(* with no clusters and no map: a tree of folders, each holding entries    *)
(* named by (name, ext), an entry being a sub-folder or a file with its    *)
(* payload and size.  A call creates one entry in a live folder, removes  *)
(* one entry (a folder only when it is empty), or changes nothing.         *)
(***************************************************************************)
EXTENDS FiniteSets

CONSTANTS
  Ids,       \* folder identities
  Root,      \* the root folder
  Names, Exts, Data, Sizes

ASSUME Root \in Ids

(* An entry of folder parent: a folder (obj is its identity) or a file    *)
(* (obj is its [data, size]).                                              *)
FileObj == [data: Data, size: Sizes]
Entries == [parent: Ids, name: Names, ext: Exts, folder: {TRUE}, obj: Ids]
    \cup [parent: Ids, name: Names, ext: Exts, folder: {FALSE}, obj: FileObj]

VARIABLES dirs, entries

vars == <<dirs, entries>>

Init == dirs = {Root} /\ entries = {}

Taken(p, n, e) == \E x \in entries : x.parent = p /\ x.name = n /\ x.ext = e

(* write: entry x, under a name not yet taken in a live folder; a folder  *)
(* gets a fresh identity and is live and empty.                            *)
Create(x) ==
  /\ x.parent \in dirs
  /\ ~Taken(x.parent, x.name, x.ext)
  /\ x.folder => x.obj \notin dirs
  /\ entries' = entries \cup {x}
  /\ dirs' = IF x.folder THEN dirs \cup {x.obj} ELSE dirs

(* delete: a file, or a folder that holds no entry.                        *)
Remove(x) ==
  /\ x.folder => \A y \in entries : y.parent # x.obj
  /\ entries' = entries \ {x}
  /\ dirs' = IF x.folder THEN dirs \ {x.obj} ELSE dirs

(* A step creates or removes one entry: the one by which entries and       *)
(* entries' differ.                                                        *)
Next ==
  \/ \E x \in entries' \ entries : x \in Entries /\ Create(x)
  \/ \E x \in entries \ entries' : Remove(x)

Spec == Init /\ [][Next]_vars
=============================================================================
