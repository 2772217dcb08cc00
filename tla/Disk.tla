-------------------------------- MODULE Disk --------------------------------
(***************************************************************************)
(* The server's file system under the virtual root: the part of POSIX that *)
(* server/src/sftp_server.rs uses through std::fs.  It is outside the      *)
(* repository.  A place is a path below the root; what a place holds is an *)
(* object (an inode), which lives on while some open file refers to it.    *)
(* Files are abstracted to their size.  There are no links, permissions    *)
(* are never denied, and the root itself is never removed or renamed.      *)
(***************************************************************************)
EXTENDS VirtualRoot, FiniteSets

CONSTANTS Places,   \* the paths below the root that may be in use
          Objs,     \* the inodes of the disk
          NoObj,    \* what a place not in use holds
          MaxSize,  \* the quota of a file: writing beyond it fails
          InitTree, \* the tree and the kinds of its objects when the server
          InitKind  \* starts

ASSUME DiskAssumption ==
  /\ Places \subseteq Seq(Name) /\ <<>> \in Places
  /\ \A p \in Places : p # <<>> => Front(p) \in Places
  /\ NoObj \notin Objs
  /\ MaxSize \in Nat
  /\ InitTree \in [Places -> Objs \cup {NoObj}]
  /\ \A p, q \in Places : InitTree[p] = InitTree[q] => p = q \/ InitTree[p] = NoObj
  /\ InitKind \in [Objs -> {"file", "dir"}]

VARIABLES tree,     \* tree[p]: the object at place p, or NoObj
          kind,     \* kind[o]: "file" or "dir"
          size      \* size[o]: metadata().len() of a file

disk == <<tree, kind, size>>

DiskTypeOK ==
  /\ tree \in [Places -> Objs \cup {NoObj}]
  /\ kind \in [Objs -> {"file", "dir"}]
  /\ size \in [Objs -> 0..MaxSize]

\* The files of the starting disk have any size.
InitDisk ==
  /\ tree = InitTree /\ kind = InitKind
  /\ size \in [Objs -> 0..MaxSize]
  /\ \A o \in Objs : size[o] # 0 => kind[o] = "file" /\ \E p \in Places : tree[p] = o

(* Path::exists(), Path::is_dir(), fs::metadata().                         *)
Exists(p) == p \in Places /\ tree[p] # NoObj
IsDir(p)  == Exists(p) /\ kind[tree[p]] = "dir"
IsFile(p) == Exists(p) /\ kind[tree[p]] = "file"

Children(p) == {c \in Places \ {<<>>} : Exists(c) /\ Front(c) = p}

(* Creating needs a parent directory, a free name and a free inode.        *)
Free(held) == Objs \ ({tree[p] : p \in Places} \cup held)

CanCreate(p, held) ==
  p \in Places \ {<<>>} /\ ~Exists(p) /\ IsDir(Front(p)) /\ Free(held) # {}

Create(p, k, held) ==
  LET o == CHOOSE o \in Free(held) : TRUE
  IN  /\ tree' = [tree EXCEPT ![p] = o]
      /\ kind' = [kind EXCEPT ![o] = k]
      /\ size' = [size EXCEPT ![o] = 0]

(* fs::remove_file and fs::remove_dir.                                     *)
CanUnlink(p) == IsFile(p)
CanRmdir(p)  == p # <<>> /\ IsDir(p) /\ Children(p) = {}
Unlink(p)    == tree' = [tree EXCEPT ![p] = NoObj] /\ UNCHANGED <<kind, size>>

(* fs::rename replaces a file by a file and an empty directory by a        *)
(* directory, and takes what is below the old name with it.                *)
Moved(from) == {p \in Places : StartsWith(p, from) /\ Exists(p)}

CanRename(from, to) ==
  /\ from # <<>> /\ to # <<>> /\ Exists(from) /\ to \in Places
  /\ IsDir(Front(to))
  /\ from = to \/ ~StartsWith(to, from)
  /\ Exists(to) => IF IsDir(from) THEN IsDir(to) /\ (from = to \/ Children(to) = {})
                                  ELSE IsFile(to)
  /\ \A p \in Moved(from) : to \o StripPrefix(p, from) \in Places

Rename(from, to) ==
  /\ tree' = [p \in Places |->
                IF StartsWith(p, to)
                THEN LET old == from \o StripPrefix(p, to)
                     IN  IF old \in Places THEN tree[old] ELSE NoObj
                ELSE IF StartsWith(p, from) THEN NoObj ELSE tree[p]]
  /\ UNCHANGED <<kind, size>>
=============================================================================
