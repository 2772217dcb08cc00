------------------------------- MODULE Inodes -------------------------------
(***************************************************************************)
(* The two tables of client/src/filesystem.rs: struct Inodes, from numbers *)
(* to paths on the server, and struct FHandlers, from the numbers the      *)
(* kernel is given for its open files to the files of the ssh2 crate.      *)
(***************************************************************************)
EXTENDS Naturals, Sequences, FiniteSets

CONSTANTS Names,      \* names of directory entries
          Paths,      \* the paths of the server the instance uses
          NoPath,     \* what a number without a path has
          MaxInode,   \* inode numbers given out (a bound: u64 in the code)
          MaxFh,      \* file handle numbers given out (a bound)
          SftpHandles,\* the handles of the server
          NoHandle,
          MaxOffset   \* largest file offset (a bound)

ASSUME InodesAssumption ==
  /\ Paths \subseteq Seq(Names) /\ NoPath \notin Seq(Names)
  /\ MaxInode \in Nat \ {0} /\ MaxFh \in Nat /\ MaxOffset \in Nat
  /\ NoHandle \notin SftpHandles

Inos == 1..MaxInode
Fhs  == 0..MaxFh

Inodes == [list : [Inos -> Paths \cup {NoPath}], max_inode : 0..MaxInode]

NoInodes == [list |-> [i \in Inos |-> NoPath], max_inode |-> 0]

Known(t, p) == \E i \in Inos : t.list[i] = p

\* get_inode: the table is searched; at most one number has the path.
GetInode(t, p) == CHOOSE i \in Inos : t.list[i] = p

Bug_NextInode_len(t) == Cardinality({i \in Inos : t.list[i] # NoPath}) + 1

NextInode(t) == t.max_inode + 1

Bound(t, p) == [list |-> [t.list EXCEPT ![NextInode(t)] = p], max_inode |-> NextInode(t)]

Bug_Add_always(t, p) == [table |-> Bound(t, p), ino |-> NextInode(t)]

\* The table after add, and the number it returns.
Add(t, p) ==
  IF Known(t, p) THEN [table |-> t, ino |-> GetInode(t, p)]
                 ELSE [table |-> Bound(t, p), ino |-> NextInode(t)]

Room(t, p) == Known(t, p) \/ NextInode(t) <= MaxInode

DelInode(t, i) == [t EXCEPT !.list[i] = NoPath]
-----------------------------------------------------------------------------
(* ssh2::File: a handle of the server, the offset libssh2 keeps, and       *)
(* whether it was opened with APPEND.                                      *)

File   == [h : SftpHandles, path : Paths, pos : 0..MaxOffset, append : BOOLEAN]
NoFile == [h |-> NoHandle, path |-> NoPath, pos |-> 0, append |-> FALSE]

FHandlers == [list : [Fhs -> File \cup {NoFile}], next_fh : Fhs]

NoFHandlers == [list |-> [f \in Fhs |-> NoFile], next_fh |-> 0]

Bug_NextFh_len(t) == Cardinality({f \in Fhs : t.list[f] # NoFile})

NextFh(t) == t.next_fh

AddFile(t, file) ==
  [list |-> [t.list EXCEPT ![NextFh(t)] = file], next_fh |-> NextFh(t) + 1]

DelFile(t, fh) == [t EXCEPT !.list[fh] = NoFile]

Files(t) == {fh \in Fhs : t.list[fh] # NoFile}
=============================================================================
