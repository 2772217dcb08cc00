---------------------------- MODULE SshfsClient ----------------------------
(***************************************************************************)
(* The FUSE client of client/src/filesystem.rs: struct Sshfs between the   *)
(* kernel, whose requests fuser hands over one at a time, and the server's *)
(* tree, which other clients change between any two SFTP calls of one      *)
(* request.  The kernel, the ssh2 crate and the server are outside this    *)
(* file.  The kernel sends what its dentries and open files allow; a call  *)
(* of ssh2 may fail at any time, and one that changes the tree may fail    *)
(* with its effect done; an open that fails leaves no handle behind.       *)
(***************************************************************************)
EXTENDS Inodes

CONSTANTS Ops,       \* the requests of this instance
          Mounts,    \* the directories of the server that may be mounted
          InitTree,  \* the server's tree at the start
          Listings,  \* how the server lists a set of names
          Dot, DotDot,
          Fresh, Retired  \* numbers without a path, in the abstract table

ASSUME ClientAssumption ==
  /\ Mounts \subseteq Paths /\ <<>> \in Paths
  /\ \A p \in Paths : p # <<>> => SubSeq(p, 1, Len(p) - 1) \in Paths
  /\ InitTree \in [Paths -> {"none", "file", "dir"}]
  /\ Listings \in [SUBSET Names -> Seq(Names)]
  /\ \A S \in SUBSET Names :
       /\ S = {Listings[S][k] : k \in 1..Len(Listings[S])}
       /\ Len(Listings[S]) = Cardinality(S)
  /\ {Dot, DotDot} \cap Names = {}
  /\ Fresh \notin Paths /\ Retired \notin Paths /\ Fresh # Retired

VARIABLES
  alive,          \* the process runs
  inodes,         \* Sshfs::inodes
  file_handles,   \* Sshfs::file_handles
  work,           \* the request in progress between two SFTP calls
  reply,          \* the last answer to the kernel
  remote,         \* the server: what is at each path
  held,           \* the server: handles this client has open
  dentries,       \* the kernel: names it has found, with their numbers
  opened,         \* the kernel: its open files
  stream          \* the kernel: a directory being read page by page

client == <<alive, inodes, file_handles>>
kernel == <<dentries, opened, stream>>
server == <<remote, held>>
vars   == <<client, work, reply, server, kernel>>

Parent(p) == SubSeq(p, 1, Len(p) - 1)
Entries   == Names \cup {Dot, DotDot}

Work == [op : {"idle"} \cup (Ops \cap {"mknod", "mkdir", "readdir", "read", "write"}),
         path : Paths \cup {NoPath}, h : SftpHandles \cup {NoHandle},
         parent : Inos, name : Names \cup {Dot},
         fh : Fhs, off : Nat, len : 0..MaxOffset, done : Nat,
         moved : SUBSET Nat, dir : Seq(Entries), page : Seq(Entries)]
Idle == [op |-> "idle", path |-> NoPath, h |-> NoHandle, parent |-> 1, name |-> Dot,
         fh |-> 0, off |-> 0, len |-> 0, done |-> 0,
         moved |-> {}, dir |-> <<>>, page |-> <<>>]

Reply == [op : Ops \cup {"none"}, st : {"none", "ok", "error"},
          asked : 0..MaxInode, ino : 0..MaxInode,
          off : Nat, len : 0..MaxOffset, n : Nat, eof : BOOLEAN,
          moved : SUBSET Nat, appends : BOOLEAN]
NoReply == [op |-> "none", st |-> "none", asked |-> 0, ino |-> 0,
            off |-> 0, len |-> 0, n |-> 0, eof |-> FALSE,
            moved |-> {}, appends |-> FALSE]

Dentry == [parent : Inos, name : Names, ino : Inos]
Opened == [fh : Fhs, ino : Inos, path : Paths]

Stream == [st : {"none", "open", "done", "failed"}, ino : Inos,
           path : Paths \cup {NoPath}, off : Nat, got : Seq(Entries), clean : BOOLEAN]
NoStream == [st |-> "none", ino |-> 1, path |-> NoPath, off |-> 0, got |-> <<>>, clean |-> TRUE]

ClientTypeOK ==
  /\ alive \in BOOLEAN
  /\ inodes \in Inodes
  /\ file_handles \in FHandlers
  /\ work \in Work
  /\ reply \in Reply

KernelTypeOK ==
  /\ dentries \subseteq Dentry
  /\ opened \subseteq Opened
  /\ stream \in Stream

ServerTypeOK ==
  /\ remote \in [Paths -> {"none", "file", "dir"}]
  /\ held \subseteq SftpHandles

TypeOK == ClientTypeOK /\ KernelTypeOK /\ ServerTypeOK
-----------------------------------------------------------------------------
(* The server, as the client meets it.                                     *)

Exists(p) == p \in Paths /\ remote[p] # "none"
IsDir(p)  == p \in Paths /\ remote[p] = "dir"
Has(p, name) == Exists(Append(p, name))

CanCreate(p) == p \in Paths \ {<<>>} /\ remote[p] = "none" /\ IsDir(Parent(p))
CanRemove(p, k) ==
  /\ p \in Paths \ {<<>>} /\ remote[p] = k
  /\ \A name \in Names : ~Has(p, name)

\* The directory being read page by page stays clean while its names do.
Puts(p, k) ==
  /\ remote' = [remote EXCEPT ![p] = k]
  /\ stream' = [stream EXCEPT !.clean =
       @ /\ (p # <<>> /\ Parent(p) = stream.path => (remote[p] = "none" <=> k = "none"))]

\* What another client does between two calls of this one.
Others ==
  /\ \E p \in Paths : \/ CanCreate(p) /\ \E k \in {"file", "dir"} : Puts(p, k)
                      \/ \E k \in {"file", "dir"} : CanRemove(p, k) /\ Puts(p, "none")
  /\ reply' = NoReply
  /\ UNCHANGED <<client, work, held, dentries, opened>>

\* Sftp::readdir opens, reads and closes the directory and joins each name to it.
Listing(p) == Listings[{name \in Names : Has(p, name)}]
-----------------------------------------------------------------------------
(* What every request is made of.                                          *)

Nodes == {1} \cup {d.ino : d \in dentries} \cup {o.ino : o \in opened}

Ask(op) == op \in Ops /\ alive /\ work = Idle

Silent == reply' = NoReply

HasPath(i)          == inodes.list[i] # NoPath
Child(parent, name) == Append(inodes.list[parent], name)

Says(op, st, i, j) == reply' = [NoReply EXCEPT !.op = op, !.st = st, !.asked = i, !.ino = j]

Unbinds(parent, name)  == {d \in dentries : ~(d.parent = parent /\ d.name = name)}
Binds(parent, name, i) == Unbinds(parent, name) \cup {[parent |-> parent, name |-> name, ino |-> i]}

\* get_attr of a path that is there: it has a number from now on.
Attr(p) == Exists(p) /\ Room(inodes, p) /\ inodes' = Add(inodes, p).table
-----------------------------------------------------------------------------
(* Names and numbers.                                                      *)

Lookup(parent, name) ==
  LET p == Child(parent, name)
      i == Add(inodes, p).ino
  IN  /\ Ask("lookup") /\ parent \in Nodes
      /\ \/ /\ HasPath(parent) /\ Attr(p)
            /\ dentries' = Binds(parent, name, i)
            /\ Says("lookup", "ok", parent, i)
         \/ /\ dentries' = Unbinds(parent, name)
            /\ Says("lookup", "error", parent, 0)
            /\ UNCHANGED inodes
      /\ UNCHANGED <<alive, file_handles, work, server, opened, stream>>

Getattr(i) ==
  /\ Ask("getattr") /\ i \in Nodes
  /\ \/ /\ HasPath(i) /\ Attr(inodes.list[i])
        /\ Says("getattr", "ok", i, Add(inodes, inodes.list[i]).ino)
     \/ Says("getattr", "error", i, 0) /\ UNCHANGED inodes
  /\ UNCHANGED <<alive, file_handles, work, server, kernel>>

\* The kernel forgets a name when it likes; FORGET is not implemented.
Forget(d) ==
  /\ d \in dentries /\ alive /\ work = Idle
  /\ dentries' = dentries \ {d} /\ Silent
  /\ UNCHANGED <<client, work, server, opened, stream>>

Bug_Forgotten_on_error(p) == DelInode(inodes, GetInode(inodes, p))

\* The error arm leaves the number of the path alone.
AfterError(p) == inodes

\* unlink (of a file) and rmdir (of a directory) of a name the kernel has found:
\* the call may fail, or its answer may be lost when it is done.
Remove(op, k, d) ==
  LET p == Child(d.parent, d.name)
      found == HasPath(d.parent) /\ CanRemove(p, k)
  IN  /\ Ask(op) /\ d \in dentries
      /\ \/ /\ found /\ Known(inodes, p)
            /\ Puts(p, "none")
            /\ inodes' = DelInode(inodes, GetInode(inodes, p))
            /\ dentries' = {e \in dentries : e # d /\ e.parent # d.ino}
            /\ Says(op, "ok", d.parent, d.ino)
            /\ UNCHANGED alive
         \/ /\ found /\ ~Known(inodes, p)           \* get_inode(..).unwrap()
            /\ Puts(p, "none")
            /\ alive' = FALSE /\ Silent
            /\ UNCHANGED <<inodes, dentries>>
         \/ /\ \/ found /\ Puts(p, "none")
               \/ UNCHANGED <<remote, stream>>
            /\ inodes' = IF HasPath(d.parent) /\ Known(inodes, p) THEN AfterError(p) ELSE inodes
            /\ Says(op, "error", d.parent, 0)
            /\ UNCHANGED <<alive, dentries>>
      /\ UNCHANGED <<file_handles, work, held, opened>>

Unlink(d) == Remove("unlink", "file", d)
Rmdir(d)  == Remove("rmdir", "dir", d)

\* mknod opens with CREATE, which an existing file allows; the file it gets is
\* dropped at the end of the match.  mkdir needs a free name.
Make(op, k, parent, name) ==
  LET p == Child(parent, name)
      free == HasPath(parent) /\ (CanCreate(p) \/ (op = "mknod" /\ p \in Paths /\ remote[p] = "file"))
  IN  /\ Ask(op) /\ parent \in Nodes
      /\ ~\E d \in dentries : d.parent = parent /\ d.name = name
      /\ \/ /\ free /\ Room(inodes, p)
            /\ Puts(p, k)
            /\ \E h \in IF op = "mknod" THEN SftpHandles \ held ELSE {NoHandle} :
                 /\ held' = held \cup ({h} \ {NoHandle})
                 /\ work' = [Idle EXCEPT !.op = op, !.path = p, !.h = h,
                                         !.parent = parent, !.name = name]
            /\ Silent
         \/ /\ \/ free /\ Puts(p, k)
               \/ UNCHANGED <<remote, stream>>
            /\ Says(op, "error", parent, 0)
            /\ UNCHANGED <<held, work>>
      /\ UNCHANGED <<client, dentries, opened>>

Mknod(parent, name) == Make("mknod", "file", parent, name)
Mkdir(parent, name) == Make("mkdir", "dir", parent, name)

\* get_attr of what was made, which another client may have removed by now.
MakeStat ==
  LET i == Add(inodes, work.path).ino
  IN  /\ work.op \in {"mknod", "mkdir"}
      /\ \/ /\ Attr(work.path)
            /\ dentries' = Binds(work.parent, work.name, i)
            /\ Says(work.op, "ok", work.parent, i)
         \/ /\ Says(work.op, "error", work.parent, 0)
            /\ UNCHANGED <<inodes, dentries>>
      /\ held' = held \ {work.h}
      /\ work' = Idle
      /\ UNCHANGED <<alive, file_handles, remote, opened, stream>>
-----------------------------------------------------------------------------
(* Reading a directory.  OPENDIR is not implemented: the kernel reads with *)
(* offset 0 first, then with the offset of the last entry it was given.    *)

Bug_EntryOffset_of_page(off, i) == i + 1

\* The offset of the i-th entry (from 0) of the page that starts at off.
EntryOffset(off, i) == i + off + 1

StartStream(i) ==
  /\ Ask("readdir") /\ i \in Nodes
  /\ stream' = [NoStream EXCEPT !.st = "open", !.ino = i, !.path = inodes.list[i]]
  /\ Silent
  /\ UNCHANGED <<client, work, server, dentries, opened>>

Readdir ==
  LET p == inodes.list[stream.ino]
  IN  /\ Ask("readdir") /\ stream.st = "open"
      /\ \/ /\ HasPath(stream.ino) /\ IsDir(p)
            /\ work' = [Idle EXCEPT !.op = "readdir", !.path = p, !.off = stream.off,
                                    !.dir = <<DotDot, Dot>> \o Listing(p)]
            /\ Silent /\ UNCHANGED stream
         \/ /\ stream' = [stream EXCEPT !.st = "failed"]
            /\ Says("readdir", "error", stream.ino, 0)
            /\ UNCHANGED work
      /\ UNCHANGED <<client, server, dentries, opened>>

\* reply.ok(): an empty page ends the stream.
SendPage ==
  /\ work' = Idle
  /\ stream' = IF work.page = <<>> THEN [stream EXCEPT !.st = "done"]
               ELSE [stream EXCEPT !.got = @ \o work.page,
                                   !.off = EntryOffset(work.off, work.done - 1)]
  /\ Says("readdir", "ok", stream.ino, 0)

\* skip(offset), then one turn of the iterator: the entry gets a number before
\* the page turns out to be full.  The first entry always fits.
ReaddirEntry ==
  LET k == work.off + work.done + 1
      e == work.dir[k]
      p == Append(work.path, e)
  IN  /\ work.op = "readdir"
      /\ \/ k > Len(work.dir) /\ SendPage /\ UNCHANGED inodes
         \/ /\ k <= Len(work.dir)
            /\ IF e \in {Dot, DotDot} THEN UNCHANGED inodes
               ELSE Room(inodes, p) /\ inodes' = Add(inodes, p).table
            /\ \/ /\ work' = [work EXCEPT !.done = @ + 1, !.page = Append(@, e)]
                  /\ Silent /\ UNCHANGED stream
               \/ work.page # <<>> /\ SendPage
      /\ UNCHANGED <<alive, file_handles, server, dentries, opened>>
-----------------------------------------------------------------------------
(* Files.                                                                  *)

\* Of the flags APPEND outlives the open; the kernel sends no CREATE and no EXCL.
Open(i, append) ==
  LET p == inodes.list[i]
      n == NextFh(file_handles)
  IN  /\ Ask("open") /\ i \in Nodes
      /\ \/ /\ HasPath(i) /\ Exists(p) /\ ~IsDir(p) /\ file_handles.next_fh < MaxFh
            /\ \E h \in SftpHandles \ held :
                 /\ held' = held \cup {h}
                 /\ file_handles' = AddFile(file_handles,
                                           [h |-> h, path |-> p, pos |-> 0, append |-> append])
            /\ opened' = opened \cup {[fh |-> n, ino |-> i, path |-> p]}
            /\ Says("open", "ok", i, i)
         \/ /\ Says("open", "error", i, 0)
            /\ UNCHANGED <<held, file_handles, opened>>
      /\ UNCHANGED <<alive, inodes, work, remote, dentries, stream>>

Bug_Closed_never(fh) == {}

\* del returns the File, and dropping it closes its handle.
Closed(fh) == {file_handles.list[fh].h}

Release(o) ==
  /\ Ask("release") /\ o \in opened
  /\ opened' = opened \ {o}
  /\ file_handles' = DelFile(file_handles, o.fh)
  /\ held' = held \ Closed(o.fh)
  /\ Says("release", "ok", o.ino, 0)
  /\ UNCHANGED <<alive, inodes, work, remote, dentries, stream>>

Bug_SeekTo_no_seek(file, off) == file

SeekTo(file, off) == [file EXCEPT !.pos = off]

\* read and write begin alike: find the file, seek.
StartIo(op, o, off, len) ==
  /\ Ask(op) /\ o \in opened
  /\ \/ /\ file_handles.list[o.fh] = NoFile
        /\ Says(op, "error", o.ino, 0)
        /\ UNCHANGED <<file_handles, work>>
     \/ /\ file_handles.list[o.fh] # NoFile
        /\ file_handles' = [file_handles EXCEPT !.list[o.fh] = SeekTo(@, off)]
        /\ work' = [Idle EXCEPT !.op = op, !.fh = o.fh, !.off = off, !.len = len]
        /\ Silent
  /\ UNCHANGED <<alive, inodes, server, kernel>>

Read(o, off, len)  == StartIo("read", o, off, len)
Write(o, off, len) == StartIo("write", o, off, len)

Appends == work.op = "write" /\ file_handles.list[work.fh].append

\* What APPEND writes lands where the file ends at the server, at no offset the
\* client has named.
Lands(pos, n) == IF Appends THEN {} ELSE pos..(pos + n - 1)

\* File::read or File::write transfers n bytes where the file stands.
Transfer(n) ==
  LET pos == file_handles.list[work.fh].pos
  IN  /\ file_handles' = [file_handles EXCEPT !.list[work.fh].pos = pos + n]
      /\ work' = [work EXCEPT !.done = @ + n, !.moved = @ \cup Lands(pos, n)]
      /\ Silent

EndIo(st, eof) ==
  /\ reply' = [NoReply EXCEPT !.op = work.op, !.st = st, !.off = work.off,
                              !.len = work.len, !.n = work.done, !.eof = eof,
                              !.moved = work.moved, !.appends = Appends]
  /\ work' = Idle
  /\ UNCHANGED <<file_handles>>

\* One turn of the loop: read ends early when it gets nothing, write goes on
\* until the buffer is empty, a write of nothing included.
IoStep ==
  /\ work.op \in {"read", "write"}
  /\ \/ work.done = work.len /\ EndIo("ok", FALSE)
     \/ work.done < work.len /\ EndIo("error", FALSE)
     \/ work.done < work.len /\ work.op = "read" /\ EndIo("ok", TRUE)
     \/ work.done < work.len /\ work.op = "write" /\ Transfer(0)
     \/ \E n \in 1..(work.len - work.done) : Transfer(n)
  /\ UNCHANGED <<alive, inodes, server, kernel>>
-----------------------------------------------------------------------------
Init ==
  /\ alive = TRUE
  /\ \E p \in Mounts : inodes = Add(NoInodes, p).table
  /\ file_handles = NoFHandlers
  /\ work = Idle /\ reply = NoReply
  /\ remote = InitTree /\ held = {}
  /\ dentries = {} /\ opened = {} /\ stream = NoStream

NameRequest ==
  \/ \E i \in Inos, name \in Names : Lookup(i, name) \/ Mknod(i, name) \/ Mkdir(i, name)
  \/ \E d \in dentries : Unlink(d) \/ Rmdir(d) \/ Forget(d)
  \/ \E i \in Inos : Getattr(i)

FileRequest ==
  \/ \E i \in Inos, append \in BOOLEAN : Open(i, append)
  \/ \E o \in opened : Release(o)
  \/ \E o \in opened, off, end \in 0..MaxOffset :
       off < end /\ (Read(o, off, end - off) \/ Write(o, off, end - off))
  \/ IoStep

DirRequest == (\E i \in Inos : StartStream(i)) \/ Readdir \/ ReaddirEntry

Next == NameRequest \/ MakeStat \/ FileRequest \/ DirRequest \/ Others

Spec == Init /\ [][Next]_vars
-----------------------------------------------------------------------------
(* What the client owes the kernel.                                        *)

\* A name the kernel holds stands for the path the tables give its number: the
\* parent's path and the name.  Server-side removals, lost answers, retired
\* directories and new numbers for the same path come in between.
DentriesAgree ==
  \A d \in dentries :
    HasPath(d.parent) /\ HasPath(d.ino) /\ inodes.list[d.ino] = Child(d.parent, d.name)

\* unlink and rmdir unwrap the number of a path whose removal has succeeded.  The
\* kernel removes names it has found only, and those always have a number.
NeverPanics == alive

\* getattr asks for a number, goes to the server with its path and looks the path
\* up again: it answers for the number it was asked for.
GetattrAnswersForAsked ==
  reply.op = "getattr" /\ reply.st = "ok" => reply.ino = reply.asked

\* At rest the client holds the handles of its open files and no other: those
\* mknod opens are closed again, on its error path too, and a release closes.
HoldsWhatIsOpen ==
  alive /\ work = Idle =>
    /\ held = {file_handles.list[fh].h : fh \in Files(file_handles)}
    /\ Files(file_handles) = {o.fh : o \in opened}

\* An open file of the kernel is served from the file it opened, whichever
\* others were opened and released, and whatever became of its number.
OpenedDenote ==
  \A o \in opened : file_handles.list[o.fh].path = o.path

\* While no name of the directory changes, the pages one gets with the offsets of
\* the last entries are the listing, in order, nothing lost and nothing twice.
StableListing ==
  LET full == <<DotDot, Dot>> \o Listing(stream.path)
  IN  /\ stream.st \in {"open", "done"} /\ stream.clean /\ stream.path # NoPath
        => stream.got = SubSeq(full, 1, Len(stream.got))
      /\ stream.st = "done" /\ stream.clean => stream.got = full

\* A request that is answered with n bytes moved the n bytes from its offset on,
\* however the calls split them and wherever the file stood before; all it was
\* asked for, unless a read came to the end of the file.  A file opened with
\* APPEND is read so too, but written at its end.
MovesWhatWasAsked ==
  reply.op \in {"read", "write"} /\ reply.st = "ok" =>
    /\ ~reply.appends => reply.moved = reply.off..(reply.off + reply.n - 1)
    /\ reply.n = reply.len \/ (reply.op = "read" /\ reply.eof)

\* The numbers given to the kernel are used as FUSE asks.
Binding(i) ==
  IF HasPath(i) THEN inodes.list[i] ELSE IF i <= inodes.max_inode THEN Retired ELSE Fresh

Table == INSTANCE InodeTable WITH bound <- [i \in Inos |-> Binding(i)]

\* With generation 0 in every answer no number may ever be used for a second
\* path, and no path may have two: the table is an InodeTable.
ImplementsInodeTable == Table!Spec
=============================================================================
