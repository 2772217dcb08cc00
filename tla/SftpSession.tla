---------------------------- MODULE SftpSession ----------------------------
(***************************************************************************)
(* The SFTP handler of server/src/sftp_server.rs: the sessions of several  *)
(* clients, each a task of its own, over one disk.  A session answers one  *)
(* request at a time; between two system calls of one handler the other    *)
(* sessions run.  A panic in a handler, or in the subscriber its audit     *)
(* event goes to, ends its task: the session is dropped and the request    *)
(* gets no answer.                                                         *)
(***************************************************************************)
EXTENDS Disk

CONSTANTS Sessions,     \* the SFTP channels
          Root,         \* VIRTUAL_ROOT_PATH
          Ops,          \* the requests the clients of this instance send
          FlagSets,     \* the pflags of their OPEN requests
          IdSpace,      \* number of request ids: 2^32 in the protocol
          Disciplined   \* clients use handles they hold and, as Sftp::readdir
                        \* of ssh2, list one directory from OPENDIR to CLOSE

Handlers == {"init", "open", "opendir", "close", "read", "write", "readdir", "fstat", "lstat",
             "stat", "setstat", "remove", "mkdir", "rmdir", "rename", "realpath"}
Flags == {"READ", "WRITE", "APPEND", "CREATE", "TRUNCATE", "EXCLUDE"}

\* The disk knows no "..": neither the root nor the requests have one here.
ASSUME SessionAssumption ==
  /\ Root \in Roots /\ NoParent(Root)
  /\ Ops \subseteq Handlers /\ FlagSets \subseteq SUBSET Flags
  /\ IdSpace \in Nat \ {0}
  /\ Disciplined \in BOOLEAN

VARIABLES
  alive,    \* alive[s]: the task of session s runs
  sftp,     \* sftp[s]: struct SftpSession
  work,     \* work[s]: the handler in progress between two system calls
  reply,    \* the answer the last step sent
  event,    \* the audit record the last step logged
  leases    \* history: what the client of s believes its open handles denote

session == <<alive, sftp, work, leases>>
vars    == <<disk, session, reply, event>>

Ids      == 0..(IdSpace - 1)
Requests == {<<RootDir>> \o p : p \in Places}
Actions  == {"Open", "Lstat", "Fstat", "Read", "Write", "Remove", "OpenDir", "ReadDir",
             "MakeDir", "RemoveDir", "RealPath", "Stat", "Rename"}
Answers  == {"none", "ok", "eof", "nosuchfile", "unsupported", "connectionlost", "lost",
             "unheard"}

File   == [obj : Objs, flags : SUBSET Flags]
NoFile == [obj |-> NoObj, flags |-> {}]

SftpState == [version : BOOLEAN, root_dir_read_done : BOOLEAN,
              handles : [Ids -> Path], file_handles : [Ids -> File \cup {NoFile}]]

\* handles maps a handle to a path; no path in it is empty, so Err is "absent".
NewSession == [version |-> FALSE, root_dir_read_done |-> FALSE,
               handles |-> [h \in Ids |-> Err], file_handles |-> [h \in Ids |-> NoFile]]

Lease == [h : Ids, kind : {"file", "dir"}, path : Requests, obj : Objs \cup {NoObj},
          phase : {"open", "listed", "ended"}]

\* What a READ may ask for: no byte, or some.
Lens == {0, 1}

\* op is the handler, or the call it has come to in readdir.  seen is history: the
\* tree in which the handler opened its directory or found its path, if that tree
\* has not changed by the time the names are read.
NoTree == [p \in {} |-> NoObj]
Work == [op : {"idle", "read", "canonicalize", "read_dir", "readdir", "realpath"},
         h : Ids, off : Nat, len : Lens, file_size : 0..MaxSize, real : Path,
         dir : Objs \cup {NoObj}, todo : SUBSET Seq(Part),
         seen : [Places -> Objs \cup {NoObj}] \cup {NoTree}]
Idle == [op |-> "idle", h |-> 0, off |-> 0, len |-> 0, file_size |-> 0, real |-> Err,
         dir |-> NoObj, todo |-> {}, seen |-> NoTree]

Nobody  == "nobody"
Reply   == [to : Sessions \cup {Nobody}, op : Handlers \cup {"none"}, st : Answers,
            h : Ids, obj : Objs \cup {NoObj}, empty : BOOLEAN]
NoReply == [to |-> Nobody, op |-> "none", st |-> "none",
            h |-> 0, obj |-> NoObj, empty |-> FALSE]

\* The username field is left out: it is the session's, whatever happens.
Event   == [action : Actions \cup {"none"}, target : Path]
NoEvent == [action |-> "none", target |-> Err]

\* The place of the disk the operating system finds at a real path.
At(real) == StripPrefix(real, Root)

\* The inodes a session has open: files, and the directory it is listing.
Held == {sftp[s].file_handles[h].obj : s \in Sessions, h \in Ids}
        \cup {work[s].dir : s \in Sessions}

SessionTypeOK ==
  /\ alive \in [Sessions -> BOOLEAN]
  /\ sftp \in [Sessions -> SftpState]
  /\ work \in [Sessions -> Work]
  /\ leases \in [Sessions -> SUBSET Lease]

SaysTypeOK == reply \in Reply /\ event \in Event

TypeOK == DiskTypeOK /\ SessionTypeOK /\ SaysTypeOK
-----------------------------------------------------------------------------
(* What every handler is made of.                                          *)

Listing(s) == \E l \in leases[s] : l.kind = "dir"

\* The client of s sends a request, and the session gets to it; no handler asks
\* whether there was an INIT.
Ask(s, op) ==
  /\ op \in Ops
  /\ alive[s] /\ work[s] = Idle
  /\ Disciplined /\ Listing(s) => op \in {"readdir", "close"}

\* The handles a client may put into a request.
Presents(s, kinds) ==
  IF Disciplined THEN {l.h : l \in {k \in leases[s] : k.kind \in kinds}} ELSE Ids

Answer(s, op, st, h, o) ==
  [to |-> s, op |-> op, st |-> st, h |-> h, obj |-> o, empty |-> FALSE]

Log(action, target) == [action |-> action, target |-> target]

Says(r, ev) == reply' = r /\ event' = ev

\* A handler that keeps the session as it is.
Serves(r, ev) == Says(r, ev) /\ UNCHANGED session

Reset(s) ==
  /\ sftp' = [sftp EXCEPT ![s] = NewSession]
  /\ work' = [work EXCEPT ![s] = Idle]
  /\ leases' = [leases EXCEPT ![s] = {}]

\* The task ends, its maps and files go with it.
DiesOf(s, op, st, h) ==
  /\ alive' = [alive EXCEPT ![s] = FALSE]
  /\ Reset(s)
  /\ Says(Answer(s, op, st, h, NoObj), NoEvent)

\* unwrap() of an Err or a None.
Dies(s, op, h) == DiesOf(s, op, "lost", h)

\* An event: DatabaseLogger::on_event gets no connection from the pool.
Unheard(s, op, h) == DiesOf(s, op, "unheard", h)

\* A handler that keeps the session, unless it ends at its audit event.
Logs(r, ev) == Serves(r, ev) \/ Unheard(r.to, r.op, r.h)

Panic(s, op, h) == Dies(s, op, h) /\ UNCHANGED disk
-----------------------------------------------------------------------------
(* Sessions come and go.                                                   *)

\* subsystem_request "sftp": a fresh SftpSession on a new task.
Connect(s) ==
  /\ ~alive[s]
  /\ alive' = [alive EXCEPT ![s] = TRUE]
  /\ Says(NoReply, NoEvent)
  /\ UNCHANGED <<disk, sftp, work, leases>>

\* The client goes away between two requests.
Disconnect(s) ==
  /\ alive[s] /\ work[s] = Idle
  /\ alive' = [alive EXCEPT ![s] = FALSE]
  /\ Reset(s)
  /\ Says(NoReply, NoEvent)
  /\ UNCHANGED disk

\* Both ways end in an event that is no audit record.
FxpInit(s) ==
  /\ "init" \in Ops /\ alive[s] /\ work[s] = Idle
  /\ \/ Unheard(s, "init", 0) /\ UNCHANGED disk
     \/ /\ ~sftp[s].version
        /\ sftp' = [sftp EXCEPT ![s].version = TRUE]
        /\ Says(Answer(s, "init", "ok", 0, NoObj), NoEvent)
        /\ UNCHANGED <<disk, alive, work, leases>>
     \/ /\ sftp[s].version
        /\ Serves(Answer(s, "init", "connectionlost", 0, NoObj), NoEvent)
        /\ UNCHANGED disk
-----------------------------------------------------------------------------
(* Handles.                                                                *)

Bug_HandleOf_counts_from_1(id) == id + 1
Bug_HandleOf_shared(id) == id \div 2
Bug_HandleOf_constant(id) == 0

\* format!("handle_{}", id): one handle for every id.
HandleOf(id) == id

\* Which ids its requests have is up to the client.  It does not take the id of a
\* handle it holds, nor for an OPENDIR one that was an OPEN's in this session.
NewId(s, id) == \A l \in leases[s] : l.h # id
NewDirId(s, id) == NewId(s, id) /\ sftp[s].file_handles[id] = NoFile

Bug_PathOfOpen_virtual(v) == Join(CwdOffset, v)

\* What handles keeps of an open file: the real path, and of a directory: the
\* virtual one.
PathOfOpen(v)    == Resolve(Root, v)
PathOfOpenDir(v) == Join(CwdOffset, v)

Grants(s, lease) == leases' = [leases EXCEPT ![s] = @ \cup {lease}]

\* What the client learns of the listing of its directory handle h.
Phase(ls, h, phase) == {IF l.h = h /\ l.kind = "dir" THEN [l EXCEPT !.phase = phase] ELSE l : l \in ls}

Writable(f) == f \cap {"WRITE", "APPEND", "CREATE"} # {}

\* OpenOptions::open, with CREATE implying write(true) and EXCLUDE create_new(true).
CanOpen(p, f) ==
  /\ "READ" \in f \/ Writable(f)
  /\ f \cap {"TRUNCATE", "EXCLUDE"} # {} => Writable(f)
  /\ {"TRUNCATE", "APPEND"} \subseteq f => "EXCLUDE" \in f
  /\ IF Exists(p) THEN "EXCLUDE" \notin f /\ (IsDir(p) => ~Writable(f))
                  ELSE f \cap {"CREATE", "EXCLUDE"} # {} /\ CanCreate(p, Held)

Open(s, v, f, id) ==
  LET real == Resolve(Root, v)
      p    == At(real)
      h    == HandleOf(id)
      o    == tree'[p]
  IN  /\ Ask(s, "open") /\ NewId(s, id)
      /\ \/ /\ CanOpen(p, f)
            /\ IF ~Exists(p) THEN Create(p, "file", Held)
               ELSE /\ size' = IF "TRUNCATE" \in f THEN [size EXCEPT ![tree[p]] = 0] ELSE size
                    /\ UNCHANGED <<tree, kind>>
            /\ \/ /\ sftp' = [sftp EXCEPT ![s].handles[h] = PathOfOpen(v),
                                          ![s].file_handles[h] = [obj |-> o, flags |-> f]]
                  /\ Grants(s, [h |-> h, kind |-> "file", path |-> v, obj |-> o, phase |-> "open"])
                  /\ Says(Answer(s, "open", "ok", h, o), Log("Open", real))
                  /\ UNCHANGED <<alive, work>>
               \/ Unheard(s, "open", 0)
         \/ ~CanOpen(p, f) /\ Panic(s, "open", 0)

\* Nothing checks that the directory exists.
OpenDir(s, v, id) ==
  LET h == HandleOf(id)
  IN  /\ Ask(s, "opendir") /\ NewDirId(s, id) /\ UNCHANGED disk
      /\ \/ /\ sftp' = [sftp EXCEPT ![s].root_dir_read_done = FALSE,
                                    ![s].handles[h] = PathOfOpenDir(v)]
            /\ Grants(s, [h |-> h, kind |-> "dir", path |-> v, obj |-> NoObj, phase |-> "open"])
            /\ Says(Answer(s, "opendir", "ok", h, NoObj), Log("OpenDir", Resolve(Root, v)))
            /\ UNCHANGED <<alive, work>>
         \/ Unheard(s, "opendir", 0)

\* The open file stays in file_handles until the session ends.
Close(s, h) ==
  /\ Ask(s, "close") /\ h \in Presents(s, {"file", "dir"})
  /\ sftp' = [sftp EXCEPT ![s].handles[h] = Err]
  /\ leases' = [leases EXCEPT ![s] = {l \in @ : l.h # h}]
  /\ Says(Answer(s, "close", "ok", h, NoObj), NoEvent)
  /\ UNCHANGED <<disk, alive, work>>

\* The stored path is joined and resolved again, also when it is a real one.
Fstat(s, h) ==
  LET real == Resolve(Root, sftp[s].handles[h])
  IN  /\ Ask(s, "fstat") /\ h \in Presents(s, {"file", "dir"})
      /\ \/ /\ sftp[s].handles[h] = Err
            /\ Serves(Answer(s, "fstat", "nosuchfile", h, NoObj), NoEvent) /\ UNCHANGED disk
         \/ /\ sftp[s].handles[h] # Err /\ Exists(At(real))
            /\ Logs(Answer(s, "fstat", "ok", h, tree[At(real)]), Log("Fstat", real))
            /\ UNCHANGED disk
         \/ /\ sftp[s].handles[h] # Err /\ ~Exists(At(real))
            /\ Panic(s, "fstat", h)
-----------------------------------------------------------------------------
(* Reading and writing.                                                    *)

Bug_AtEof_off_by_one(off, file_size) == off > file_size

AtEof(off, file_size) == off >= file_size

\* metadata(), then the comparison with the offset.  A directory has a length too,
\* but cannot be read.
ReadStart(s, h, off, len) ==
  LET f == sftp[s].file_handles[h]
      isDir == f # NoFile /\ kind[f.obj] = "dir"
  IN  /\ Ask(s, "read") /\ h \in Presents(s, {"file"})
      /\ \/ (f = NoFile \/ isDir) /\ Panic(s, "read", h)
         \/ /\ f # NoFile /\ (isDir \/ AtEof(off, size[f.obj]))
            /\ Serves(Answer(s, "read", "eof", h, f.obj), NoEvent) /\ UNCHANGED disk
         \/ /\ f # NoFile /\ ~isDir /\ ~AtEof(off, size[f.obj])
            /\ work' = [work EXCEPT ![s] = [Idle EXCEPT !.op = "read", !.h = h, !.off = off,
                                              !.len = len, !.file_size = size[f.obj]]]
            /\ Says(NoReply, NoEvent)
            /\ UNCHANGED <<disk, alive, sftp, leases>>

Bug_Readable_without_path(s, h) == "READ" \in sftp[s].file_handles[h].flags

\* read needs the descriptor to allow it, then the path for the audit record.
Readable(s, h) == "READ" \in sftp[s].file_handles[h].flags /\ sftp[s].handles[h] # Err

\* seek and read of what is there by now.
ReadFinish(s) ==
  LET h == work[s].h
      f == sftp[s].file_handles[h]
      none == work[s].len = 0 \/ work[s].off >= size[f.obj]
  IN  /\ work[s].op = "read" /\ UNCHANGED disk
      /\ \/ /\ Readable(s, h)
            /\ work' = [work EXCEPT ![s] = Idle]
            /\ Says([Answer(s, "read", "ok", h, f.obj) EXCEPT !.empty = none],
                    Log("Read", sftp[s].handles[h]))
            /\ UNCHANGED <<alive, sftp, leases>>
         \/ Readable(s, h) /\ Unheard(s, "read", h)
         \/ ~Readable(s, h) /\ Dies(s, "read", h)

Bug_ShortWrite_unwraps(s, h, o) == Dies(s, "write", h)

\* bytes_written < data.len(): what was written stays, unlogged.
ShortWrite(s, h, o) == Serves(Answer(s, "write", "eof", h, o), NoEvent)

\* One write() of up to n bytes; a full disk takes fewer, or none and fails.
Write(s, h, off, n) ==
  LET f    == sftp[s].file_handles[h]
      base == IF "APPEND" \in f.flags THEN size[f.obj] ELSE off
      Writes(k) == size' = [size EXCEPT ![f.obj] = IF base + k > @ THEN base + k ELSE @]
  IN  /\ Ask(s, "write") /\ h \in Presents(s, {"file"})
      /\ \/ /\ f = NoFile
            /\ Serves(Answer(s, "write", "eof", h, NoObj), NoEvent) /\ UNCHANGED disk
         \/ /\ f # NoFile /\ (~Writable(f.flags) \/ base >= MaxSize)
            /\ Panic(s, "write", h)
         \/ /\ f # NoFile /\ Writable(f.flags)
            /\ \E k \in 1..(n - 1) : base + k <= MaxSize /\ Writes(k)
            /\ UNCHANGED <<tree, kind>>
            /\ ShortWrite(s, h, f.obj)
         \/ /\ f # NoFile /\ Writable(f.flags) /\ base + n <= MaxSize
            /\ Writes(n)
            /\ UNCHANGED <<tree, kind>>
            /\ IF sftp[s].handles[h] # Err
               THEN Logs(Answer(s, "write", "ok", h, f.obj), Log("Write", sftp[s].handles[h]))
               ELSE Dies(s, "write", h)           \* the data is written already
-----------------------------------------------------------------------------
(* Listing a directory.                                                    *)

Bug_CheckReqDone_new_value(flag) == [flag |-> ~flag, done |-> ~flag]
Bug_CheckReqDone_per_id(flag) == [flag |-> flag, done |-> FALSE]

\* The flag is the session's: it toggles with every READDIR, of any handle.
CheckReqDone(flag) == [flag |-> ~flag, done |-> flag]

\* check_req_done, and canonicalize of the path the handle is for.
ReaddirStart(s, h) ==
  LET check == CheckReqDone(sftp[s].root_dir_read_done)
      toggled == [sftp EXCEPT ![s].root_dir_read_done = check.flag]
      real == ToReal(Root, sftp[s].handles[h])
      found == sftp[s].handles[h] # Err /\ real # Err /\ Exists(At(real))
  IN  /\ Ask(s, "readdir") /\ h \in Presents(s, {"dir"}) /\ UNCHANGED disk
      /\ Disciplined => \E l \in leases[s] : l.h = h /\ l.phase # "ended"
      /\ \/ Unheard(s, "readdir", h)
         \/ /\ check.done
            /\ sftp' = toggled
            /\ leases' = [leases EXCEPT ![s] = Phase(@, h, "ended")]
            /\ Says(Answer(s, "readdir", "eof", h, NoObj), NoEvent)
            /\ UNCHANGED <<alive, work>>
         \/ /\ ~check.done /\ found
            /\ sftp' = toggled
            /\ work' = [work EXCEPT ![s] = [Idle EXCEPT !.op = "canonicalize", !.h = h, !.real = real]]
            /\ Says(NoReply, NoEvent)
            /\ UNCHANGED <<alive, leases>>
         \/ ~check.done /\ ~found /\ Dies(s, "readdir", h)

\* fs::read_dir opens the directory.
ReaddirOpen(s) ==
  LET p == At(work[s].real)
  IN  /\ work[s].op = "canonicalize" /\ UNCHANGED disk
      /\ \/ /\ IsDir(p)
            /\ work' = [work EXCEPT ![s].op = "read_dir", ![s].dir = tree[p], ![s].seen = tree]
            /\ Says(NoReply, NoEvent)
            /\ UNCHANGED <<alive, sftp, leases>>
         \/ ~IsDir(p) /\ Dies(s, "readdir", work[s].h)

\* The first entry: the names the open directory has by now, wherever it is, one
\* buffer of them.
ReaddirNames(s) ==
  /\ work[s].op = "read_dir"
  /\ work' = [work EXCEPT
       ![s].op = "readdir", ![s].dir = NoObj,
       ![s].seen = IF @ = tree THEN @ ELSE NoTree,
       ![s].todo = {Append(At(work[s].real), Last(c)) :
                      c \in {c \in Places \ {<<>>} : Exists(c) /\ tree[Front(c)] = work[s].dir}}]
  /\ Says(NoReply, NoEvent)
  /\ UNCHANGED <<disk, alive, sftp, leases>>

Bug_EntryPath_file_name(c) == <<Last(c)>>

\* entry.path()
EntryPath(c) == c

\* format_file_info and get_file_file_attributes of one entry, in any order.
ReaddirEntry(s) ==
  /\ work[s].op = "readdir"
  /\ \E c \in work[s].todo :
       \/ /\ Exists(EntryPath(c))
          /\ work' = [work EXCEPT ![s].todo = @ \ {c}]
          /\ Says(NoReply, NoEvent)
          /\ UNCHANGED <<disk, alive, sftp, leases>>
       \/ ~Exists(EntryPath(c)) /\ Panic(s, "readdir", work[s].h)

ReaddirFinish(s) ==
  /\ work[s].op = "readdir" /\ work[s].todo = {} /\ UNCHANGED disk
  /\ \/ /\ work' = [work EXCEPT ![s] = Idle]
        /\ leases' = [leases EXCEPT ![s] = Phase(@, work[s].h, "listed")]
        /\ Says(Answer(s, "readdir", "ok", work[s].h, NoObj), Log("ReadDir", work[s].real))
        /\ UNCHANGED <<alive, sftp>>
     \/ Unheard(s, "readdir", work[s].h)
-----------------------------------------------------------------------------
(* Requests that name a path and use no handle.                            *)

Lstat(s, v) ==
  LET real == Resolve(Root, v)
  IN  /\ Ask(s, "lstat")
      /\ \/ /\ Exists(At(real))
            /\ Logs(Answer(s, "lstat", "ok", 0, tree[At(real)]), Log("Lstat", real))
            /\ UNCHANGED disk
         \/ ~Exists(At(real)) /\ Panic(s, "lstat", 0)

Stat(s, v) ==
  LET real == Resolve(Root, v)
  IN  /\ Ask(s, "stat") /\ UNCHANGED disk
      /\ \/ /\ Exists(At(real))
            /\ Logs(Answer(s, "stat", "ok", 0, tree[At(real)]), Log("Stat", real))
         \/ /\ ~Exists(At(real))
            /\ Serves(Answer(s, "stat", "nosuchfile", 0, NoObj), NoEvent)

Setstat(s) ==
  /\ Ask(s, "setstat") /\ UNCHANGED disk
  /\ Serves(Answer(s, "setstat", "unsupported", 0, NoObj), NoEvent)

FxpRemove(s, v) ==
  LET real == Resolve(Root, v)
  IN  /\ Ask(s, "remove")
      /\ \/ /\ CanUnlink(At(real)) /\ Unlink(At(real))
            /\ Logs(Answer(s, "remove", "ok", 0, tree[At(real)]), Log("Remove", real))
         \/ ~CanUnlink(At(real)) /\ Panic(s, "remove", 0)

Mkdir(s, v) ==
  LET real == Resolve(Root, v)
  IN  /\ Ask(s, "mkdir")
      /\ \/ /\ CanCreate(At(real), Held) /\ Create(At(real), "dir", Held)
            /\ Logs(Answer(s, "mkdir", "ok", 0, NoObj), Log("MakeDir", real))
         \/ ~CanCreate(At(real), Held) /\ Panic(s, "mkdir", 0)

Rmdir(s, v) ==
  LET real == Resolve(Root, v)
  IN  /\ Ask(s, "rmdir")
      /\ \/ /\ CanRmdir(At(real)) /\ Unlink(At(real))
            /\ Logs(Answer(s, "rmdir", "ok", 0, tree[At(real)]), Log("RemoveDir", real))
         \/ ~CanRmdir(At(real)) /\ Panic(s, "rmdir", 0)

Bug_FxpRename_unlinks_target(s, v, w) ==
  LET from == At(Resolve(Root, v))
      to   == At(Resolve(Root, w))
  IN  /\ Ask(s, "rename")
      /\ \/ /\ CanRename(from, to) /\ Rename(from, to)
            /\ Logs(Answer(s, "rename", "ok", 0, tree[from]), Log("Rename", Resolve(Root, v)))
         \/ ~CanRename(from, to) /\ CanUnlink(to) /\ Unlink(to) /\ Dies(s, "rename", 0)

\* The audit record keeps the old name only.
FxpRename(s, v, w) ==
  LET from == Resolve(Root, v)
      to   == Resolve(Root, w)
  IN  /\ Ask(s, "rename")
      /\ \/ /\ CanRename(At(from), At(to)) /\ Rename(At(from), At(to))
            /\ Logs(Answer(s, "rename", "ok", 0, tree[At(from)]), Log("Rename", from))
         \/ ~CanRename(At(from), At(to)) /\ Panic(s, "rename", 0)

\* exists(), then the metadata of format_file_info, which also needs a file name.
RealpathStart(s, v) ==
  LET real == Resolve(Root, v)
  IN  /\ Ask(s, "realpath") /\ UNCHANGED disk
      /\ \/ Unheard(s, "realpath", 0)
         \/ /\ ~Exists(At(real))
            /\ Serves(Answer(s, "realpath", "nosuchfile", 0, NoObj), NoEvent)
         \/ /\ Exists(At(real))
            /\ work' = [work EXCEPT ![s] = [Idle EXCEPT !.op = "realpath", !.real = real, !.seen = tree]]
            /\ Says(NoReply, NoEvent)
            /\ UNCHANGED <<alive, sftp, leases>>

RealpathFinish(s) ==
  LET real == work[s].real
      formats == Exists(At(real)) /\ HasFileName(real)
  IN  /\ work[s].op = "realpath" /\ UNCHANGED disk
      /\ \/ /\ formats
            /\ work' = [work EXCEPT ![s] = Idle]
            /\ Says(Answer(s, "realpath", "ok", 0, tree[At(real)]), Log("RealPath", real))
            /\ UNCHANGED <<alive, sftp, leases>>
         \/ formats /\ Unheard(s, "realpath", 0)
         \/ ~formats /\ Dies(s, "realpath", 0)
-----------------------------------------------------------------------------
Init ==
  /\ InitDisk
  /\ alive = [s \in Sessions |-> FALSE]
  /\ sftp = [s \in Sessions |-> NewSession]
  /\ work = [s \in Sessions |-> Idle]
  /\ leases = [s \in Sessions |-> {}]
  /\ reply = NoReply /\ event = NoEvent

\* The handler in progress runs on: its task is scheduled by tokio.
Advance(s) ==
  \/ ReadFinish(s) \/ RealpathFinish(s)
  \/ ReaddirOpen(s) \/ ReaddirNames(s) \/ ReaddirEntry(s) \/ ReaddirFinish(s)

Request(s) ==
  \/ FxpInit(s)
  \/ \E v \in Requests, f \in FlagSets, id \in Ids : Open(s, v, f, id)
  \/ \E v \in Requests, id \in Ids : OpenDir(s, v, id)
  \/ \E v \in Requests : \/ Lstat(s, v) \/ Stat(s, v) \/ FxpRemove(s, v)
                         \/ Mkdir(s, v) \/ Rmdir(s, v) \/ RealpathStart(s, v)
  \/ \E v, w \in Requests : FxpRename(s, v, w)
  \/ \E h \in Ids : Close(s, h) \/ Fstat(s, h) \/ ReaddirStart(s, h)
  \/ \E h \in Ids, off \in 0..MaxSize, len \in Lens : ReadStart(s, h, off, len)
  \/ \E h \in Ids, off \in 0..MaxSize, n \in 1..MaxSize : Write(s, h, off, n)
  \/ Setstat(s)

Next == \E s \in Sessions : Connect(s) \/ Disconnect(s) \/ Request(s) \/ Advance(s)

Spec == Init /\ [][Next]_vars

\* Every handler in progress gets on; a client that lists a directory asks on.
Live ==
  /\ \A s \in Sessions : WF_vars(Advance(s))
  /\ \A s \in Sessions : WF_vars(\E h \in Ids : ReaddirStart(s, h))
LiveSpec == Spec /\ Live
-----------------------------------------------------------------------------
(* What the sessions promise.                                              *)

\* The maps of a session say of every handle its client holds what the client
\* was told: a file handle has the real path and the file of its OPEN, a
\* directory handle the virtual path of its OPENDIR; no two leases share one.
\* The strings come from request ids alone, and CLOSE forgets only the path
\* (sftp_server.rs:170, 193, 330).
Denotes(maps, l) ==
  IF l.kind = "file"
  THEN /\ maps.handles[l.h] = Resolve(Root, l.path)
       /\ maps.file_handles[l.h].obj = l.obj
  ELSE /\ maps.handles[l.h] = Join(CwdOffset, l.path)
       /\ maps.file_handles[l.h] = NoFile

HandlesDenoteLeases ==
  \A s \in Sessions :
    /\ \A l \in leases[s] : Denotes(sftp[s], l)
    /\ \A l, m \in leases[s] : l.h = m.h => l = m

\* CLOSE leaves the file open (sftp_server.rs:170), yet no READ or WRITE is
\* answered Ok unless its handle is held, and it is served from the file the
\* handle was opened on (sftp_server.rs:261, 274, 286, 301).
OnlyLeasesAreServed ==
  reply.op \in {"read", "write"} /\ reply.st = "ok" =>
    \E l \in leases[reply.to] : l.h = reply.h /\ l.kind = "file" /\ l.obj = reply.obj

\* A Read or Write record names the path its handle was opened by, although it
\* is read from another map than the file (sftp_server.rs:274-275, 301-302).
AuditNamesLease ==
  event.action \in {"Read", "Write"} =>
    \E l \in leases[reply.to] : l.h = reply.h /\ event.target = Resolve(Root, l.path)

\* FSTAT of an open file whose path still leads to it answers with that file's
\* attributes, whatever other handles the session has (sftp_server.rs:221-241).
FstatFaithful ==
  [][reply'.op = "fstat" /\ reply'.st # "unheard" =>
       \A l \in leases[reply'.to] :
         l.kind = "file" /\ l.h = reply'.h /\ tree[Tail(l.path)] = l.obj
         => reply'.st = "ok" /\ reply'.obj = l.obj]_vars

\* A READ that asked for bytes and is answered with none means the file shrank
\* after the size check: at a constant size the end of the file is an EOF
\* (sftp_server.rs:262-269).
EmptyReadOnlyIfShrunk ==
  [][\A s \in Sessions :
       /\ reply'.to = s /\ reply'.op = "read" /\ reply'.st = "ok" /\ reply'.empty
       /\ work[s].len # 0
       => size[reply'.obj] < work[s].file_size]_vars

\* A request an unwrap() leaves unanswered has changed nothing on the disk; the
\* exception is a WRITE through a handle that is not held (sftp_server.rs:301).
\* So of the unanswered requests only those that ended at their audit event have
\* been carried out, and those wholly (audit.rs:27).
LostRequestsLeaveDisk ==
  [][reply'.st = "lost" /\ disk' # disk =>
       /\ reply'.op = "write"
       /\ \A l \in leases[reply'.to] : l.h # reply'.h]_vars

\* To a client that lists one directory at a time a directory handle is a
\* stream of one listing and then Eof, also after a listing it broke off and
\* next to the listings of other sessions (sftp_server.rs:131-141, 328, 345).
OneListingThenEof ==
  [][reply'.op = "readdir" =>
       /\ reply'.st = "ok" =>
            \E l \in leases[reply'.to] : l.h = reply'.h /\ l.phase = "open"
       /\ reply'.st = "eof" =>
            \E l \in leases[reply'.to] : l.h = reply'.h /\ l.phase = "listed"]_vars

\* A listing that has opened its directory, or a realpath of a path with a file
\* name, panics before its audit event only because another session changed the
\* tree meanwhile, where every file has an owner with a name
\* (sftp_server.rs:355-364, 416-420).
OvertakenOnly ==
  [][\A s \in Sessions :
       /\ reply'.to = s /\ reply'.st = "lost"
       /\ \/ work[s].op = "readdir"
          \/ work[s].op = "realpath" /\ HasFileName(work[s].real)
       => tree # work[s].seen]_vars

\* realpath answers every path (sftp_server.rs:409-430): a session that only
\* asks for the real paths of things that exist lives on.
RealpathAnswers ==
  [][\A s \in Sessions :
       reply'.to = s /\ reply'.op = "realpath" /\ Exists(At(work[s].real))
       => reply'.st # "lost"]_vars

\* A listing the client has begun and not been told the end of.
Unfinished(s) == \E l \in leases[s] : l.kind = "dir" /\ l.phase # "ended"

\* Every listing a client began comes to its Eof, or the client breaks it off, or
\* the session ends: the client's loop over READDIR terminates.
ListingsEnd == \A s \in Sessions : Unfinished(s) ~> ~Unfinished(s)
-----------------------------------------------------------------------------
(* The two maps implement a table of handles.                              *)

Thing(path, obj) == [path |-> path, obj |-> obj]
Things == {Thing(PathOfOpen(v), o) : v \in Requests, o \in Objs}
          \cup {Thing(PathOfOpenDir(v), NoObj) : v \in Requests}
Unused == Thing(Err, NoObj)

\* What a session has of its handle h; the file of a closed one is out of reach.
Binding(maps, h) ==
  IF maps.handles[h] # Err THEN Thing(maps.handles[h], maps.file_handles[h].obj) ELSE Unused

ServedTo(s, h, thing) == [to |-> s, h |-> h, thing |-> thing]
NothingServed == ServedTo(Nobody, 0, Unused)

Table == INSTANCE HandleTable WITH
           Handles <- Ids, Nothing <- NothingServed,
           table  <- [s \in Sessions |-> [h \in Ids |-> Binding(sftp[s], h)]],
           served <- IF reply.op \in {"read", "write"} /\ reply.st = "ok"
                     THEN ServedTo(reply.to, reply.h, Thing(event.target, reply.obj))
                     ELSE NothingServed

\* The two maps of the sessions, filled by open and opendir and read by read and
\* write, are one table of handles: nothing is served through a handle but what
\* its OPEN was for, and nothing after its CLOSE (sftp_server.rs:40-48, 169-178).
ImplementsHandleTable == Table!Spec
=============================================================================
