# A TLA+ model of sshfs-rs

sshfs-rs is an SFTP server (`server/`) and a FUSE client (`client/`) in Rust.
This directory holds TLA+ modules translated from their source, the TLC
configurations that check them on small instances, and theorems about them
checked by TLAPS. Paths below are relative to `src/`; lines are those of the
files there, and `sftp_server.rs`, `fs.rs`, `database.rs`, `auth.rs`, `audit.rs`
are in `server/src/`, `filesystem.rs` is in `client/src/`.

## 1. The system

| component | state | operations | speaks to |
|---|---|---|---|
| `VirtualRoot` (`fs.rs`) | the root directory, from `VIRTUAL_ROOT_PATH` | `to_real_path`, `to_virtual_path`, `verify_real_path`; formatting of listing lines | every SFTP handler |
| `SftpSession` (`sftp_server.rs` 105-473) | `version`, `root_dir_read_done`, `handles` (name to path), `file_handles` (name to open file), `user` | one async handler per SFTP request | the host's file system through `std::fs`; the audit log through `tracing` |
| `SshSession` (`sftp_server.rs` 22-103) | map of open channels, the authenticated user | `auth_password`, `channel_open_session`, `subsystem_request` | `User`; starts an `SftpSession` on a task of its own |
| `User` (`auth.rs`) | a connection pool, `username`, `authed` | `register`, `authenticate`, `update_user_password`, `check_permission` (never called) | the SQLite file |
| database (`database.rs`) | tables `Users`, `AuditLogs` | `initialize_database`, run by every process at its first use | SQLite |
| audit log (`audit.rs`) | a connection pool | `on_event` inserts one row per event that has user, action and target | SQLite |
| command line (`main.rs`) | | `run`, `auth register`, `auth update-password`: three kinds of process over one database file | all of the above |
| FUSE client (`client/src/filesystem.rs`) | `Inodes` (number to path), `FHandlers` (number to remote file) | one method per kernel request | the server, through `ssh2` |
| client start (`client/src/lib.rs`, `sftp_client.rs`, `main.rs`) | | connect, authenticate, mount | |
| desktop (`desktop/src/main.rs`) | a counter | the template of its UI toolkit, not part of the system | nothing |

Who runs concurrently. Each SFTP session is a task; it serves one request at a
time, and its handlers never await, but several sessions run on several worker
threads and meet in the file system between any two system calls of a handler.
Each invocation of the binary is a process, and processes meet in the SQLite
file between any two statements. The kernel drives the client one request at a
time.

What is hard.

* Nearly every error is an `unwrap()`. A panic ends the task of the session:
  the client gets no answer, and the maps and the open files are dropped. What
  a handler did before it panicked stays. The audit event is the last thing most
  handlers do, after their effect, and it panics too if the pool has no connection
  to give (`audit.rs` 27).
* A handler is a sequence of system calls, each of which assumes that the one
  before still holds (exists, then metadata; size, then read; the names of a
  directory, then each entry).
* Two maps describe one handle, `handles` and `file_handles`. Directories are
  stored in `handles` by virtual path, files by real path, and `fstat` treats
  both alike. `close` clears one of the two maps.
* One Boolean per session is the state of all its directory listings.
* The database is created without a transaction by whichever process comes
  first.

What makes each component correct is stated with the modules below; the full
list of what is hard to test, with the line where it bites and the property
that covers it, is `hazards` in `PROJECT.json`.

## 2. The modules

| module | models | kind |
|---|---|---|
| `VirtualRoot` | the path functions of `fs.rs`, over paths as sequences of components | operators |
| `PathRequests` | the chains of those functions that `realpath` and `fstat` run | state machine |
| `Disk` | the host's file system: what `std::fs` calls need and do | external; actions as operators |
| `HandleTable` | what a file server owes the holders of its handles | abstract specification |
| `SftpSession` | every SFTP handler, several sessions, one disk | state machine over `Disk`; implements `HandleTable` |
| `AuditLog` | the pool of database connections and the insertion of audit records | state and operators |
| `AuditTrail` | what an audit log owes its readers and those who are told that their deed is done | abstract specification |
| `SshSession` | SSH connections, their channels, the SFTP tasks they start, and what all of them do to the pool and the log | state machine over `AuditLog`; implements `AuditTrail` |
| `Accounts` | the user database: initialisation, registration, update, authentication, and the processes that do it | state machine |
| `InodeTable` | what a FUSE file system owes the kernel of its inode numbers | abstract specification |
| `Inodes` | the tables `Inodes` and `FHandlers` of `filesystem.rs` | operators |
| `SshfsClient` | every request of the FUSE client, between the kernel and a server that others change | state machine over `Inodes`; implements `InodeTable` |
| `MCVirtualRoot`, `MCSftpSession`, `MCSshSession`, `MCAccounts`, `MCSshfsClient` | small instances | for TLC |
| `PathLemmas`, `VirtualRootProofs`, `SftpSessionProofs`, `SftpListingProofs`, `SshSessionProofs`, `AccountsProofs`, `SshfsClientProofs`, `SshfsStreamProofs` | lemmas and theorems | for TLAPS |

Operators named `Bug_...` are mutated forms of the definition that follows
them. No specification uses them: `PROJECT.json` pairs each with the property
that catches it.

### VirtualRoot and PathRequests

A path is the sequence of its components in the normal form
`Path::components()` yields, `/` and `.` being possible only in front. `Join`,
`StripPrefix` and `StartsWith` are `std::path` component by component. `Err` is
the empty sequence, which no mapped path is. `..` is a component like a name, as
it is to `std::path`, and may occur anywhere in a root and in a path.

`PathRequests` lets a server with any root receive any path, and runs what
`realpath` (411-415) and `fstat` of an open file (195-196, 224-227) compute. Where a
path leads is what the operating system makes of it: `Lands` (external) takes `..`
for the directory above, from `Cwd`, the directory the server runs in, if the path
is relative. Symbolic links are left out.

* `ResolveNeverFails`: the `unwrap()` of `to_real_path` in the handlers that
  join the path with `cwd_offset` never panics, because the check of `fs.rs` 50 lets
  every path of a client pass: it compares components, and what it compares was
  joined to the root just before. The property says nothing of where the path leads.
* `BelowUnlessClimbing`: that is below the root if the path does not climb (at no
  component has it gone up more often than down). `Report.md` 24 and `README.md` 3
  promise it of every path; the code does nothing to keep it for one that climbs,
  which passes the check like any other.
* `RoundTrip`: `realpath` answers with the absolute form of the path asked for.
* `FstatOrRealpath`: resolving a stored real path again is harmless under
  exactly the roots for which `realpath("/")` has no file name to print, if the root
  has no `..` in it: no such value of `VIRTUAL_ROOT_PATH` makes both handlers work.
  Under `../data` both may (the second path leads to the same file), under `..`
  neither does.

### Disk

A place below the root holds an object (an inode) or none; a file is its size.
An object that a session has open is not reused, as a POSIX inode is not.
`CanCreate`, `CanUnlink`, `CanRmdir`, `CanRename`, `Create`, `Unlink`, `Rename` say
when the system calls succeed and what they do. `MaxSize` is the quota of a
file: it bounds the model and is what makes short and failing writes happen.

### SftpSession

`alive[s]` is the task, `sftp[s]` the struct (a name that is no key of `handles`
maps to `Err`, one that is no key of `file_handles` to `NoFile`). `work[s]` is a
handler stopped between two system calls where that can be seen: `read` between
`metadata` and `read`, `readdir` between `canonicalize`, `read_dir`, the first entry
and each `metadata` of one, `realpath` between `exists` and `metadata`. All other
handlers make one system call that looks at or changes the disk, and are one action.
`reply` and `event` are what the last step answered and logged; `leases` is history:
what the client believes its open handles to be.

A handler ends in one of three ways: it answers and emits its record; it meets an
error it unwraps (`Dies`, answer `lost`); or it has done everything and its event
gets no connection of the pool (`Unheard`, answer `unheard`, `audit.rs` 27), which ends
the session as well. The last is possible at every event (`Logs`), at any time.

| action | source | action | source |
|---|---|---|---|
| `Connect`, `Disconnect` | 83-102 | `Write`, `ShortWrite` | 279-310 |
| `FxpInit` | 152-167 | `ReaddirStart`, `ReaddirOpen`, `ReaddirNames` | 131-141, 343-354 |
| `Open` | 180-204 | `ReaddirEntry`, `ReaddirFinish` | 355-372 |
| `OpenDir` | 325-341 | `Lstat`, `Stat`, `Setstat` | 206-219, 432-448, 244-252 |
| `Close` | 169-178 | `FxpRemove`, `Mkdir`, `Rmdir` | 312-323, 374-407 |
| `Fstat` | 221-241 | `FxpRename` | 450-472 |
| `ReadStart`, `ReadFinish` | 254-277 | `RealpathStart`, `RealpathFinish` | 409-430 |
| `Panic`, `Dies` | every `unwrap()` | `Logs`, `Unheard` | every `info!`, `audit.rs` 27 |

Clients. `Disciplined = FALSE` lets a client put any handle of the session into
any request: closed ones, never granted ones, directories where files belong.
`Disciplined = TRUE` is the client of this repository: `ssh2` uses handles it
holds and lists one directory from OPENDIR to CLOSE before it does anything
else (`Sftp::readdir`).

Nobody need send INIT first: no handler looks at `version`. A READ asks for no byte
or for some (`Lens`), a WRITE carries at least one.

Handle names. `handle_{id}` carries the id of the request, which the client
chooses. The model leaves it the choice, over and over again, with two things it does
not do: take the id of a handle it holds (`NewId`), nor for an OPENDIR one that was an
OPEN's in the same session (`NewDirId`: `close` leaves the file in `file_handles`, and
a READ of the directory handle would be served from it). A client that counts its
requests up, as `ssh2` does, keeps both until the u32 wraps within one session. For
a client that breaks them the first property below is false.

Places of the disk that sessions meet in are named without `..`, and the root has
none; the path functions with `..` are the business of `PathRequests`. Names are
read from an open directory in one buffer (`getdents`), when the first entry is
asked for, wherever the directory is by then.

* `HandlesDenoteLeases`: for every handle a client holds the two maps say what
  the OPEN or OPENDIR that granted it put there, and no two leases share one.
* `OnlyLeasesAreServed`: `close` leaves the file open, and still no READ or WRITE
  is answered Ok unless its handle is held, and it is served from the file of
  its OPEN.
* `AuditNamesLease`: the path in a Read or Write record, taken from one map,
  belongs to the file, taken from the other.
* `FstatFaithful`: `fstat` of a held file that is where it was opened answers
  with that file. True under the default root, false under absolute ones.
* `EmptyReadOnlyIfShrunk`: an Ok answer with no bytes to a READ that asked for some
  means that the file shrank after the size check.
* `LostRequestsLeaveDisk`: a request that ends its session at an `unwrap()` changed
  nothing, except a WRITE through a handle that is not held. So of the requests a
  client gets no answer to only those that ended at their audit event were carried
  out, and those wholly.
* `OneListingThenEof`, `ListingsEnd`: to a disciplined client a directory handle
  is one listing followed by Eof, also after listings it broke off and next to
  those of other sessions, and its loop over READDIR ends. Report.md:62 suspects
  the flag under several users. It is a field of the session, so other users do
  not disturb it; two listings interleaved on one session would.
* `OvertakenOnly`: a listing that has opened its directory, or a realpath of a path
  with a file name, that dies before its audit event was overtaken by a change of
  the tree. It takes every file to have an owner with a name (`fs.rs` 141-142 unwraps
  the look-up) and no link to dangle.
* `RealpathAnswers` is false and belongs to a run that shows it: realpath of what is
  there ends the session where the real path has no file name, as for `/` under the
  default root. (A path that ends in `..`, which the sessions here do not send, has
  none under any root.)
* `ImplementsHandleTable`: the two maps are a `HandleTable`. There a handle is
  given out for one thing at a time; what is served through it is that thing until
  it is given back, and nothing afterwards until it is given out again; no session
  sees another's handles. Under the mapping `Binding` a handle with a path is for that
  path and the open file of the same name, one without a path is `Unused`. What is
  served is told from the answer and the audit record.

Of records this module says what is emitted, not what is kept. A short write changes
the file, is answered Eof and emits none (303-306), although server/README.md:56 has
all operations recorded; the model has it (`ShortWrite`) and no property is made of it.

### AuditLog and SshSession

`SftpSession` models what a handler does to the disk and the record it emits.
`SshSession` models where the record goes and who gets there. A handler is
seen here as a thread that may emit an event without fields, does something (a
deed) or is refused, and emits its record. `ssh[c]` is a connection with its
`SshSession` struct, `sftp[t]` the user name of the SFTP task of a channel,
`call[t]` the place of the thread in its handler: waiting for a connection of
the pool, using it, working. `holds` are the threads that have a connection,
`rows` the table `AuditLogs`, `printed` the deeds whose insert failed.
`principal` (whose password a connection has proved), `deeds` (on whose behalf
each was done, and whether its handler emits a record) and `answered` (whose client
was told Ok) are history. What is done, recorded and answered are three steps
(`Does`, `Record`, `Tell`): the pool may fail, and the server be killed, between them.

| action | source | action | source |
|---|---|---|---|
| `NewClient`, `Leave` | `sftp_server.rs` 28-48 | `Get`, `TimeOut` | `audit.rs` 27, `auth.rs` 61 |
| `AuthPassword`, `Authenticate` | 61-69, `auth.rs` 60-71 | `Noted` | `audit.rs` 29-43, no record |
| `ChannelOpen` | 71-81 | `Record` (`Insert`, `Refers`) | `audit.rs` 25-45, 92-98, `database.rs` 75-86 |
| `ChannelClose` | no handler | `Request`, `Does`, `Refuses`, `Tell`, `Ends` | the handlers, 144-473 |
| `SubsystemRequest`, `Unserved`, `Sftp` | 83-102, 50-55, `fs.rs` 69-78 | `Closes` | 169-178 |
| | | `Restart` | the process is killed, `main.rs` 93-121 |

A channel that is closed before sftp was asked for on it stays in the map `clients` as
long as its connection: only `get_channel` (line 53) takes channels out, and no handler
hears of a close. `Sftp` may die of the root not being a directory at any time.

The pool. `r2d2` hands out ten connections by default, and `get` blocks its
thread for up to thirty seconds and then fails (`TimeOut`): `on_event` panics,
`authenticate` answers as to a wrong password. Every `info!` of the server takes
a connection, also the six that have no fields for a record (credentials,
subsystem, version, opendir, readdir, realpath). The bundled SQLite enforces
foreign keys, so a record whose user column names nobody is refused. An insert
may also meet the lock of another process for longer than the busy timeout
(`Locks`). Both errors are printed.

* `ActsAsProven`: an SFTP task acts for the user whose password its connection
  proved, also after the connection is gone and its name is used again.
* `PoolSuffices`: no handler waits for a connection while it has one and no dead
  task has one, so nobody times out as long as no more handlers are at the database
  than it has connections. Handlers block their worker threads, of which tokio has
  one per processor: up to ten processors the pool cannot run out.
* `ToldOkIsRecorded`: what a client was told Ok for is in the table or its insert
  was printed, also if the server is killed at any point. CLOSE is the exception: it
  is answered Ok and emits no event (`Closes`), although the column `action` allows
  a 'Close' (`database.rs` 83) and server/README.md:56 has all operations recorded.
* `RecordsNameActor`: a record names the user on whose behalf the deed was done.
  True if no user's name reads as a number in another form. The column is declared
  INTEGER (`database.rs` 78): `007` is stored as 7.
* `ImplementsAuditTrail`: the log is an `AuditTrail`. There every deed that is to be
  logged is entered at most once, by the name of the user it was done for, or
  reported as not entered; nobody is told of it before; entries stay. The mapping is
  the identity on `deeds`, `rows`, `printed` and `answered`; a pool that times out, a
  panic and a restart between deed and record are deeds that stay pending for good;
  a restart between record and answer is an entry nobody is told of. Like
  `RecordsNameActor` it needs a column that keeps the users' names.
* `PoolRecovers`, `HandlersEnd`: a pool with nothing to give gives again, and every
  handler ends with an answer or with its task.

### Accounts

Processes `Server` and `Clis` start, initialise the database statement by
statement, serve or do their one command, and end; they may be killed between
any two statements. `query[a]` is the row an actor has read and
not acted on; its `valid` is history, the passwords the user has had since.
SQLite makes a statement atomic. Waiting for its lock is not modelled (five
seconds of busy timeout, the default of `rusqlite`). A password stands for its
hash; bcrypt errors are left out.

* `ChangedByKnower`: once an account exists its password changes only by an
  `update-password` that offered a password the account had since its row was
  read. Neither a second registration nor the insertion of `admin` by another
  starting process takes it over. Two updates with the same old password may
  both succeed; that lost update is within the property.
* `AuthedByPassword`: a connection is authed only as the user whose password it
  offered, by a password that was the user's between SELECT and verify.
* `OneCompletes`: of the processes that find no database at once, one wins CREATE
  TABLE Users and goes on alone; whoever comes to `AuditLogs` after it finds no such
  table, and a file with both tables has the account of `admin`. So the unwraps of
  the second CREATE never fail by a race.
* `AbandonedForGood`: a file with `Users` and without `AuditLogs` that nobody is
  completing came about by a kill of the one process that was, or by the name
  `admin` being taken, and stays so whoever starts later. It says how the
  violation of the run `audit_table` arises, and that it arises in no other way.
* `SchemaCompletes`: processes that find no database at once complete it, in
  every run in which none is killed and none registers the name `admin` first.
  With that name taken the insertion of `admin` fails and the process dies
  before it creates `AuditLogs`.

### Inodes and SshfsClient

`inodes` and `file_handles` are the two tables of `Sshfs`, with their counters;
`work` is a request between two of its SFTP calls (`mknod` and `mkdir` between
the creation and the `stat`, `readdir` between two entries, `read` and `write`
between two turns of their loop), `reply` the last answer. The rest of the
state is the environment. `fuser` hands over one request at a time.

* The server: `remote` says what is at each path, `held` which handles this
  client has open. `Others` lets other clients create and remove between any two
  calls. A call may fail at any time, and one that changes the tree may fail with
  its effect done (a lost answer). `Listings` fixes the order in which a set of
  names is listed: a server that shuffled an unchanged directory would defeat
  any offset.
* The kernel: it uses the numbers of names it has found (`dentries`) and of files
  it has open, looks a name up before it removes it, creates names it has not
  found only, forgets names when it likes, and reads a directory from the offset
  of the last entry it was given, in pages of any size of at least one entry.

| action | source | action | source |
|---|---|---|---|
| `Lookup`, `Getattr` (`Attr`) | 193-228 (163-189) | `Readdir`, `ReaddirEntry`, `SendPage` | 229-280 |
| `Unlink`, `Rmdir` (`Remove`) | 450-471, 510-531 | `Open`, `Release` | 282-315 |
| `Mknod`, `Mkdir` (`Make`, `MakeStat`) | 408-448, 473-508 | `Read`, `Write` (`StartIo`, `IoStep`) | 317-406 |
| `Forget`, `StartStream`, `Others` | kernel and server | `Init` | 151-162 |

* `DentriesAgree`: a name the kernel holds stands for the path the table gives
  its number, the parent's path and the name, also when names were removed by
  others, answers were lost or directories retired.
* `NeverPanics`: the `unwrap()` in `unlink` and `rmdir` never fails. It depends on
  the kernel's habit of removing names it has found and on the error arm
  leaving the number alone.
* `GetattrAnswersForAsked`: `getattr` turns the number into a path and the path
  into a number again, and it is the same one.
* `ImplementsInodeTable`: every entry is answered with generation 0, so a number
  may never stand for a second path; the table is an `InodeTable` under the
  mapping `Binding` (a number below the counter without a path is `Retired`).
* `HoldsWhatIsOpen`: at rest the client holds the server handles of the kernel's
  open files and no other; what `mknod` opens is closed on its error path too.
* `OpenedDenote`: an open file is served from the file it opened, whichever others
  were opened and released and whatever became of its number.
* `MovesWhatWasAsked`: a read or write answered with n bytes moved the n bytes from
  its offset on, wherever the file stood before and however the calls split them, all
  it was asked for unless a read came to the end of the file. A file opened with
  APPEND is the exception for writes: they land at its end (`Lands`), not at the
  offset the kernel gave (`filesystem.rs` 288, 379-391). Each call may transfer less
  than it was given, a write also nothing: then the loop of 386-391 tries again, and
  nothing ends it (a hazard no property covers).
* `StableListing`: while no name of a directory changes, the pages, each cut from a
  listing of its own, are the listing, nothing lost and nothing twice. When a
  name does change between two pages, others may be lost or repeated.

## 3. The runs

| run | module, configuration | what it asks | bounds |
|---|---|---|---|
| `paths` | `MCVirtualRoot` | the four path properties | all roots and paths of up to two components, absolute, relative and `.`-relative, each component one of two names or `..`: a root and a path each long enough for any prefix relation between them, for a climb at the start and after a descent |
| `session_handles` | `SessionHandles` | handles, service, audit names, dying requests, `fstat` under `.`, the refinement | one undisciplined client, two ids used again and again, one file of size up to 2 (short, full and failing writes), three sets of open flags. Handles of other sessions cannot be named, so one session suffices; no name is free, so every rename to another name fails (`two_sessions` renames) |
| `two_sessions` | `TwoSessions` | reads against truncation and growth, listings and realpaths against changes of the tree | two sessions, one handle each (a file or a directory), a tree of depth two with one free name, files of size up to 1. Sessions are symmetric, and states that differ in `reply` and `event` alone are one (VIEW): no action reads these, and the two properties are of steps, which TLC evaluates for every step it generates |
| `listings` | `Listings` | the directory flag, and that listings end | two sessions, two ids for OPENDIR each (a listing broken off, then another), directories that come and go |
| `server_tasks` | `ServerTasks` | whom tasks act for, the pool, what the log keeps and by whose name, the refinement, that handlers end | two connections of one channel each, opened and closed (four threads: two wait while one has the connection), a pool of one connection, so that it is exhausted by each use, two users, one of them with a name the column turns into nobody's, one deed, recorded or not (that two deeds do not mix is in the theorem), locks, restarts |
| `user_database` | `UserDatabase` | who changes an account, who gets in, who completes the schema, how a file is left without `AuditLogs`, that the schema gets complete | two command-line processes, one server, one connection, two users, two passwords, kills and restarts |
| `client_names` | `ClientNames` | what numbers stand for, `unwrap`s, pages, the refinement | a tree of depth two, mounted at `/` or at its directory; four numbers (one more than paths, so that a path is retired and bound again); one other client. Directories of one name list three entries, so there are up to three pages |
| `client_files` | `ClientFiles` | handles, bytes | two files, there from the start and symmetric, as are the two handles of the server; three handle numbers (two files open, one of them released, another opened), with and without APPEND; removals by the other client only, offsets up to 2 (a request in one, two or fewer bytes) |

Four runs show where the code differs from what its documents say. TLC finds
the violation in each:

| run | property | what happens |
|---|---|---|
| `fstat_absolute_root` | `FstatFaithful` | under an absolute root `fstat` looks up `root/root/...` and the session dies |
| `realpath_default_root` | `RealpathAnswers` | under the default root `realpath("/")` unwraps the file name of `.` |
| `audit_table` | `ServesWithAuditLogs` | a start killed at the wrong moment leaves a database without `AuditLogs` that no later start repairs |
| `audit_names` | `RecordsNameActor` | the records of the user `007` are stored as records of the user `7` |

Fairness. `SftpSession!Live` is weak fairness of `Advance(s)` for each session: a
handler contains no await and no lock, so its task runs on whenever the
scheduler gives it a thread. And weak fairness of the next READDIR of a client
that lists a directory, for the loop of `Sftp::readdir`, which sends the next
request when it has an answer. No request is assumed to be sent otherwise.
`Accounts!LiveSpec` is weak fairness of the statements of initialisation: a
process that is not killed executes its next statement. `SshSession!LiveSpec` is
weak fairness, for each thread, of what it does in a handler (`Runs`: no await and
no lock between getting a connection and returning it; the busy timeout of SQLite
is five seconds) and of the end of its wait, one way or the other (`Get` or
`TimeOut`: `Pool::get` returns within thirty seconds). Which of the two, and who is
served first, is left open, so a thread may time out again and again. `SshfsClient` states no
fairness, and nothing is claimed of requests that must be answered. The server may stop serving at any time and
sessions may leave, so no run turns the deadlock check off: someone can always
connect or start again.

## 4. The theorems

All are for arbitrary constants, under the assumptions the modules name
(`NameAssumption`, `PathsAssumption`, `DiskAssumption`, `SessionAssumption`,
`AuditAssumption`, `SshAssumption`, `AccountsAssumption`, `InodesAssumption`,
`ClientAssumption`), which TLC
evaluates on every run of the modules that extend theirs.

* `VirtualRootProofs`: `ResolveNeverFails`, `RoundTrip` and, for roots without `..`,
  `FstatOrRealpath`, for every root and path. The invariant `PInv` says of each stage what `real`,
  `back` and `again` are. The lemmas in `PathLemmas` carry the weight:
  `ResolveAppends` (resolving appends the names of the path to the root),
  `BackAndForth` (mapping back undoes it) and `ResolveTwice`.
* `SftpSessionProofs`: `TypeCorrect`, then `HandlesDenoteLeases`,
  `OnlyLeasesAreServed`, `AuditNamesLease` and the action property
  `LostRequestsLeaveDisk`. `IInv` adds `Owned`: besides what `HandlesDenoteLeases`
  says of the leases (that they denote, and share no id, which an OPEN or OPENDIR
  keeps because its id is a new one), every path in `handles` belongs to a lease (else
  a READ that finds a path would not be a holder's). The proof has one lemma per
  group of actions; handlers that leave the maps alone share `KeepsOwned` and
  `PanicOwned`. TLC checked `Owned` on the instance of `session_handles`. For
  the refinement `StepShape` sorts every step into four kinds: nothing served and the maps kept or dropped (`Aside`), served (`ServedNow`),
  given (`GivenNow`), closed (`ClosedNow`); each is a step of `HandleTable`
  (`TableStep`).
* `SftpListingProofs`: `EmptyReadOnlyIfShrunk`, `OvertakenOnly`, `OneListingThenEof`
  and `FstatFaithful`. `LInv` adds what a handler in progress knows (`Knows`: a read
  that its offset was below the size it took, a listing and a realpath that
  what they go on to ask for was there in the tree they have `seen`), and, if clients
  list one directory at a time (`Disciplined`, the hypothesis of `OneListingThenEof`),
  that the flag of a session is raised from the READDIR that lists to the one answered
  Eof (`Tracks`). `OvertakenOnly` needs `NoLinks`, an invariant of the disk: an
  object is at one place only, so the names read from the open directory are names
  below the path that was asked for if the tree is still the one in which it was opened.
  `FstatFaithful` has the hypothesis that the root has no file name, as `.` and `/`:
  then the second resolution of fstat is harmless (`ResolveTwice`), and the
  file is there because a file that is held was there when it was opened
  (`HeldFiles`). Under other roots without `..` it fails (run `fstat_absolute_root`),
  and under those of its hypothesis it is realpath that fails (run
  `realpath_default_root`), which is what `FstatOrRealpath` says.
* `SshSessionProofs`: `TypeCorrect`, `ActsAsProven`, `ToldOkIsRecorded`,
  `PoolSuffices`, and `RecordsNameActor` under the hypothesis
  that the column keeps the users' names. `IInv` adds, of each connection, that it
  is open and its name one of `Users` if it is authed, that it has no task before it
  is authed, and at what its handler may stand (`ConnInv`); of each task, that it
  is in a handler only while it runs, that the deed it is about to record is one to be
  logged and was done for the principal of its connection, and that the deed it is about
  to tell of is recorded or printed, if it is to be logged (`TaskInv`); and
  `HoldersUse`, that who has a connection of the pool is using it. For
  `ImplementsAuditTrail`, under the hypothesis of `RecordsNameActor`, `TrailInv` says
  that a deed a handler is about to record is neither in the table nor printed and is
  waited for by that handler alone: without it a second insert of one deed could not be
  excluded. A step of `SshSession` is then `Do` (`DoesTrail`), `Enter` or `Report`
  (`RecordTrail`), `Tell` (`TellTrail`), or leaves the trail alone (`OthersQuiet`).
* `AccountsProofs`: `TypeCorrect`, `ChangedByKnower`, `AuthedByPassword`. `AInv`
  adds that a row that was read is still there and the hash read is among the
  passwords since (`RowInv`), and that a process about to UPDATE has read a row.
  `OneCompletes` and `AbandonedForGood` are proved together, one lemma per statement
  of the initialisation: `OneCompletes` is inductive once accounts are known to stay
  (`AccountsStay`, from `ChangedByKnower`: no row goes away), and it is what makes a file
  abandoned only by its one completer. They are the safety half of
  `SchemaCompletes`.
* `SshfsClientProofs`: `TypeCorrect`, `DentriesAgree`, `NeverPanics`,
  `GetattrAnswersForAsked`, `MovesWhatWasAsked`, `OpenedDenote`, and that the client
  implements `InodeTable`. `NInv` adds to `DentriesAgree` that no two numbers have
  one path and none above the counter has any (`TableInv`), and what the request
  in progress relies on: `MakeInv` (the kernel does not hold the name that is being
  made), `DirInv`, and `IoInv` (the file stands where the bytes moved so far end,
  and they are an interval from the offset on, those of an APPEND excepted). `Steps` says how the table may
  move: a step adds or retires at most one number. From it the refinement follows
  step by step. `HInv` adds that handle numbers in use are below the counter, and
  `HeldInv`, for `HoldsWhatIsOpen`, that each handle of the server is held for one
  open file or for the `mknod` under way.
* `SshfsStreamProofs`: `StableListing`. `StreamInv` says that the number of the
  directory keeps its path or loses it for good (`NumberInv`: a number is never
  bound again, so the names met on the way, which get numbers, do no harm), that
  what the kernel got begins the listing and its offset is the length of that
  (`GotInv`), and that the page being filled goes on from there (`PageInv`).

Only model-checked: the liveness properties (`ListingsEnd`, `SchemaCompletes`,
`PoolRecovers`, `HandlersEnd`), as temporal reasoning under fairness is out of the
prover's reach, and `BelowUnlessClimbing`, which speaks of a fold over a path: its
proof would be an induction over paths, which the provers cannot do either. The properties of the four runs that find a difference are false
of the code, those of them with a theorem under its hypothesis excepted.

## 5. What is not modelled

* Of the client, attributes, the open flags but APPEND, permissions and error numbers,
  which no property is about, `_rename`, which has no caller, and the connection, one
  sequence of calls without state. The program mounts `/` whatever `--path` says
  (`client/src/main.rs` 50, 68), the library the path it is given: the model mounts
  any directory.
* `check_permission` (`auth.rs`), which has no caller, and the in-memory pool of the
  tests.
* The text of listing lines and attributes (`mode_to_rwx`, `format_time`), the
  contents of files, time stamps: no property is about them.
* Symbolic links, permission errors, non-UTF-8 names. A dangling link in a
  directory would end every session that lists it (`sftp_server.rs` 359).
* `..` in the requests and the root of `SftpSession`, whose places are the objects of
  one tree below the root; `PathRequests` has it.
* Ids of requests that come again while a handle with that id is held (`NewId`,
  `NewDirId`), as after a wrap of the u32 within a session.
* Directories whose names take more than one `getdents` buffer, which `ReaddirNames`
  reads at once.
* Owners: `get_file_file_attributes` unwraps the look-up of user and group
  (`fs.rs` 141-142), so a file of an unknown user ends the session that asks.
* That the root directory is checked at every sftp request and never at the start
  (`fs.rs` 73, server/README.md:52 says the server does not start without it) is
  visible in `SshSession` (`Sftp` may die at any time), and no property is made of it.
* Three differences between code and documents are in the model and stated with the
  properties they limit, without a run of their own: paths that climb
  (`BelowUnlessClimbing`), short writes without a record (`ShortWrite`), and CLOSE
  without one (`Closes`).
* The desktop program, a template that calls nothing of the system.
* The network: SSH delivers requests and answers in order or ends the
  connection, and a lost connection is `Disconnect`.

## 6. Plan

Done: the path algebra, the SFTP sessions and the table of handles they implement,
the SSH side with the pool, the audit log and the trail it implements, the user
database, the FUSE client and the table of inodes it implements, with theorems for
each; every safety property of a passing run but `BelowUnlessClimbing` is stated by a
theorem, those that depend on the root or on the column under the hypothesis that makes
them true. What is left:

1. A directory handle as a stream of one listing, as an abstract specification that
   `OneListingThenEof` and `OvertakenOnly` would follow from.
2. `ClientServer`: `SshfsClient` composed with `SftpSession`, which both now meet
   at the server's file handles only.
