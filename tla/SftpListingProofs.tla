------------------------- MODULE SftpListingProofs -------------------------
(***************************************************************************)
(* What holds between two system calls of one handler, and from one        *)
(* READDIR to the next: theorems about the reads, the listings and the     *)
(* realpaths of any number of sessions over one disk, and about FSTAT      *)
(* under a root without a file name.                                       *)
(***************************************************************************)
EXTENDS SftpSessionProofs

(* The disk has no links.                                                  *)

NoLinks == \A p, q \in Places : tree[p] = tree[q] => p = q \/ tree[p] = NoObj

LEMMA PrefixSplits ==
  ASSUME NEW S, NEW s \in Seq(S), NEW t \in Seq(S), StartsWith(s, t)
  PROVE  s = t \o StripPrefix(s, t) /\ StripPrefix(s, t) \in Seq(S)
<1> DEFINE u == StripPrefix(s, t)
<1>1. Len(s) \in Nat /\ Len(t) \in Nat /\ Len(t) <= Len(s) /\ SubSeq(t, 1, Len(t)) = SubSeq(s, 1, Len(t))
  BY LenProperties DEF StartsWith, IsPrefix
<1>2. \A i \in 1..Len(t) : t[i] = s[i]
  <2>1. \A i \in 1..Len(t) : SubSeq(t, 1, Len(t))[i] = t[i] /\ SubSeq(s, 1, Len(t))[i] = s[i]
    BY <1>1, SubSeqProperties
  <2>2. QED BY <1>1, <2>1
<1>3. /\ u \in Seq(S) /\ Len(u) = Len(s) - Len(t)
      /\ \A i \in 1..Len(u) : u[i] = s[Len(t) + i]
  <2>1. \A i \in (Len(t) + 1)..Len(s) : s[i] \in S
    BY <1>1, ElementOfSeq
  <2>2. QED BY <1>1, <2>1, SubSeqProperties DEF StripPrefix
<1> HIDE DEF u
<1>4. t \o u \in Seq(S) /\ Len(t \o u) = Len(s)
  BY <1>1, <1>3, ConcatProperties
<1>5. ASSUME NEW i \in 1..Len(s) PROVE (t \o u)[i] = s[i]
  <2>1. CASE i <= Len(t)
    BY <1>1, <1>2, <1>3, <2>1, ConcatProperties
  <2>2. CASE i > Len(t)
    <3>1. i \in Nat /\ i <= Len(t) + Len(u) /\ i - Len(t) \in 1..Len(u)
      BY <1>1, <1>3, <2>2
    <3>2. (t \o u)[i] = u[i - Len(t)]
      BY <1>1, <1>3, <2>2, <3>1, ConcatProperties
    <3>3. u[i - Len(t)] = s[Len(t) + (i - Len(t))]
      BY <1>3, <3>1
    <3>4. Len(t) + (i - Len(t)) = i
      BY <1>1, <3>1
    <3>5. QED BY <3>2, <3>3, <3>4
  <2>3. i <= Len(t) \/ i > Len(t)
    BY <1>1
  <2>4. QED BY <2>1, <2>2, <2>3, Zenon
<1>6. t \o u = s
  BY <1>4, <1>5, SeqEqual
<1>7. QED BY <1>3, <1>6 DEF u

LEMMA AppendFront ==
  ASSUME NEW S, NEW s \in Seq(S), s # <<>>
  PROVE  Append(Front(s), Last(s)) = s
<1>1. Len(s) \in Nat /\ Len(s) >= 1
  BY EmptySeq, LenProperties
<1>2. \A i \in 1..(Len(s) - 1) : s[i] \in S
  BY <1>1, ElementOfSeq
<1>3. s[Len(s)] \in S
  BY <1>1, ElementOfSeq
<1>4. /\ Front(s) \in Seq(S) /\ Len(Front(s)) = Len(s) - 1
      /\ \A i \in 1..(Len(s) - 1) : Front(s)[i] = s[i]
  <2> DEFINE n == Len(s) - 1
  <2>1. n \in Int /\ 1 \in Int /\ n \in Nat /\ Front(s) = SubSeq(s, 1, n)
    BY <1>1 DEF Front
  <2>2. \A i \in 1..n : s[i] \in S
    BY <1>2
  <2> HIDE DEF n
  <2>3. /\ SubSeq(s, 1, n) \in Seq(S) /\ Len(SubSeq(s, 1, n)) = IF 1 <= n THEN n - 1 + 1 ELSE 0
        /\ \A i \in 1..(n - 1 + 1) : SubSeq(s, 1, n)[i] = s[1 + i - 1]
    BY <2>1, <2>2, SubSeqProperties
  <2>4. /\ Len(SubSeq(s, 1, n)) = n
        /\ \A i \in 1..n : SubSeq(s, 1, n)[i] = s[i]
    BY <2>1, <2>3
  <2>5. QED BY <2>1, <2>3, <2>4 DEF n
<1>5. QED BY <1>1, <1>3, <1>4, AppendProperties, SeqEqual DEF Last

\* What a rename takes along is at one place, as it was before.
LEMMA RenameKeepsNoLinks ==
  ASSUME NoLinks, NEW from \in Places, NEW to \in Places, Rename(from, to)
  PROVE  NoLinks'
<1>1. Places \subseteq Seq(Name)
  BY DiskAssumption
<1> DEFINE Old(p) == from \o StripPrefix(p, to)
<1>2. ASSUME NEW p \in Places, tree'[p] # NoObj
      PROVE  \/ /\ StartsWith(p, to) /\ Old(p) \in Places /\ tree'[p] = tree[Old(p)]
                /\ StartsWith(Old(p), from) /\ StripPrefix(Old(p), from) = StripPrefix(p, to)
                /\ p = to \o StripPrefix(p, to)
             \/ ~StartsWith(p, to) /\ ~StartsWith(p, from) /\ tree'[p] = tree[p]
  <2>1. CASE StartsWith(p, to)
    <3>1. p = to \o StripPrefix(p, to) /\ StripPrefix(p, to) \in Seq(Name)
      BY <1>1, <2>1, PrefixSplits
    <3>2. StartsWith(Old(p), from) /\ StripPrefix(Old(p), from) = StripPrefix(p, to)
      BY <1>1, <3>1, ConcatStartsWith
    <3>3. tree'[p] = IF Old(p) \in Places THEN tree[Old(p)] ELSE NoObj
      BY <2>1 DEF Rename
    <3>4. QED BY <1>2, <2>1, <3>1, <3>2, <3>3
  <2>2. CASE ~StartsWith(p, to)
    <3>1. tree'[p] = IF StartsWith(p, from) THEN NoObj ELSE tree[p]
      BY <2>2 DEF Rename
    <3>2. QED BY <1>2, <2>2, <3>1
  <2>3. QED BY <2>1, <2>2
<1> HIDE DEF Old
<1>3. ASSUME NEW p \in Places, NEW q \in Places, tree'[p] = tree'[q], tree'[p] # NoObj
      PROVE  p = q
  <2>1. CASE StartsWith(p, to) /\ StartsWith(q, to)
    <3>1. Old(p) = Old(q)
      BY <1>2, <1>3, <2>1 DEF NoLinks
    <3>2. QED BY <1>2, <1>3, <2>1, <3>1
  <2>2. CASE ~(StartsWith(p, to) /\ StartsWith(q, to))
    BY <1>2, <1>3, <2>2 DEF NoLinks
  <2>3. QED BY <2>1, <2>2
<1>4. QED BY <1>3 DEF NoLinks

\* What the steps do to the tree.
TreeSteps ==
  \/ UNCHANGED tree
  \/ \E p \in Places, k \in {"file", "dir"} : Free(Held) # {} /\ Create(p, k, Held)
  \/ \E p : Unlink(p)
  \/ \E from, to \in Places : Rename(from, to)

LEMMA StepTrees ==
  ASSUME [Next]_vars
  PROVE  TreeSteps
<1>1. CASE UNCHANGED disk
  BY <1>1 DEF disk, TreeSteps
<1>2. ASSUME NEW s, NEW v, NEW f, NEW id, Open(s, v, f, id) PROVE TreeSteps
  <2> DEFINE p == At(Resolve(Root, v))
  <2>1. CASE OpensOnDisk(p, f)
    <3>1. CASE ~Exists(p)
      BY <2>1, <3>1 DEF OpensOnDisk, CanOpen, CanCreate, TreeSteps
    <3>2. CASE Exists(p)
      BY <2>1, <3>2 DEF OpensOnDisk, TreeSteps
    <3>3. QED BY <3>1, <3>2
  <2>2. QED BY <1>1, <1>2, <2>1, OpenWays DEF Panic
<1>3. ASSUME NEW s, NEW v, FxpRemove(s, v) \/ Mkdir(s, v) \/ Rmdir(s, v) PROVE TreeSteps
  <2> DEFINE p == At(Resolve(Root, v))
  <2>1. \/ UNCHANGED disk \/ Unlink(p)
        \/ CanCreate(p, Held) /\ Create(p, "dir", Held)
    BY <1>3 DEF FxpRemove, Mkdir, Rmdir, Panic
  <2>2. QED BY <1>1, <2>1 DEF TreeSteps, CanCreate
<1>4. ASSUME NEW s, NEW v, NEW w, FxpRename(s, v, w) PROVE TreeSteps
  <2> DEFINE from == At(Resolve(Root, v))
             to   == At(Resolve(Root, w))
  <2>1. UNCHANGED disk \/ (CanRename(from, to) /\ Rename(from, to))
    BY <1>4 DEF FxpRename, Panic
  <2>2. QED BY <1>1, <2>1 DEF TreeSteps, CanRename, Exists
<1>5. ASSUME NEW s, NEW h, NEW off, NEW n, Write(s, h, off, n) PROVE TreeSteps
  BY <1>5 DEF Write, Panic, disk, TreeSteps
<1>6. ASSUME NEW s, NEW v, NEW h, NEW off, NEW len,
             \/ Connect(s) \/ Disconnect(s) \/ FxpInit(s) \/ OpenDir(s, v, h) \/ Close(s, h)
             \/ Fstat(s, h) \/ Lstat(s, v) \/ Stat(s, v) \/ Setstat(s)
             \/ ReadStart(s, h, off, len) \/ ReaddirStart(s, h) \/ RealpathStart(s, v)
             \/ Advance(s)
      PROVE  TreeSteps
  <2>1. UNCHANGED disk
    BY <1>6 DEF Connect, Disconnect, FxpInit, OpenDir, Close, Fstat, Lstat, Stat, Setstat,
                ReadStart, ReaddirStart, RealpathStart, Advance, ReadFinish, RealpathFinish,
                ReaddirOpen, ReaddirNames, ReaddirEntry, ReaddirFinish, Panic
  <2>2. QED BY <1>1, <2>1
<1>7. CASE UNCHANGED vars
  BY <1>1, <1>7 DEF vars
<1>8. QED BY <1>2, <1>3, <1>4, <1>5, <1>6, <1>7 DEF Next, Request

LEMMA NoLinksKept ==
  ASSUME DiskTypeOK, NoLinks, [Next]_vars
  PROVE  NoLinks'
<1>1. CASE UNCHANGED tree
  BY <1>1 DEF NoLinks
<1>2. ASSUME NEW p \in Places, NEW k, Free(Held) # {}, Create(p, k, Held) PROVE NoLinks'
  <2>1. PICK o \in Free(Held) : tree' = [tree EXCEPT ![p] = o]
    BY <1>2 DEF Create
  <2>2. o # NoObj /\ \A q \in Places : tree[q] # o
    BY <2>1, ConstantFacts DEF Free
  <2>3. QED BY <2>1, <2>2 DEF NoLinks, DiskTypeOK
<1>3. ASSUME NEW p, Unlink(p) PROVE NoLinks'
  BY <1>3 DEF Unlink, NoLinks, DiskTypeOK
<1>4. QED BY <1>1, <1>2, <1>3, StepTrees, RenameKeepsNoLinks DEF TreeSteps

LEMMA TreeIsOne ==
  ASSUME DiskTypeOK
  PROVE  tree # NoTree
<1>1. DOMAIN tree = Places /\ <<>> \in Places
  BY DiskAssumption DEF DiskTypeOK
<1>2. DOMAIN NoTree = {}
  BY DEF NoTree
<1>3. QED BY <1>1, <1>2
-----------------------------------------------------------------------------
\* What a handler in progress knows, as long as the tree is the one it has seen: a
\* read that what it asks for was there, a listing where its directory is and that
\* its entries are there, a realpath that its path is.
Knows(w) ==
  /\ w.op = "read" => w.off < w.file_size
  /\ w.op = "read_dir" => /\ At(w.real) \in Places /\ w.dir # NoObj
                          /\ w.seen[At(w.real)] = w.dir
  /\ w.op = "readdir" /\ w.seen # NoTree => \A c \in w.todo : c \in Places /\ w.seen[c] # NoObj
  /\ w.op = "realpath" => At(w.real) \in Places /\ w.seen[At(w.real)] # NoObj

\* A handler that is between READDIR and its answer.
AtListing(w) == w.op \in {"canonicalize", "read_dir", "readdir"}

\* The flag of a session is that of the one listing its client has: raised from
\* the READDIR that lists to the READDIR that is answered Eof.
Tracks(flag, w, ls) ==
  /\ \A l, m \in ls : l.kind = "dir" /\ m.kind = "dir" => l = m
  /\ AtListing(w) => \E l \in ls : l.kind = "dir" /\ l.h = w.h
  /\ \A l \in ls : l.kind = "dir" =>
       /\ AtListing(w) => flag /\ l.phase = "open"
       /\ ~AtListing(w) => (flag <=> l.phase = "listed")

KnowsInv == \A s \in Sessions : Knows(work[s])
FlagInv  == \A s \in Sessions : Tracks(sftp[s].root_dir_read_done, work[s], leases[s])

\* The conclusions of one step of EmptyReadOnlyIfShrunk, OvertakenOnly and
\* OneListingThenEof.
Shrunk ==
  \A s \in Sessions :
    /\ reply'.to = s /\ reply'.op = "read" /\ reply'.st = "ok" /\ reply'.empty
    /\ work[s].len # 0
    => size[reply'.obj] < work[s].file_size

Overtaken ==
  \A s \in Sessions :
    /\ reply'.to = s /\ reply'.st = "lost"
    /\ \/ work[s].op = "readdir"
       \/ work[s].op = "realpath" /\ HasFileName(work[s].real)
    => tree # work[s].seen

Streams ==
  reply'.op = "readdir" =>
    /\ reply'.st = "ok" =>
         \E l \in leases[reply'.to] : l.h = reply'.h /\ l.phase = "open"
    /\ reply'.st = "eof" =>
         \E l \in leases[reply'.to] : l.h = reply'.h /\ l.phase = "listed"

Told == Shrunk /\ Overtaken /\ (Disciplined => Streams)

\* Nothing these three speak of is said.
Plain(s) ==
  /\ ~reply'.empty
  /\ reply'.op = "readdir" => reply'.st \notin {"ok", "eof"}
  /\ reply'.st = "lost" => reply'.to = s /\ work[s].op \notin {"readdir", "realpath"}

LEMMA PlainTold ==
  ASSUME NEW s, Plain(s)
  PROVE  Told
BY DEF Plain, Told, Shrunk, Overtaken, Streams

\* Session s takes a step: its flag, its handler and its leases are new.
Local(s, flag, w, ls) ==
  /\ Knows(w)
  /\ Disciplined => Tracks(flag, w, ls)
  /\ work' = [work EXCEPT ![s] = w]
  /\ leases' = [leases EXCEPT ![s] = ls]
  /\ sftp'[s].root_dir_read_done = flag
  /\ \A t \in Sessions \ {s} : sftp'[t] = sftp[t]

LInv == KnowsInv /\ (Disciplined => FlagInv)

LEMMA LocalKeeps ==
  ASSUME TypeOK, LInv, NEW s \in Sessions, NEW flag, NEW w, NEW ls, Local(s, flag, w, ls)
  PROVE  LInv'
<1>1. ASSUME NEW t \in Sessions
      PROVE  /\ Knows(work'[t])
             /\ Disciplined => Tracks(sftp'[t].root_dir_read_done, work'[t], leases'[t])
  <2>1. CASE t = s
    <3>1. work'[t] = w /\ leases'[t] = ls
      BY <2>1 DEF Local, TypeOK, SessionTypeOK
    <3>2. QED BY <2>1, <3>1 DEF Local
  <2>2. CASE t # s
    <3>1. work'[t] = work[t] /\ leases'[t] = leases[t] /\ sftp'[t] = sftp[t]
      BY <2>2 DEF Local, TypeOK, SessionTypeOK
    <3>2. QED BY <3>1 DEF LInv, KnowsInv, FlagInv
  <2>3. QED BY <2>1, <2>2
<1>2. QED BY <1>1 DEF LInv, KnowsInv, FlagInv

\* A handler that is at no listing, and leaves the flag and the listings alone.
LEMMA BesideKeeps ==
  ASSUME TypeOK, LInv, NEW s \in Sessions, NEW w, Knows(w), work' = [work EXCEPT ![s] = w],
         ~AtListing(w), ~AtListing(work[s]),
         \A t \in Sessions : sftp'[t].root_dir_read_done = sftp[t].root_dir_read_done,
         UNCHANGED leases
  PROVE  LInv'
<1>1. ASSUME NEW t \in Sessions
      PROVE  /\ Knows(work'[t])
             /\ Disciplined => Tracks(sftp'[t].root_dir_read_done, work'[t], leases'[t])
  <2>1. CASE t = s
    <3>1. work'[t] = w
      BY <2>1 DEF TypeOK, SessionTypeOK
    <3>2. QED BY <2>1, <3>1 DEF LInv, FlagInv, Tracks
  <2>2. CASE t # s
    <3>1. work'[t] = work[t]
      BY <2>2 DEF TypeOK, SessionTypeOK
    <3>2. QED BY <3>1 DEF LInv, KnowsInv, FlagInv
  <2>3. QED BY <2>1, <2>2
<1>2. QED BY <1>1 DEF LInv, KnowsInv, FlagInv

LEMMA AllKept ==
  ASSUME LInv, UNCHANGED <<work, leases>>,
         \A t \in Sessions : sftp'[t].root_dir_read_done = sftp[t].root_dir_read_done
  PROVE  LInv'
BY DEF LInv, KnowsInv, FlagInv

LEMMA IdleKnows == Knows(Idle) /\ Idle.op = "idle" /\ ~AtListing(Idle)
BY DEF Knows, Idle, AtListing

LEMMA EndKeeps ==
  ASSUME TypeOK, LInv, NEW s \in Sessions, NEW op, NEW st, NEW h, DiesOf(s, op, st, h)
  PROVE  LInv' /\ reply' = Answer(s, op, st, h, NoObj)
<1>1. Tracks(FALSE, Idle, {}) /\ NewSession.root_dir_read_done = FALSE
  BY IdleKnows DEF Tracks, NewSession
<1>2. /\ work' = [work EXCEPT ![s] = Idle] /\ leases' = [leases EXCEPT ![s] = {}]
      /\ sftp' = [sftp EXCEPT ![s] = NewSession]
  BY DEF DiesOf, Reset
<1>3. Local(s, FALSE, Idle, {})
  BY <1>1, <1>2, IdleKnows DEF Local, TypeOK, SessionTypeOK
<1>4. QED BY <1>3, LocalKeeps DEF DiesOf, Says

\* A handler at rest that panics.
LEMMA PanicKeeps ==
  ASSUME TypeOK, LInv, NEW s \in Sessions, NEW op, NEW h, Panic(s, op, h) \/ Dies(s, op, h),
         work[s].op \notin {"readdir", "realpath"}
  PROVE  LInv' /\ Told
<1>1. LInv' /\ reply' = Answer(s, op, "lost", h, NoObj)
  BY EndKeeps DEF Panic, Dies
<1>2. Plain(s)
  BY <1>1 DEF Plain, Answer
<1>3. QED BY <1>1, <1>2, PlainTold

LEMMA UnheardKeeps ==
  ASSUME TypeOK, LInv, NEW s \in Sessions, NEW op, NEW h, Unheard(s, op, h)
  PROVE  LInv' /\ Told
<1>1. LInv' /\ reply' = Answer(s, op, "unheard", h, NoObj)
  BY EndKeeps DEF Unheard
<1>2. Plain(s)
  BY <1>1 DEF Plain, Answer
<1>3. QED BY <1>1, <1>2, PlainTold

\* A request that is answered at once.
LEMMA ServesKeeps ==
  ASSUME LInv, NEW s, NEW op, NEW st, NEW h, NEW o, NEW ev, Serves(Answer(s, op, st, h, o), ev),
         op # "readdir", st # "lost"
  PROVE  LInv' /\ Told
<1>1. LInv'
  BY AllKept DEF Serves, session
<1>2. Plain(s)
  BY DEF Serves, Says, Plain, Answer
<1>3. QED BY <1>1, <1>2, PlainTold

LEMMA LogsKeeps ==
  ASSUME TypeOK, LInv, NEW s \in Sessions, NEW op, NEW h, NEW o, NEW ev,
         Logs(Answer(s, op, "ok", h, o), ev), op # "readdir"
  PROVE  LInv' /\ Told
<1>1. Serves(Answer(s, op, "ok", h, o), ev) \/ Unheard(s, op, h)
  BY DEF Logs, Answer
<1>2. QED BY <1>1, ServesKeeps, UnheardKeeps

LEMMA SilenceTold ==
  ASSUME Says(NoReply, NoEvent)
  PROVE  Told
BY PlainTold DEF Says, Plain, NoReply
-----------------------------------------------------------------------------
(* The requests.                                                           *)

LEMMA PathsKeep ==
  ASSUME TypeOK, LInv, NEW s \in Sessions, NEW v, NEW w, NEW h,
         Lstat(s, v) \/ Stat(s, v) \/ Setstat(s) \/ FxpRemove(s, v) \/ Mkdir(s, v) \/ Rmdir(s, v)
           \/ FxpRename(s, v, w) \/ Fstat(s, h)
  PROVE  LInv' /\ Told
<1>1. work[s].op = "idle"
  BY IdleKnows
     DEF Lstat, Stat, Setstat, FxpRemove, Mkdir, Rmdir, FxpRename, Fstat, Ask
<1>2. CASE \E op : Panic(s, op, 0) \/ Panic(s, op, h)
  BY <1>1, <1>2, PanicKeeps
<1>3. CASE \E op, st, g, o, ev : /\ op # "readdir" /\ st # "lost"
                                 /\ \/ Serves(Answer(s, op, st, g, o), ev)
                                    \/ st = "ok" /\ Logs(Answer(s, op, st, g, o), ev)
  BY <1>3, ServesKeeps, LogsKeeps
<1>4. QED BY <1>2, <1>3
          DEF Lstat, Stat, Setstat, FxpRemove, Mkdir, Rmdir, FxpRename, Fstat

LEMMA SessionsKeep ==
  ASSUME TypeOK, LInv, NEW s \in Sessions, Connect(s) \/ Disconnect(s) \/ FxpInit(s)
  PROVE  LInv' /\ Told
<1>1. CASE Connect(s)
  BY <1>1, AllKept, SilenceTold DEF Connect
<1>2. CASE Disconnect(s)
  <2>1. Tracks(FALSE, Idle, {}) /\ NewSession.root_dir_read_done = FALSE
    BY IdleKnows DEF Tracks, NewSession
  <2>2. Local(s, FALSE, Idle, {})
    BY <1>2, <2>1, IdleKnows DEF Disconnect, Reset, Local, TypeOK, SessionTypeOK
  <2>3. QED BY <1>2, <2>2, LocalKeeps, SilenceTold DEF Disconnect
<1>3. CASE FxpInit(s)
  <2>1. CASE /\ sftp' = [sftp EXCEPT ![s].version = TRUE]
             /\ Says(Answer(s, "init", "ok", 0, NoObj), NoEvent)
             /\ UNCHANGED <<work, leases>>
    <3>1. \A t \in Sessions : sftp'[t].root_dir_read_done = sftp[t].root_dir_read_done
      BY <2>1 DEF TypeOK, SessionTypeOK, SftpState
    <3>2. Plain(s)
      BY <2>1 DEF Says, Plain, Answer
    <3>3. QED BY <2>1, <3>1, <3>2, AllKept, PlainTold
  <2>2. QED BY <1>3, <2>1, ServesKeeps, UnheardKeeps DEF FxpInit
<1>4. QED BY <1>1, <1>2, <1>3

\* To grant a handle to a client that lists no directory.
LEMMA OpenKeeps ==
  ASSUME TypeOK, LInv, NEW s \in Sessions, NEW v, NEW f, NEW id, Open(s, v, f, id)
  PROVE  LInv' /\ Told
<1> DEFINE h == HandleOf(id)
           o == tree'[At(Resolve(Root, v))]
           lease == [h |-> h, kind |-> "file", path |-> v, obj |-> o, phase |-> "open"]
<1>1. /\ work[s] = Idle
      /\ Disciplined => \A l \in leases[s] : l.kind # "dir"
  BY DEF Open, Ask, Listing
<1>2. CASE OpensInSession(s, v, f, id)
  <2>1. /\ sftp' = [sftp EXCEPT ![s].handles[h] = PathOfOpen(v),
                                ![s].file_handles[h] = [obj |-> o, flags |-> f]]
        /\ Grants(s, lease) /\ UNCHANGED work
        /\ Says(Answer(s, "open", "ok", h, o), Log("Open", Resolve(Root, v)))
    BY <1>2 DEF OpensInSession
  <2>2. lease.kind = "file"
    OBVIOUS
  <2> HIDE DEF lease
  <2>3. /\ sftp'[s].root_dir_read_done = sftp[s].root_dir_read_done
        /\ \A t \in Sessions \ {s} : sftp'[t] = sftp[t]
    BY <2>1 DEF TypeOK, SessionTypeOK, SftpState
  <2>4. Disciplined => Tracks(sftp[s].root_dir_read_done, Idle, leases[s] \cup {lease})
    BY <1>1, <2>2, IdleKnows DEF Tracks
  <2>5. work' = [work EXCEPT ![s] = Idle]
    BY <1>1, <2>1 DEF TypeOK, SessionTypeOK
  <2>6. leases' = [leases EXCEPT ![s] = leases[s] \cup {lease}]
    BY <2>1 DEF Grants
  <2>7. Local(s, sftp[s].root_dir_read_done, Idle, leases[s] \cup {lease})
    BY <2>3, <2>4, <2>5, <2>6, IdleKnows DEF Local
  <2>8. Plain(s)
    BY <2>1 DEF Says, Plain, Answer
  <2>9. QED BY <2>7, <2>8, LocalKeeps, PlainTold
<1>3. QED BY <1>1, <1>2, PanicKeeps, UnheardKeeps, IdleKnows, OpenWays

LEMMA OpenDirKeeps ==
  ASSUME TypeOK, LInv, NEW s \in Sessions, NEW v, NEW id, OpenDir(s, v, id)
  PROVE  LInv' /\ Told
<1> DEFINE h == HandleOf(id)
           lease == [h |-> h, kind |-> "dir", path |-> v, obj |-> NoObj, phase |-> "open"]
<1>1. CASE Unheard(s, "opendir", 0)
  BY <1>1, UnheardKeeps
<1>2. CASE ~Unheard(s, "opendir", 0)
  <2>1. /\ work[s] = Idle /\ UNCHANGED work /\ Grants(s, lease)
        /\ Disciplined => \A l \in leases[s] : l.kind # "dir"
        /\ sftp' = [sftp EXCEPT ![s].root_dir_read_done = FALSE,
                                ![s].handles[h] = PathOfOpenDir(v)]
        /\ reply' = Answer(s, "opendir", "ok", h, NoObj)
    BY <1>2 DEF OpenDir, Ask, Listing, Says
  <2>2. lease.phase = "open"
    OBVIOUS
  <2> HIDE DEF lease
  <2>3. /\ sftp'[s].root_dir_read_done = FALSE
        /\ \A t \in Sessions \ {s} : sftp'[t] = sftp[t]
    BY <2>1 DEF TypeOK, SessionTypeOK, SftpState
  <2>4. Disciplined => Tracks(FALSE, Idle, leases[s] \cup {lease})
    BY <2>1, <2>2, IdleKnows DEF Tracks
  <2>5. work' = [work EXCEPT ![s] = Idle]
    BY <2>1 DEF TypeOK, SessionTypeOK
  <2>6. leases' = [leases EXCEPT ![s] = leases[s] \cup {lease}]
    BY <2>1 DEF Grants
  <2>7. Local(s, FALSE, Idle, leases[s] \cup {lease})
    BY <2>3, <2>4, <2>5, <2>6, IdleKnows DEF Local
  <2>8. Plain(s)
    BY <2>1 DEF Plain, Answer
  <2>9. QED BY <2>7, <2>8, LocalKeeps, PlainTold
<1>3. QED BY <1>1, <1>2

LEMMA CloseKeeps ==
  ASSUME TypeOK, LInv, NEW s \in Sessions, NEW h, Close(s, h)
  PROVE  LInv' /\ Told
<1> DEFINE ls == {l \in leases[s] : l.h # h}
<1>1. /\ work[s] = Idle /\ UNCHANGED work
      /\ sftp' = [sftp EXCEPT ![s].handles[h] = Err]
      /\ leases' = [leases EXCEPT ![s] = ls]
      /\ reply' = Answer(s, "close", "ok", h, NoObj)
  BY DEF Close, Ask, Says
<1>2. /\ sftp'[s].root_dir_read_done = sftp[s].root_dir_read_done
      /\ \A t \in Sessions \ {s} : sftp'[t] = sftp[t]
  BY <1>1 DEF TypeOK, SessionTypeOK, SftpState
<1>3. ls \subseteq leases[s]
  OBVIOUS
<1> HIDE DEF ls
<1>4. Disciplined => Tracks(sftp[s].root_dir_read_done, Idle, ls)
  BY <1>1, <1>3, IdleKnows DEF LInv, FlagInv, Tracks
<1>5. work' = [work EXCEPT ![s] = Idle]
  BY <1>1 DEF TypeOK, SessionTypeOK
<1>6. Local(s, sftp[s].root_dir_read_done, Idle, ls)
  BY <1>1, <1>2, <1>4, <1>5, IdleKnows DEF Local
<1>7. Plain(s)
  BY <1>1 DEF Plain, Answer
<1>8. QED BY <1>6, <1>7, LocalKeeps, PlainTold
-----------------------------------------------------------------------------
(* Reading and writing.                                                    *)

\* What READ asks for was there when the size was taken; what was there at that
\* size is there unless the file has shrunk.
LEMMA ReadKeeps ==
  ASSUME TypeOK, LInv, NEW s \in Sessions, NEW h \in Ids, NEW off \in 0..MaxSize,
         NEW len \in Lens, ReadStart(s, h, off, len) \/ ReadFinish(s)
  PROVE  LInv' /\ Told
<1>1. CASE ReadStart(s, h, off, len)
  <2> DEFINE f == sftp[s].file_handles[h]
             w == [Idle EXCEPT !.op = "read", !.h = h, !.off = off,
                               !.len = len, !.file_size = size[f.obj]]
  <2>1. work[s].op = "idle"
    BY <1>1, IdleKnows DEF ReadStart, Ask
  <2>2. CASE Panic(s, "read", h)
    BY <2>1, <2>2, PanicKeeps
  <2>3. CASE Serves(Answer(s, "read", "eof", h, f.obj), NoEvent)
    BY <2>3, ServesKeeps
  <2>4. CASE /\ f # NoFile /\ ~AtEof(off, size[f.obj])
             /\ work' = [work EXCEPT ![s] = w]
             /\ Says(NoReply, NoEvent)
             /\ UNCHANGED <<sftp, leases>>
    <3>1. f \in File
      BY <2>4 DEF TypeOK, SessionTypeOK, SftpState
    <3>2. size[f.obj] \in Nat /\ off \in Nat
      BY <3>1, DiskAssumption DEF TypeOK, DiskTypeOK, File
    <3>3. w.op = "read" /\ w.off = off /\ w.file_size = size[f.obj]
      BY DEF Idle
    <3>4. Knows(w)
      BY <2>4, <3>2, <3>3 DEF AtEof, Knows
    <3> HIDE DEF w
    <3>5. LInv'
      BY <2>1, <2>4, <3>3, <3>4, BesideKeeps DEF AtListing
    <3>6. QED BY <2>4, <3>5, SilenceTold
  <2>5. QED BY <1>1, <2>2, <2>3, <2>4 DEF ReadStart
<1>2. CASE ReadFinish(s)
  <2> DEFINE g == work[s].h
             f == sftp[s].file_handles[g]
             none == work[s].len = 0 \/ work[s].off >= size[f.obj]
  <2>1. work[s].op = "read" /\ work[s].off < work[s].file_size
    BY <1>2 DEF ReadFinish, LInv, KnowsInv, Knows
  <2>2. CASE Dies(s, "read", g) \/ Unheard(s, "read", g)
    BY <2>1, <2>2, PanicKeeps, UnheardKeeps
  <2>3. CASE /\ Readable(s, g)
             /\ work' = [work EXCEPT ![s] = Idle]
             /\ reply' = [Answer(s, "read", "ok", g, f.obj) EXCEPT !.empty = none]
             /\ UNCHANGED <<sftp, leases>>
    <3>1. LInv'
      BY <2>1, <2>3, IdleKnows, BesideKeeps DEF AtListing
    <3>2. /\ reply'.to = s /\ reply'.op = "read" /\ reply'.st = "ok" /\ reply'.obj = f.obj
          /\ reply'.empty <=> none
      BY <2>3 DEF Answer
    <3>3. f.obj \in Objs
      BY <2>1, <2>3 DEF Readable, TypeOK, SessionTypeOK, SftpState, Work, File, NoFile
    <3>4. size[f.obj] \in Nat /\ work[s].off \in Nat /\ work[s].file_size \in Nat
      BY <3>3, DiskAssumption DEF TypeOK, DiskTypeOK, SessionTypeOK, Work
    <3> HIDE DEF f, g
    <3>5. Shrunk
      BY <2>1, <3>2, <3>4 DEF Shrunk
    <3>6. Overtaken /\ Streams
      BY <3>2 DEF Overtaken, Streams
    <3>7. QED BY <3>1, <3>5, <3>6 DEF Told
  <2>4. QED BY <1>2, <2>2, <2>3 DEF ReadFinish, Says
<1>3. QED BY <1>1, <1>2

LEMMA WriteKeeps ==
  ASSUME TypeOK, LInv, NEW s \in Sessions, NEW h, NEW off, NEW n, Write(s, h, off, n)
  PROVE  LInv' /\ Told
<1>1. work[s].op = "idle"
  BY IdleKnows DEF Write, Ask
<1>2. CASE Panic(s, "write", h) \/ Dies(s, "write", h)
  BY <1>1, <1>2, PanicKeeps
<1>3. CASE \/ \E o : Serves(Answer(s, "write", "eof", h, o), NoEvent)
           \/ \E o, ev : Logs(Answer(s, "write", "ok", h, o), ev)
  BY <1>3, ServesKeeps, LogsKeeps
<1>4. QED BY <1>2, <1>3 DEF Write, ShortWrite
-----------------------------------------------------------------------------
(* What a handler has seen is there until another session changes the tree. *)

LEMMA RealpathKeeps ==
  ASSUME TypeOK, LInv, NEW s \in Sessions,
         RealpathFinish(s) \/ \E v \in Requests : RealpathStart(s, v)
  PROVE  LInv' /\ Told
<1>1. ASSUME NEW v \in Requests, RealpathStart(s, v) PROVE LInv' /\ Told
  <2> DEFINE real == Resolve(Root, v)
             w == [Idle EXCEPT !.op = "realpath", !.real = real, !.seen = tree]
  <2>1. CASE \/ Serves(Answer(s, "realpath", "nosuchfile", 0, NoObj), NoEvent)
             \/ Unheard(s, "realpath", 0)
    BY <2>1, ServesKeeps, UnheardKeeps
  <2>2. CASE /\ Exists(At(real)) /\ work' = [work EXCEPT ![s] = w]
             /\ Says(NoReply, NoEvent) /\ UNCHANGED <<sftp, leases>>
    <3>1. w.op = "realpath" /\ w.real = real /\ w.seen = tree
      BY DEF Idle
    <3>2. Knows(w)
      BY <2>2, <3>1 DEF Knows, Exists
    <3> HIDE DEF w
    <3>3. work[s].op = "idle"
      BY <1>1, IdleKnows DEF RealpathStart, Ask
    <3>4. LInv'
      BY <2>2, <3>1, <3>2, <3>3, BesideKeeps DEF AtListing
    <3>5. QED BY <2>2, <3>4, SilenceTold
  <2>3. QED BY <1>1, <2>1, <2>2 DEF RealpathStart
<1>2. CASE RealpathFinish(s)
  <2> DEFINE real == work[s].real
  <2>1. work[s].op = "realpath" /\ At(real) \in Places /\ work[s].seen[At(real)] # NoObj
    BY <1>2 DEF RealpathFinish, LInv, KnowsInv, Knows
  <2>2. CASE /\ work' = [work EXCEPT ![s] = Idle] /\ UNCHANGED <<sftp, leases>>
             /\ reply' = Answer(s, "realpath", "ok", 0, tree[At(real)])
    <3>1. LInv'
      BY <2>1, <2>2, IdleKnows, BesideKeeps DEF AtListing
    <3>2. Plain(s)
      BY <2>2 DEF Plain, Answer
    <3>3. QED BY <3>1, <3>2, PlainTold
  <2>3. CASE Unheard(s, "realpath", 0)
    BY <2>3, UnheardKeeps
  <2>4. CASE ~(Exists(At(real)) /\ HasFileName(real)) /\ Dies(s, "realpath", 0)
    <3>1. LInv' /\ reply' = Answer(s, "realpath", "lost", 0, NoObj)
      BY <2>4, EndKeeps DEF Dies
    <3>2. reply'.to = s /\ reply'.op = "realpath" /\ reply'.st = "lost"
      BY <3>1 DEF Answer
    <3>3. HasFileName(real) => tree # work[s].seen
      BY <2>1, <2>4 DEF Exists
    <3>4. QED BY <2>1, <3>1, <3>2, <3>3 DEF Told, Shrunk, Overtaken, Streams
  <2>5. QED BY <1>2, <2>2, <2>3, <2>4 DEF RealpathFinish, Says
<1>3. QED BY <1>1, <1>2

\* A listing moves its own lease on, and there is no other.
LEMMA PhaseTracks ==
  ASSUME NEW ls \in SUBSET Lease, NEW w, NEW flag, Tracks(flag, w, ls), NEW h,
         \E l \in ls : l.kind = "dir" /\ l.h = h,
         NEW phase \in {"listed", "ended"}
  PROVE  Tracks(phase = "listed", Idle, Phase(ls, h, phase))
<1> DEFINE new == Phase(ls, h, phase)
<1>1. PICK d \in ls : d.kind = "dir" /\ d.h = h
  OBVIOUS
<1>2. ASSUME NEW k \in new, k.kind = "dir" PROVE k = [d EXCEPT !.phase = phase]
  <2>1. PICK l \in ls : k = IF l.h = h /\ l.kind = "dir" THEN [l EXCEPT !.phase = phase] ELSE l
    BY <1>2 DEF Phase
  <2>2. l.kind = "dir"
    BY <1>2, <2>1 DEF Lease
  <2>3. l = d
    BY <1>1, <2>2 DEF Tracks
  <2>4. QED BY <1>1, <2>1, <2>3
<1>3. [d EXCEPT !.phase = phase].phase = phase
  BY DEF Lease
<1> HIDE DEF new
<1>4. QED BY <1>2, <1>3, IdleKnows DEF Tracks, new

LEMMA ReaddirStartKeeps ==
  ASSUME TypeOK, MapsInv, LInv, NEW s \in Sessions, NEW h \in Ids, ReaddirStart(s, h)
  PROVE  LInv' /\ Told
<1> DEFINE flag == sftp[s].root_dir_read_done
           real == ToReal(Root, sftp[s].handles[h])
           w == [Idle EXCEPT !.op = "canonicalize", !.h = h, !.real = real]
<1>1. /\ work[s].op = "idle" /\ flag \in BOOLEAN /\ leases[s] \in SUBSET Lease
      /\ CheckReqDone(flag) = [flag |-> ~flag, done |-> flag]
  BY IdleKnows DEF ReaddirStart, Ask, TypeOK, SessionTypeOK, SftpState, CheckReqDone
<1>2. /\ Disciplined => Tracks(flag, work[s], leases[s])
      /\ Disciplined => \E l \in leases[s] : l.kind = "dir" /\ l.h = h /\ l.phase # "ended"
  <2>1. Disciplined => \E l \in leases[s] : l.kind = "dir" /\ l.h = h
    BY DEF ReaddirStart, Presents
  <2>2. Disciplined => \E l \in leases[s] : l.h = h /\ l.phase # "ended"
    BY DEF ReaddirStart
  <2>3. \A l, m \in leases[s] : l.h = m.h => l = m
    BY DEF MapsInv, Owned
  <2>4. QED BY <2>1, <2>2, <2>3 DEF LInv, FlagInv
<1>3. ASSUME sftp' = [sftp EXCEPT ![s].root_dir_read_done = ~flag]
      PROVE  /\ sftp'[s].root_dir_read_done = ~flag
             /\ \A t \in Sessions \ {s} : sftp'[t] = sftp[t]
  BY <1>3 DEF TypeOK, SessionTypeOK, SftpState
<1>4. CASE /\ flag /\ sftp' = [sftp EXCEPT ![s].root_dir_read_done = ~flag]
           /\ leases' = [leases EXCEPT ![s] = Phase(leases[s], h, "ended")]
           /\ reply' = Answer(s, "readdir", "eof", h, NoObj)
           /\ UNCHANGED work
  <2>1. Disciplined => Tracks(FALSE, Idle, Phase(leases[s], h, "ended"))
    BY <1>1, <1>2, PhaseTracks
  <2>2. work' = [work EXCEPT ![s] = Idle]
    BY <1>4 DEF ReaddirStart, Ask, TypeOK, SessionTypeOK
  <2>3. Local(s, FALSE, Idle, Phase(leases[s], h, "ended"))
    BY <1>3, <1>4, <2>1, <2>2, IdleKnows DEF Local
  <2>4. /\ reply'.to = s /\ reply'.op = "readdir" /\ reply'.st = "eof" /\ reply'.h = h
    BY <1>4 DEF Answer
  <2>5. Disciplined => \E l \in leases[s] : l.h = h /\ l.phase = "listed"
    BY <1>1, <1>2, <1>4 DEF Tracks, AtListing
  <2>6. Told
    BY <2>4, <2>5 DEF Told, Shrunk, Overtaken, Streams
  <2>7. QED BY <2>3, <2>6, LocalKeeps
<1>5. CASE /\ ~flag /\ sftp' = [sftp EXCEPT ![s].root_dir_read_done = ~flag]
           /\ work' = [work EXCEPT ![s] = w]
           /\ Says(NoReply, NoEvent)
           /\ UNCHANGED leases
  <2>1. w.op = "canonicalize" /\ w.h = h
    BY DEF Idle
  <2> HIDE DEF w
  <2>2. Knows(w) /\ AtListing(w) /\ ~AtListing(work[s])
    BY <1>1, <2>1 DEF Knows, AtListing
  <2>3. Disciplined => Tracks(TRUE, w, leases[s])
    BY <1>1, <1>2, <1>5, <2>1, <2>2 DEF Tracks, Lease
  <2>4. leases' = [leases EXCEPT ![s] = leases[s]]
    BY <1>5 DEF TypeOK, SessionTypeOK
  <2>5. Local(s, TRUE, w, leases[s])
    BY <1>3, <1>5, <2>2, <2>3, <2>4 DEF Local
  <2>6. QED BY <1>5, <2>5, LocalKeeps, SilenceTold
<1>6. CASE Dies(s, "readdir", h) \/ Unheard(s, "readdir", h)
  BY <1>1, <1>6, PanicKeeps, UnheardKeeps
<1>7. QED BY <1>1, <1>4, <1>5, <1>6 DEF ReaddirStart, Says

\* A listing goes on to w, and its flag and its lease stay.
LEMMA ListingKeeps ==
  ASSUME TypeOK, LInv, NEW s \in Sessions, NEW w, AtListing(work[s]), AtListing(w),
         w.h = work[s].h, Knows(w), work' = [work EXCEPT ![s] = w],
         Says(NoReply, NoEvent), UNCHANGED <<sftp, leases>>
  PROVE  LInv' /\ Told
<1>1. Disciplined => Tracks(sftp[s].root_dir_read_done, w, leases[s])
  BY DEF LInv, FlagInv, Tracks
<1>2. leases' = [leases EXCEPT ![s] = leases[s]]
  BY DEF TypeOK, SessionTypeOK
<1>3. Local(s, sftp[s].root_dir_read_done, w, leases[s])
  BY <1>1, <1>2 DEF Local
<1>4. QED BY <1>3, LocalKeeps, SilenceTold

LEMMA ReaddirOpens ==
  ASSUME TypeOK, LInv, NEW s \in Sessions, ReaddirOpen(s)
  PROVE  LInv' /\ Told
<1> DEFINE p == At(work[s].real)
           w == [work[s] EXCEPT !.op = "read_dir", !.dir = tree[p], !.seen = tree]
<1>1. work[s].op = "canonicalize" /\ work[s] \in Work
  BY DEF ReaddirOpen, TypeOK, SessionTypeOK
<1>2. CASE Dies(s, "readdir", work[s].h)
  BY <1>1, <1>2, PanicKeeps
<1>3. CASE ~Dies(s, "readdir", work[s].h)
  <2>1. /\ IsDir(p) /\ work' = [work EXCEPT ![s] = w]
        /\ Says(NoReply, NoEvent) /\ UNCHANGED <<sftp, leases>>
    BY <1>3 DEF ReaddirOpen
  <2>2. /\ w.op = "read_dir" /\ w.h = work[s].h /\ w.dir = tree[p] /\ w.seen = tree
        /\ w.real = work[s].real
    BY <1>1 DEF Work
  <2>3. p \in Places /\ tree[p] # NoObj
    BY <2>1 DEF IsDir, Exists
  <2> HIDE DEF w, p
  <2>4. At(w.real) = p
    BY <2>2 DEF p
  <2>5. Knows(w)
    BY <2>2, <2>3, <2>4 DEF Knows
  <2>6. AtListing(work[s]) /\ AtListing(w)
    BY <1>1, <2>2 DEF AtListing
  <2>7. QED BY <2>1, <2>2, <2>5, <2>6, ListingKeeps
<1>4. QED BY <1>2, <1>3

\* If the tree is as it was, the directory is where it was, and so are its entries.
LEMMA ReaddirNamesThem ==
  ASSUME TypeOK, LInv, NoLinks, NEW s \in Sessions, ReaddirNames(s)
  PROVE  LInv' /\ Told
<1> DEFINE at == At(work[s].real)
           listed == {c \in Places \ {<<>>} : Exists(c) /\ tree[Front(c)] = work[s].dir}
           names == {Append(at, Last(c)) : c \in listed}
           seen == IF work[s].seen = tree THEN work[s].seen ELSE NoTree
           w == [work[s] EXCEPT !.op = "readdir", !.dir = NoObj, !.seen = seen, !.todo = names]
<1>1. work[s].op = "read_dir" /\ work[s] \in Work
  BY DEF ReaddirNames, TypeOK, SessionTypeOK
<1>2. work' = [work EXCEPT ![s] = w] /\ Says(NoReply, NoEvent) /\ UNCHANGED <<sftp, leases>>
  BY DEF ReaddirNames
<1>3. w.op = "readdir" /\ w.h = work[s].h /\ w.seen = seen /\ w.todo = names
  BY <1>1 DEF Work
<1>4. at \in Places /\ work[s].dir # NoObj /\ work[s].seen[at] = work[s].dir
  BY <1>1 DEF LInv, KnowsInv, Knows
<1>5. ASSUME seen # NoTree, NEW n \in names PROVE n \in Places /\ seen[n] # NoObj
  <2>1. seen = tree /\ work[s].seen = tree
    BY <1>5
  <2>2. PICK c \in listed : n = Append(at, Last(c))
    BY <1>5
  <2>3. c \in Places /\ c # <<>> /\ tree[c] # NoObj /\ tree[Front(c)] = tree[at]
    BY <1>4, <2>1, <2>2 DEF Exists
  <2>4. Front(c) \in Places /\ c \in Seq(Name)
    BY <2>3, DiskAssumption
  <2>5. Front(c) = at
    BY <1>4, <2>1, <2>3, <2>4 DEF NoLinks
  <2>6. n = c
    BY <2>2, <2>3, <2>4, <2>5, AppendFront
  <2>7. QED BY <2>1, <2>3, <2>6
<1> HIDE DEF w, names, seen
<1>6. Knows(w)
  <2>1. w.seen # NoTree => \A c \in w.todo : c \in Places /\ w.seen[c] # NoObj
    BY <1>3, <1>5
  <2>2. QED BY <1>3, <2>1 DEF Knows
<1>7. AtListing(work[s]) /\ AtListing(w)
  BY <1>1, <1>3 DEF AtListing
<1>8. QED BY <1>2, <1>3, <1>6, <1>7, ListingKeeps

LEMMA ReaddirGoesOn ==
  ASSUME TypeOK, LInv, NEW s \in Sessions, ReaddirEntry(s) \/ ReaddirFinish(s)
  PROVE  LInv' /\ Told
<1> DEFINE w == work[s]
           flag == sftp[s].root_dir_read_done
<1>1. /\ w.op = "readdir" /\ w \in Work /\ leases[s] \in SUBSET Lease
      /\ Knows(w) /\ (Disciplined => Tracks(flag, w, leases[s]))
  BY DEF ReaddirEntry, ReaddirFinish, TypeOK, SessionTypeOK, LInv, KnowsInv, FlagInv
<1>2. ASSUME NEW c \in w.todo, work' = [work EXCEPT ![s].todo = @ \ {c}],
             Says(NoReply, NoEvent), UNCHANGED <<sftp, leases>>
      PROVE  LInv' /\ Told
  <2> DEFINE new == [w EXCEPT !.todo = @ \ {c}]
  <2>1. /\ new.op = "readdir" /\ new.h = w.h /\ new.todo \subseteq w.todo /\ new.seen = w.seen
    BY <1>1 DEF Work
  <2>2. work' = [work EXCEPT ![s] = new]
    BY <1>2 DEF TypeOK, SessionTypeOK
  <2> HIDE DEF new
  <2>3. Knows(new)
    BY <1>1, <2>1 DEF Knows
  <2>4. AtListing(work[s]) /\ AtListing(new)
    BY <1>1, <2>1 DEF AtListing
  <2>5. QED BY <1>2, <2>1, <2>2, <2>3, <2>4, ListingKeeps
<1>3. ASSUME NEW c \in w.todo, ~Exists(EntryPath(c)), Dies(s, "readdir", w.h)
      PROVE  LInv' /\ Told
  <2>1. LInv' /\ reply' = Answer(s, "readdir", "lost", w.h, NoObj)
    BY <1>3, EndKeeps DEF Dies
  <2>2. reply'.to = s /\ reply'.op = "readdir" /\ reply'.st = "lost"
    BY <2>1 DEF Answer
  <2>3. tree # w.seen
    BY <1>1, <1>3, TreeIsOne DEF Knows, Exists, EntryPath, TypeOK
  <2>4. QED BY <2>1, <2>2, <2>3 DEF Told, Shrunk, Overtaken, Streams
<1>4. CASE /\ work' = [work EXCEPT ![s] = Idle] /\ UNCHANGED sftp
           /\ leases' = [leases EXCEPT ![s] = Phase(leases[s], w.h, "listed")]
           /\ reply' = Answer(s, "readdir", "ok", w.h, NoObj)
  <2>1. Disciplined => \E l \in leases[s] : l.kind = "dir" /\ l.h = w.h /\ l.phase = "open" /\ flag
    BY <1>1 DEF Tracks, AtListing
  <2>2. Disciplined => Tracks(TRUE, Idle, Phase(leases[s], w.h, "listed"))
    BY <1>1, <2>1, PhaseTracks
  <2>3. Disciplined => (flag <=> TRUE)
    BY <2>1
  <2>4. Local(s, flag, Idle, Phase(leases[s], w.h, "listed"))
    BY <1>4, <2>2, <2>3, IdleKnows DEF Local
  <2>5. /\ reply'.to = s /\ reply'.op = "readdir" /\ reply'.st = "ok" /\ reply'.h = w.h
    BY <1>4 DEF Answer
  <2>6. Told
    BY <2>1, <2>5 DEF Told, Shrunk, Overtaken, Streams
  <2>7. QED BY <2>4, <2>6, LocalKeeps
<1>5. QED BY <1>2, <1>3, <1>4, UnheardKeeps DEF ReaddirEntry, ReaddirFinish, Panic, Says
-----------------------------------------------------------------------------
LEMMA StepTold ==
  ASSUME IInv, LInv, NoLinks, [Next]_vars
  PROVE  LInv' /\ NoLinks' /\ (Told \/ UNCHANGED vars)
<1>1. TypeOK /\ MapsInv
  BY DEF IInv
<1>2. CASE UNCHANGED vars
  <2>1. LInv'
    BY <1>2, AllKept DEF vars, session
  <2>2. NoLinks'
    BY <1>2 DEF vars, disk, NoLinks
  <2>3. QED BY <1>2, <2>1, <2>2
<1>3. ASSUME NEW s \in Sessions, Connect(s) \/ Disconnect(s) \/ Request(s) \/ Advance(s)
      PROVE  LInv' /\ Told
  <2>1. CASE Connect(s) \/ Disconnect(s) \/ FxpInit(s)
    BY <1>1, <2>1, SessionsKeep
  <2>2. CASE Advance(s)
    BY <1>1, <2>2, ReadKeeps, ReaddirOpens, ReaddirNamesThem, ReaddirGoesOn, RealpathKeeps,
       ConstantFacts DEF Advance, Lens
  <2>3. CASE \E v \in Requests, f \in FlagSets, id \in Ids : Open(s, v, f, id)
    BY <1>1, <2>3, OpenKeeps
  <2>4. CASE \/ \E v \in Requests, id \in Ids : OpenDir(s, v, id)
             \/ \E v \in Requests : RealpathStart(s, v)
    BY <1>1, <2>4, OpenDirKeeps, RealpathKeeps
  <2>5. CASE \/ \E v \in Requests : \/ Lstat(s, v) \/ Stat(s, v) \/ FxpRemove(s, v)
                                    \/ Mkdir(s, v) \/ Rmdir(s, v)
             \/ \E v, w \in Requests : FxpRename(s, v, w)
             \/ \E h \in Ids : Fstat(s, h)
             \/ Setstat(s)
    BY <1>1, <2>5, PathsKeep
  <2>6. CASE \E h \in Ids : Close(s, h) \/ ReaddirStart(s, h)
    BY <1>1, <2>6, CloseKeeps, ReaddirStartKeeps
  <2>7. CASE \E h \in Ids, off \in 0..MaxSize, len \in Lens : ReadStart(s, h, off, len)
    BY <1>1, <2>7, ReadKeeps
  <2>8. CASE \E h \in Ids, off \in 0..MaxSize, n \in 1..MaxSize : Write(s, h, off, n)
    BY <1>1, <2>8, WriteKeeps
  <2>9. QED BY <1>3, <2>1, <2>2, <2>3, <2>4, <2>5, <2>6, <2>7, <2>8 DEF Request
<1>4. NoLinks'
  BY <1>1, NoLinksKept DEF TypeOK
<1>5. QED BY <1>2, <1>3, <1>4 DEF Next

LEMMA InitTold == Init => LInv /\ NoLinks
BY IdleKnows, DiskAssumption DEF Init, InitDisk, LInv, KnowsInv, FlagInv, Tracks, NoLinks

(* A READ that asked for bytes and is answered with none means that the    *)
(* file shrank after its size was compared with the offset                 *)
(* (sftp_server.rs:262-269).                                               *)
THEOREM EmptyReadOnlyIfShrunkTheorem == Spec => EmptyReadOnlyIfShrunk
<1>1. IInv /\ LInv /\ NoLinks /\ [Next]_vars => LInv' /\ NoLinks'
  BY StepTold
<1>2. IInv /\ LInv /\ NoLinks /\ [Next]_vars =>
        [\A s \in Sessions :
           /\ reply'.to = s /\ reply'.op = "read" /\ reply'.st = "ok" /\ reply'.empty
           /\ work[s].len # 0
           => size[reply'.obj] < work[s].file_size]_vars
  BY StepTold DEF Told, Shrunk
<1>3. QED BY <1>1, <1>2, InitTold, IInvInvariant, PTL DEF Spec, EmptyReadOnlyIfShrunk

(* A listing that has opened its directory, or a realpath that has found a *)
(* path with a file name, panics before its audit event only if the tree   *)
(* has changed under it (sftp_server.rs:355-364, 416-420).                 *)
THEOREM OvertakenOnlyTheorem == Spec => OvertakenOnly
<1>1. IInv /\ LInv /\ NoLinks /\ [Next]_vars => LInv' /\ NoLinks'
  BY StepTold
<1>2. IInv /\ LInv /\ NoLinks /\ [Next]_vars =>
        [\A s \in Sessions :
           /\ reply'.to = s /\ reply'.st = "lost"
           /\ \/ work[s].op = "readdir"
              \/ work[s].op = "realpath" /\ HasFileName(work[s].real)
           => tree # work[s].seen]_vars
  BY StepTold DEF Told, Overtaken
<1>3. QED BY <1>1, <1>2, InitTold, IInvInvariant, PTL DEF Spec, OvertakenOnly

(* To clients that list one directory at a time a directory handle is one  *)
(* listing and then Eof: the session's one flag is the flag of that        *)
(* listing (sftp_server.rs:131-141, 328, 345).                             *)
THEOREM OneListingThenEofTheorem ==
  ASSUME Disciplined
  PROVE  Spec => OneListingThenEof
<1>1. IInv /\ LInv /\ NoLinks /\ [Next]_vars => LInv' /\ NoLinks'
  BY StepTold
<1>2. IInv /\ LInv /\ NoLinks /\ [Next]_vars =>
        [reply'.op = "readdir" =>
           /\ reply'.st = "ok" =>
                \E l \in leases[reply'.to] : l.h = reply'.h /\ l.phase = "open"
           /\ reply'.st = "eof" =>
                \E l \in leases[reply'.to] : l.h = reply'.h /\ l.phase = "listed"]_vars
  BY StepTold DEF Told, Streams
<1>3. QED BY <1>1, <1>2, InitTold, IInvInvariant, PTL DEF Spec, OneListingThenEof
-----------------------------------------------------------------------------
(* FSTAT under a root without a file name.                                 *)

\* A file that is held was there when it was opened.
HeldFiles == \A s \in Sessions : \A l \in leases[s] : l.kind = "file" => l.obj \in Objs

LEMMA OpenHolds ==
  ASSUME TypeOK, NEW s \in Sessions, NEW v, NEW f, NEW id, Open(s, v, f, id),
         NEW t \in Sessions, NEW l \in leases'[t]
  PROVE  l \in leases[t] \/ l.obj \in Objs
<1> DEFINE o == tree'[At(Resolve(Root, v))]
           lease == [h |-> HandleOf(id), kind |-> "file", path |-> v, obj |-> o, phase |-> "open"]
<1>1. CASE Panic(s, "open", 0) \/ Unheard(s, "open", 0)
  BY <1>1 DEF Panic, Dies, Unheard, DiesOf, Reset, TypeOK, SessionTypeOK
<1>2. CASE OpensOnDisk(At(Resolve(Root, v)), f) /\ OpensInSession(s, v, f, id)
  <2>1. o \in Objs /\ lease.obj = o
    BY <1>2, OpensOnDiskTypes DEF TypeOK
  <2>2. Grants(s, lease)
    BY <1>2 DEF OpensInSession
  <2> HIDE DEF lease
  <2>3. QED BY <2>1, <2>2 DEF Grants, TypeOK, SessionTypeOK
<1>3. QED BY <1>1, <1>2, OpenWays

\* No other step gives a file out.
LEMMA LeasesMove ==
  ASSUME TypeOK, TypeOK', [Next]_vars, NEW t \in Sessions, NEW l \in leases'[t], l.kind = "file"
  PROVE  l \in leases[t] \/ l.obj \in Objs
<1>1. ASSUME NEW s \in Sessions, NEW op, NEW h, Dies(s, op, h) \/ Unheard(s, op, h)
      PROVE  l \in leases[t]
  BY <1>1 DEF Dies, Unheard, DiesOf, Reset, TypeOK, SessionTypeOK
<1>2. ASSUME NEW s \in Sessions, NEW h, NEW phase,
             leases' = [leases EXCEPT ![s] = Phase(leases[s], h, phase)]
      PROVE  l \in leases[t]
  <2>1. ASSUME NEW ls \in SUBSET Lease, l \in Phase(ls, h, phase) PROVE l \in ls
    BY <2>1 DEF Phase, Lease
  <2>2. QED BY <1>2, <2>1 DEF TypeOK, SessionTypeOK
<1>3. CASE UNCHANGED leases
  BY <1>3
<1>4. ASSUME NEW s \in Sessions, Connect(s) \/ Disconnect(s) \/ FxpInit(s) PROVE l \in leases[t]
  BY <1>1, <1>3, <1>4 DEF Connect, Disconnect, FxpInit, Reset, Serves, session, TypeOK, SessionTypeOK
<1>5. ASSUME NEW s \in Sessions, NEW v, NEW id, OpenDir(s, v, id) PROVE l \in leases[t]
  BY <1>1, <1>5 DEF OpenDir, Grants, TypeOK, SessionTypeOK
<1>6. ASSUME NEW s \in Sessions, NEW h, Close(s, h) PROVE l \in leases[t]
  BY <1>6 DEF Close, TypeOK, SessionTypeOK
<1>7. ASSUME NEW s \in Sessions, NEW v, NEW w, NEW h, NEW off, NEW len, NEW n,
             \/ Lstat(s, v) \/ Stat(s, v) \/ Setstat(s) \/ FxpRemove(s, v) \/ Mkdir(s, v)
             \/ Rmdir(s, v) \/ FxpRename(s, v, w) \/ Fstat(s, h) \/ ReadStart(s, h, off, len)
             \/ ReadFinish(s) \/ RealpathStart(s, v) \/ RealpathFinish(s) \/ Write(s, h, off, n)
      PROVE  l \in leases[t]
  <2>1. UNCHANGED leases \/ \E op, g : Dies(s, op, g) \/ Unheard(s, op, g)
    BY <1>7 DEF Lstat, Stat, Setstat, FxpRemove, Mkdir, Rmdir, FxpRename, Fstat, ReadStart,
                ReadFinish, RealpathStart, RealpathFinish, Write, ShortWrite, Panic, Serves, Logs,
                Answer, session
  <2>2. QED BY <1>1, <1>3, <2>1
<1>8. ASSUME NEW s \in Sessions, NEW h, \/ ReaddirStart(s, h) \/ ReaddirOpen(s) \/ ReaddirNames(s)
                                  \/ ReaddirEntry(s) \/ ReaddirFinish(s)
      PROVE  l \in leases[t]
  <2>1. \/ UNCHANGED leases \/ \E op, g : Dies(s, op, g) \/ Unheard(s, op, g)
        \/ \E g, phase : leases' = [leases EXCEPT ![s] = Phase(leases[s], g, phase)]
    BY <1>8 DEF ReaddirStart, ReaddirOpen, ReaddirNames, ReaddirEntry, ReaddirFinish, Panic
  <2>2. QED BY <1>1, <1>2, <1>3, <2>1
<1>9. CASE UNCHANGED vars
  BY <1>3, <1>9 DEF vars, session
<1>10. QED
  BY <1>4, <1>5, <1>6, <1>7, <1>8, <1>9, OpenHolds DEF Next, Request, Advance

LEMMA HeldFilesInvariant == Spec => []HeldFiles
<1>1. Init => HeldFiles
  BY DEF Init, HeldFiles
<1>2. IInv /\ IInv' /\ HeldFiles /\ [Next]_vars => HeldFiles'
  BY LeasesMove DEF HeldFiles, IInv
<1>3. QED BY <1>1, <1>2, IInvInvariant, PTL DEF Spec

\* Only its handler answers FSTAT.
LEMMA WhoAnswers ==
  ASSUME [Next]_vars, reply'.op = "fstat"
  PROVE  UNCHANGED vars \/ \E s \in Sessions, h \in Ids : Fstat(s, h)
<1>1. ASSUME NEW s, NEW op, NEW h, Dies(s, op, h) \/ Unheard(s, op, h) \/ Panic(s, op, h)
      PROVE  op = reply'.op
  BY <1>1 DEF Panic, Dies, Unheard, DiesOf, Says, Answer
<1>2. ASSUME NEW s, NEW op, NEW st, NEW h, NEW o, NEW ev,
             \/ Serves(Answer(s, op, st, h, o), ev) \/ Says(Answer(s, op, st, h, o), ev)
             \/ Logs(Answer(s, op, st, h, o), ev)
      PROVE  op = reply'.op
  BY <1>2 DEF Serves, Logs, Unheard, DiesOf, Says, Answer
<1>3. \A ev : ~Says(NoReply, ev)
  BY DEF Says, NoReply
<1>4. ASSUME NEW s, Connect(s) \/ Disconnect(s) \/ FxpInit(s) PROVE FALSE
  BY <1>1, <1>2, <1>3, <1>4 DEF Connect, Disconnect, FxpInit
<1>5. ASSUME NEW s, NEW v, NEW f, NEW id, Open(s, v, f, id) PROVE FALSE
  BY <1>1, <1>2, <1>5, OpenWays DEF OpensInSession
<1>6. ASSUME NEW s, NEW v, NEW w, NEW h,
             \/ OpenDir(s, v, h) \/ Close(s, h) \/ Lstat(s, v) \/ Stat(s, v)
             \/ Setstat(s) \/ FxpRemove(s, v) \/ Mkdir(s, v) \/ Rmdir(s, v) \/ FxpRename(s, v, w)
      PROVE  FALSE
  BY <1>1, <1>2, <1>6 DEF OpenDir, Close, Lstat, Stat, Setstat, FxpRemove, Mkdir, Rmdir, FxpRename
<1>7. ASSUME NEW s, NEW v, NEW h, NEW off, NEW len, NEW n,
             \/ ReadStart(s, h, off, len) \/ Write(s, h, off, n) \/ ReaddirStart(s, h)
             \/ RealpathStart(s, v)
      PROVE  FALSE
  <2>1. CASE ReadStart(s, h, off, len) \/ ReaddirStart(s, h) \/ RealpathStart(s, v)
    BY <1>1, <1>2, <1>3, <2>1 DEF ReadStart, ReaddirStart, RealpathStart
  <2>2. CASE Write(s, h, off, n)
    BY <1>1, <1>2, <2>2 DEF Write, ShortWrite
  <2>3. QED BY <1>7, <2>1, <2>2
<1>8. ASSUME NEW s, Advance(s) PROVE FALSE
  <2>1. CASE ReadFinish(s)
    BY <1>1, <2>1 DEF ReadFinish, Says, Answer
  <2>2. CASE ReaddirOpen(s) \/ ReaddirNames(s) \/ ReaddirEntry(s)
    BY <1>1, <1>3, <2>2 DEF ReaddirOpen, ReaddirNames, ReaddirEntry
  <2>3. CASE ReaddirFinish(s) \/ RealpathFinish(s)
    BY <1>1, <1>2, <2>3 DEF ReaddirFinish, RealpathFinish
  <2>4. QED BY <1>8, <2>1, <2>2, <2>3 DEF Advance
<1>9. QED BY <1>4, <1>5, <1>6, <1>7, <1>8 DEF Next, Request

(* Under a root without a file name FSTAT of an open file whose path still *)
(* leads to it answers with that file's attributes, although the handler   *)
(* resolves the stored real path once more (sftp_server.rs:195-196,        *)
(* 221-241, fs.rs:39-57).                                                  *)
THEOREM FstatFaithfulTheorem ==
  ASSUME ~HasFileName(Resolve(Root, <<RootDir>>))
  PROVE  Spec => FstatFaithful
<1>1. ASSUME IInv, HeldFiles, NEW s \in Sessions, NEW h \in Ids, Fstat(s, h),
             reply'.st # "unheard",
             NEW l \in leases[s], l.kind = "file", l.h = h, tree[Tail(l.path)] = l.obj
      PROVE  reply'.st = "ok" /\ reply'.obj = l.obj
  <2>1. l.obj \in Objs /\ l \in Lease /\ l.path \in Requests /\ Denotes(sftp[s], l)
    BY <1>1 DEF HeldFiles, IInv, TypeOK, SessionTypeOK, Lease, MapsInv, Owned
  <2>2. Root \in Roots /\ l.path \in Path /\ Tail(l.path) \in Places
    BY <2>1, RequestPaths, SessionAssumption
  <2>3. sftp[s].handles[h] = Resolve(Root, l.path) /\ sftp[s].handles[h] # Err
    BY <1>1, <2>1, RequestPaths DEF Denotes
  <2>4. Resolve(Root, sftp[s].handles[h]) = Resolve(Root, l.path)
    BY <2>2, <2>3, ResolveTwicePlain, SessionAssumption
  <2>5. Body(l.path) = Tail(l.path)
    <3>1. l.path = <<RootDir>> \o Tail(l.path) /\ Tail(l.path) \in Seq(Name)
      BY <2>1, RequestPaths, DiskAssumption
    <3>2. l.path # <<>> /\ Head(l.path) = RootDir
      <4>1. <<RootDir>> \in Seq({RootDir} \cup Name) /\ Tail(l.path) \in Seq({RootDir} \cup Name)
        BY <3>1, SeqMonotonic
      <4>2. Len(l.path) = 1 + Len(Tail(l.path)) /\ l.path[1] = RootDir /\ l.path # <<>>
        BY <3>1, <4>1, ConcatProperties, LenProperties
      <4>3. QED BY <4>2
    <3>3. QED BY <3>2 DEF Body
  <2>6. At(Resolve(Root, l.path)) = Tail(l.path)
    BY <2>2, <2>5, ResolveAppends DEF At
  <2>7. Exists(At(Resolve(Root, sftp[s].handles[h])))
    BY <1>1, <2>1, <2>2, <2>4, <2>6, ConstantFacts DEF Exists
  <2>8. Says(Answer(s, "fstat", "ok", h, tree[Tail(l.path)]),
             Log("Fstat", Resolve(Root, l.path)))
    BY <1>1, <2>3, <2>4, <2>6, <2>7 DEF Fstat, Logs, Serves, Unheard, DiesOf, Says, Answer
  <2>9. QED BY <1>1, <2>8 DEF Says, Answer
<1>2. ASSUME IInv, HeldFiles, [Next]_vars
      PROVE  [reply'.op = "fstat" /\ reply'.st # "unheard" =>
                \A l \in leases[reply'.to] :
                  l.kind = "file" /\ l.h = reply'.h /\ tree[Tail(l.path)] = l.obj
                  => reply'.st = "ok" /\ reply'.obj = l.obj]_vars
  <2>1. ASSUME NEW s \in Sessions, NEW h \in Ids, Fstat(s, h)
        PROVE  reply'.to = s /\ reply'.h = h
    BY <2>1 DEF Fstat, Logs, Serves, Panic, Dies, Unheard, DiesOf, Says, Answer
  <2>2. QED BY <1>1, <1>2, <2>1, WhoAnswers
<1>3. QED BY <1>2, IInvInvariant, HeldFilesInvariant, PTL DEF Spec, FstatFaithful

=============================================================================
