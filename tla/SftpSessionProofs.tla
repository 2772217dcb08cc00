------------------------- MODULE SftpSessionProofs -------------------------
(***************************************************************************)
(* Theorems about the SFTP sessions, for any number of sessions, any root, *)
(* any disk and any clients.                                               *)
(***************************************************************************)
EXTENDS SftpSession, PathLemmas, FunctionTheorems

(* The constants, as the provers want to see them.                         *)
LEMMA ConstantFacts ==
  /\ IdSpace \in Nat /\ IdSpace > 0 /\ Ops \subseteq Handlers
  /\ 0 \in Ids /\ MaxSize \in Nat /\ 0 \in 0..MaxSize
  /\ Ids \subseteq Nat
  /\ NoObj \notin Objs
  BY SessionAssumption, DiskAssumption DEF Ids

(* What a request names is a path, and so is what it resolves to.          *)
LEMMA RequestPaths ==
  ASSUME NEW v \in Requests
  PROVE  /\ v \in Path /\ Tail(v) \in Places /\ v = <<RootDir>> \o Tail(v)
         /\ Resolve(Root, v) \in Path /\ Resolve(Root, v) # Err
         /\ Join(CwdOffset, v) = v /\ v # Err
<1>1. PICK p \in Places : v = <<RootDir>> \o p
  BY DEF Requests
<1>2. p \in Seq(Name) /\ p \in Seq(Component) /\ <<RootDir>> \in Seq(Component)
  <2>1. Name \subseteq Component /\ RootDir \in Component
    BY DEF Component, Part
  <2>2. p \in Seq(Name)
    BY DiskAssumption
  <2>3. QED BY <2>1, <2>2, SeqMonotonic
<1>3. /\ v \in Seq(Component) /\ Len(v) = 1 + Len(p) /\ Len(p) \in Nat
      /\ \A i \in 1..(1 + Len(p)) : v[i] = IF i <= 1 THEN RootDir ELSE p[i - 1]
  BY <1>1, <1>2, ConcatProperties, LenProperties
<1>4. v \in Path
  <2>1. \A j \in 1..Len(p) : p[j] \in Part
    BY <1>2, ElementOfSeq DEF Part
  <2>2. ASSUME NEW i \in 2..Len(v) PROVE v[i] \in Part
    <3>1. i - 1 \in 1..Len(p) /\ v[i] = p[i - 1]
      BY <1>3
    <3>2. QED BY <2>1, <3>1
  <2>3. QED BY <1>3, <2>2 DEF Path, Component
<1>5. v # <<>> /\ Head(v) = RootDir
  <2>1. Len(v) # 0
    BY <1>3
  <2>2. v # <<>>
    BY <1>3, <2>1, EmptyIffLenZero, Zenon
  <2>3. QED BY <1>3, <2>2
<1>6. Tail(v) = p
  BY <1>1, <1>2
<1>7. Resolve(Root, v) \in Path /\ Resolve(Root, v) # Err
  BY <1>4, ResolveAppends, SessionAssumption DEF Roots, Err
<1>8. Join(CwdOffset, v) = v
  BY <1>5 DEF Join, IsAbs
<1>9. QED BY <1>1, <1>4, <1>5, <1>6, <1>7, <1>8 DEF Err
-----------------------------------------------------------------------------
(* Types.                                                                  *)

LEMMA InitialTypes ==
  /\ Err \in Path /\ NoFile \in File \cup {NoFile}
  /\ NewSession \in SftpState /\ Idle \in Work
  /\ NoReply \in Reply /\ NoEvent \in Event
<1>1. Err \in Path
  <2>1. <<>> \in Seq(Part \cup {RootDir, CurDir}) /\ Len(<<>>) = 0
    BY EmptySeq
  <2>2. QED BY <2>1 DEF Path, Err
<1>2. NewSession \in SftpState
  BY <1>1 DEF NewSession, SftpState
<1>3. Idle \in Work
  BY <1>1, ConstantFacts DEF Idle, Work, Lens, NoTree
<1>4. NoReply \in Reply
  BY ConstantFacts DEF NoReply, Reply, Answers
<1>5. NoEvent \in Event
  BY <1>1 DEF NoEvent, Event
<1>6. QED BY <1>1, <1>2, <1>3, <1>4, <1>5

LEMMA AnswerType ==
  ASSUME NEW s \in Sessions, NEW op \in Handlers, NEW st \in Answers, NEW h \in Ids,
         NEW o \in Objs \cup {NoObj}
  PROVE  Answer(s, op, st, h, o) \in Reply
  BY DEF Answer, Reply

LEMMA LogType ==
  ASSUME NEW a \in Actions, NEW p \in Path
  PROVE  Log(a, p) \in Event
  BY DEF Log, Event

LEMMA DiesTypes ==
  ASSUME SessionTypeOK, NEW s \in Sessions, NEW op \in Handlers, NEW h \in Ids,
         Dies(s, op, h) \/ Unheard(s, op, h)
  PROVE  SessionTypeOK' /\ SaysTypeOK'
<1>1. PICK st \in {"lost", "unheard"} : DiesOf(s, op, st, h)
  BY DEF Dies, Unheard
<1>2. Answer(s, op, st, h, NoObj) \in Reply
  BY AnswerType DEF Answers
<1>3. SaysTypeOK'
  BY <1>1, <1>2, InitialTypes DEF DiesOf, Says, SaysTypeOK
<1>4. SessionTypeOK'
  BY <1>1, InitialTypes, ConstantFacts DEF DiesOf, Reset, SessionTypeOK
<1>5. QED BY <1>3, <1>4

LEMMA CreateTypes ==
  ASSUME DiskTypeOK, NEW p \in Places, NEW k \in {"file", "dir"}, NEW held,
         Free(held) # {}, Create(p, k, held)
  PROVE  DiskTypeOK' /\ tree'[p] \in Objs
<1> DEFINE o == CHOOSE x \in Free(held) : TRUE
<1>1. o \in Objs
  BY DEF Free
<1> HIDE DEF o
<1>2. /\ tree' = [tree EXCEPT ![p] = o]
      /\ kind' = [kind EXCEPT ![o] = k]
      /\ size' = [size EXCEPT ![o] = 0]
  BY DEF Create, o
<1>3. QED BY <1>1, <1>2, ConstantFacts DEF DiskTypeOK

LEMMA UnlinkTypes ==
  ASSUME DiskTypeOK, NEW p, Unlink(p)
  PROVE  DiskTypeOK'
  BY DEF DiskTypeOK, Unlink

LEMMA RenameTypes ==
  ASSUME DiskTypeOK, NEW from, NEW to, Rename(from, to)
  PROVE  DiskTypeOK'
  BY DEF DiskTypeOK, Rename

(* What is found in the maps of a session.                                 *)
LEMMA FileTypes ==
  ASSUME SessionTypeOK, NEW s \in Sessions, NEW h \in Ids
  PROVE  /\ sftp[s].handles[h] \in Path
         /\ sftp[s].file_handles[h] \in File \cup {NoFile}
         /\ sftp[s].file_handles[h] # NoFile => sftp[s].file_handles[h].obj \in Objs
         /\ sftp[s].file_handles[h].obj \in Objs \cup {NoObj}
         /\ sftp[s].file_handles[h].flags \subseteq Flags
<1>1. sftp[s] \in SftpState
  BY DEF SessionTypeOK
<1>2. sftp[s].handles[h] \in Path /\ sftp[s].file_handles[h] \in File \cup {NoFile}
  BY <1>1 DEF SftpState
<1> DEFINE f == sftp[s].file_handles[h]
<1> HIDE DEF f
<1>3. ASSUME f \in File \cup {NoFile}
      PROVE  /\ f # NoFile => f.obj \in Objs
             /\ f.obj \in Objs \cup {NoObj}
             /\ f.flags \subseteq Flags
  BY <1>3 DEF File, NoFile
<1>4. QED BY <1>2, <1>3 DEF f

LEMMA LookupTypes ==
  ASSUME DiskTypeOK, NEW p, Exists(p)
  PROVE  p \in Places /\ tree[p] \in Objs
  BY DEF DiskTypeOK, Exists
-----------------------------------------------------------------------------
(* Every action keeps the types.                                           *)

LEMMA EndTypes ==
  ASSUME TypeOK, NEW s \in Sessions, NEW op \in Handlers, NEW h \in Ids,
         Dies(s, op, h) \/ Unheard(s, op, h), DiskTypeOK' \/ UNCHANGED disk
  PROVE  TypeOK'
<1>1. SessionTypeOK' /\ SaysTypeOK'
  BY DiesTypes DEF TypeOK
<1>2. DiskTypeOK'
  BY DEF TypeOK, DiskTypeOK, disk
<1>3. QED BY <1>1, <1>2 DEF TypeOK

LEMMA PanicTypes ==
  ASSUME TypeOK, NEW s \in Sessions, NEW op \in Handlers, NEW h \in Ids, Panic(s, op, h)
  PROVE  TypeOK'
  BY EndTypes DEF Panic

(* A handler that changes the disk at most.                                *)
LEMMA ServesTypes ==
  ASSUME TypeOK, DiskTypeOK', NEW r \in Reply, NEW ev \in Event, Serves(r, ev)
  PROVE  TypeOK'
  BY DEF Serves, Says, session, TypeOK, SessionTypeOK, SaysTypeOK

LEMMA LogsTypes ==
  ASSUME TypeOK, DiskTypeOK', NEW s \in Sessions, NEW op \in Handlers, NEW h \in Ids,
         NEW o \in Objs \cup {NoObj}, NEW ev \in Event, Logs(Answer(s, op, "ok", h, o), ev)
  PROVE  TypeOK'
<1>1. Answer(s, op, "ok", h, o) \in Reply
  BY AnswerType DEF Answers
<1>2. Serves(Answer(s, op, "ok", h, o), ev) \/ Unheard(s, op, h)
  BY DEF Logs, Answer
<1>3. QED BY <1>1, <1>2, ServesTypes, EndTypes

LEMMA ConnectTypes ==
  ASSUME TypeOK, NEW s \in Sessions, Connect(s) \/ Disconnect(s) \/ FxpInit(s)
  PROVE  TypeOK'
<1>1. CASE Connect(s)
  BY <1>1, InitialTypes
     DEF Connect, Says, TypeOK, DiskTypeOK, disk, SessionTypeOK, SaysTypeOK
<1>2. CASE Disconnect(s)
  <2>1. DiskTypeOK' /\ SaysTypeOK'
    BY <1>2, InitialTypes DEF Disconnect, Says, TypeOK, DiskTypeOK, disk, SaysTypeOK
  <2>2. SessionTypeOK'
    BY <1>2, InitialTypes, ConstantFacts DEF Disconnect, Reset, TypeOK, SessionTypeOK
  <2>3. QED BY <2>1, <2>2 DEF TypeOK
<1>3. CASE FxpInit(s)
  <2>1. "init" \in Handlers
    BY DEF Handlers
  <2>2. \A st \in Answers : Answer(s, "init", st, 0, NoObj) \in Reply
    BY <2>1, AnswerType, ConstantFacts
  <2>3. CASE Unheard(s, "init", 0) /\ UNCHANGED disk
    BY <2>1, <2>3, EndTypes, ConstantFacts
  <2>4. CASE /\ sftp' = [sftp EXCEPT ![s].version = TRUE]
             /\ Says(Answer(s, "init", "ok", 0, NoObj), NoEvent)
             /\ UNCHANGED <<disk, alive, work, leases>>
    <3>1. sftp' \in [Sessions -> SftpState]
      BY <2>4 DEF TypeOK, SessionTypeOK, SftpState
    <3>2. QED
      BY <2>2, <2>4, <3>1, InitialTypes
         DEF Says, TypeOK, DiskTypeOK, disk, SessionTypeOK, SaysTypeOK, Answers
  <2>5. CASE Serves(Answer(s, "init", "connectionlost", 0, NoObj), NoEvent) /\ UNCHANGED disk
    <3>1. DiskTypeOK'
      BY <2>5 DEF TypeOK, DiskTypeOK, disk
    <3>2. QED BY <2>2, <2>5, <3>1, InitialTypes, ServesTypes DEF Answers
  <2>6. QED BY <1>3, <2>3, <2>4, <2>5 DEF FxpInit
<1>4. QED BY <1>1, <1>2, <1>3

LEMMA StoreTypes ==
  ASSUME NEW ss \in SftpState, NEW h \in Ids, NEW p \in Path, NEW f \in File
  PROVE  [ss EXCEPT !.handles[h] = p, !.file_handles[h] = f] \in SftpState
<1>1. [ss.handles EXCEPT ![h] = p] \in [Ids -> Path]
  BY DEF SftpState
<1>2. [ss.file_handles EXCEPT ![h] = f] \in [Ids -> File \cup {NoFile}]
  BY DEF SftpState
<1>3. QED BY <1>1, <1>2 DEF SftpState

(* What the disk is after an OPEN that succeeds.                           *)
OpensOnDisk(p, f) ==
  /\ CanOpen(p, f)
  /\ IF ~Exists(p) THEN Create(p, "file", Held)
     ELSE /\ size' = IF "TRUNCATE" \in f THEN [size EXCEPT ![tree[p]] = 0] ELSE size
          /\ UNCHANGED <<tree, kind>>

LEMMA OpensOnDiskTypes ==
  ASSUME DiskTypeOK, NEW p, NEW f, OpensOnDisk(p, f)
  PROVE  DiskTypeOK' /\ tree'[p] \in Objs
<1>1. CASE ~Exists(p)
  <2>1. p \in Places /\ Free(Held) # {} /\ Create(p, "file", Held)
    BY <1>1 DEF OpensOnDisk, CanOpen, CanCreate
  <2>2. QED BY <2>1, CreateTypes
<1>2. CASE Exists(p)
  <2>1. /\ size' = IF "TRUNCATE" \in f THEN [size EXCEPT ![tree[p]] = 0] ELSE size
        /\ UNCHANGED <<tree, kind>>
    BY <1>2 DEF OpensOnDisk
  <2>2. tree[p] \in Objs /\ DiskTypeOK
    BY <1>2, LookupTypes
  <2>3. QED BY <2>1, <2>2, ConstantFacts DEF DiskTypeOK
<1>3. QED BY <1>1, <1>2

(* What the session is after one that is answered.                         *)
OpensInSession(s, v, f, id) ==
  LET h == HandleOf(id)
      o == tree'[At(Resolve(Root, v))]
  IN  /\ sftp' = [sftp EXCEPT ![s].handles[h] = PathOfOpen(v),
                              ![s].file_handles[h] = [obj |-> o, flags |-> f]]
      /\ Grants(s, [h |-> h, kind |-> "file", path |-> v, obj |-> o, phase |-> "open"])
      /\ Says(Answer(s, "open", "ok", h, o), Log("Open", Resolve(Root, v)))
      /\ UNCHANGED <<alive, work>>

LEMMA OpenWays ==
  ASSUME NEW s, NEW v, NEW f, NEW id, Open(s, v, f, id)
  PROVE  \/ OpensOnDisk(At(Resolve(Root, v)), f) /\ OpensInSession(s, v, f, id)
         \/ OpensOnDisk(At(Resolve(Root, v)), f) /\ Unheard(s, "open", 0)
         \/ Panic(s, "open", 0)
  BY DEF Open, OpensOnDisk, OpensInSession

LEMMA OpenTypes ==
  ASSUME TypeOK, NEW s \in Sessions, NEW v \in Requests, NEW f \in FlagSets,
         NEW id \in Ids, Open(s, v, f, id)
  PROVE  TypeOK'
<1> DEFINE real == Resolve(Root, v)
           p    == At(real)
           h    == HandleOf(id)
           o    == tree'[p]
<1>1. "open" \in Handlers
  BY DEF Handlers
<1>2. h \in Ids
  BY DEF HandleOf
<1>3. real \in Path /\ PathOfOpen(v) \in Path
  BY RequestPaths DEF PathOfOpen
<1>4. CASE OpensOnDisk(p, f) /\ OpensInSession(s, v, f, id)
  <2>1. /\ sftp' = [sftp EXCEPT ![s].handles[h] = PathOfOpen(v),
                                ![s].file_handles[h] = [obj |-> o, flags |-> f]]
        /\ Grants(s, [h |-> h, kind |-> "file", path |-> v, obj |-> o, phase |-> "open"])
        /\ Says(Answer(s, "open", "ok", h, o), Log("Open", real))
        /\ UNCHANGED <<alive, work>>
    BY <1>4 DEF OpensInSession
  <2>2. DiskTypeOK' /\ o \in Objs
    BY <1>4, OpensOnDiskTypes DEF TypeOK
  <2> HIDE DEF real, p, h, o
  <2>3. SaysTypeOK'
    <3>1. Answer(s, "open", "ok", h, o) \in Reply /\ Log("Open", real) \in Event
      BY <1>1, <1>2, <1>3, <2>2, AnswerType, LogType DEF Answers, Actions
    <3>2. QED BY <2>1, <3>1 DEF Says, SaysTypeOK
  <2>4. [obj |-> o, flags |-> f] \in File
    BY <2>2, SessionAssumption DEF File
  <2>5. sftp' \in [Sessions -> SftpState]
    <3> DEFINE ss == [sftp[s] EXCEPT !.handles[h] = PathOfOpen(v),
                                     !.file_handles[h] = [obj |-> o, flags |-> f]]
    <3>1. sftp \in [Sessions -> SftpState]
      BY DEF TypeOK, SessionTypeOK
    <3>2. ss \in SftpState
      BY <1>2, <1>3, <2>4, <3>1, StoreTypes
    <3>3. sftp' = [sftp EXCEPT ![s] = ss]
      BY <2>1
    <3> HIDE DEF ss
    <3>4. QED BY <3>1, <3>2, <3>3
  <2>6. [h |-> h, kind |-> "file", path |-> v, obj |-> o, phase |-> "open"] \in Lease
    BY <1>2, <2>2 DEF Lease
  <2>7. leases' \in [Sessions -> SUBSET Lease]
    BY <2>1, <2>6 DEF Grants, TypeOK, SessionTypeOK
  <2>8. QED BY <2>1, <2>2, <2>3, <2>5, <2>7 DEF TypeOK, SessionTypeOK
<1>5. CASE OpensOnDisk(p, f) /\ Unheard(s, "open", 0)
  <2>1. DiskTypeOK'
    BY <1>5, OpensOnDiskTypes DEF TypeOK
  <2>2. QED BY <1>1, <1>5, <2>1, EndTypes, ConstantFacts
<1>6. CASE Panic(s, "open", 0)
  BY <1>1, <1>6, PanicTypes, ConstantFacts
<1>7. QED BY <1>4, <1>5, <1>6, OpenWays

LEMMA OpenDirTypes ==
  ASSUME TypeOK, NEW s \in Sessions, NEW v \in Requests, NEW id \in Ids,
         OpenDir(s, v, id)
  PROVE  TypeOK'
<1> DEFINE h == HandleOf(id)
<1>1. "opendir" \in Handlers
  BY DEF Handlers
<1>2. h \in Ids
  BY DEF HandleOf
<1>3. Resolve(Root, v) \in Path /\ PathOfOpenDir(v) \in Path
  BY RequestPaths DEF PathOfOpenDir
<1>4. SUFFICES ASSUME ~Unheard(s, "opendir", 0) PROVE TypeOK'
  BY <1>1, EndTypes, ConstantFacts DEF OpenDir
<1>5. /\ sftp' = [sftp EXCEPT ![s].root_dir_read_done = FALSE, ![s].handles[h] = PathOfOpenDir(v)]
      /\ Grants(s, [h |-> h, kind |-> "dir", path |-> v, obj |-> NoObj, phase |-> "open"])
      /\ Says(Answer(s, "opendir", "ok", h, NoObj), Log("OpenDir", Resolve(Root, v)))
      /\ UNCHANGED <<disk, alive, work>>
  BY <1>4 DEF OpenDir
<1> HIDE DEF h
<1>6. SaysTypeOK'
  <2>1. Answer(s, "opendir", "ok", h, NoObj) \in Reply /\ Log("OpenDir", Resolve(Root, v)) \in Event
    BY <1>1, <1>2, <1>3, AnswerType, LogType DEF Answers, Actions
  <2>2. QED BY <1>5, <2>1 DEF Says, SaysTypeOK
<1>7. sftp' \in [Sessions -> SftpState]
  <2>1. sftp \in [Sessions -> SftpState]
    BY DEF TypeOK, SessionTypeOK
  <2>2. [sftp[s] EXCEPT !.root_dir_read_done = FALSE, !.handles[h] = PathOfOpenDir(v)] \in SftpState
    BY <1>2, <1>3, <2>1 DEF SftpState
  <2>3. sftp' = [sftp EXCEPT ![s] = [sftp[s] EXCEPT !.root_dir_read_done = FALSE,
                                                    !.handles[h] = PathOfOpenDir(v)]]
    BY <1>5, <2>1
  <2>4. QED BY <2>1, <2>2, <2>3
<1>8. leases' \in [Sessions -> SUBSET Lease]
  <2>1. [h |-> h, kind |-> "dir", path |-> v, obj |-> NoObj, phase |-> "open"] \in Lease
    BY <1>2 DEF Lease
  <2>2. QED BY <1>5, <2>1 DEF Grants, TypeOK, SessionTypeOK
<1>9. QED BY <1>5, <1>6, <1>7, <1>8 DEF TypeOK, SessionTypeOK, DiskTypeOK, disk

LEMMA CloseTypes ==
  ASSUME TypeOK, NEW s \in Sessions, NEW h \in Ids, Close(s, h)
  PROVE  TypeOK'
<1>1. "close" \in Handlers
  BY DEF Close, Ask, Handlers
<1>2. /\ sftp' = [sftp EXCEPT ![s].handles[h] = Err]
      /\ leases' = [leases EXCEPT ![s] = {l \in @ : l.h # h}]
      /\ Says(Answer(s, "close", "ok", h, NoObj), NoEvent)
      /\ UNCHANGED <<disk, alive, work>>
  BY DEF Close
<1>3. SaysTypeOK'
  BY <1>1, <1>2, AnswerType, InitialTypes DEF Says, SaysTypeOK, Answers
<1>4. sftp' \in [Sessions -> SftpState]
  BY <1>2, InitialTypes DEF TypeOK, SessionTypeOK, SftpState
<1>5. leases' \in [Sessions -> SUBSET Lease]
  BY <1>2 DEF TypeOK, SessionTypeOK
<1>6. QED BY <1>2, <1>3, <1>4, <1>5 DEF TypeOK, SessionTypeOK, DiskTypeOK, disk

LEMMA FstatTypes ==
  ASSUME TypeOK, NEW s \in Sessions, NEW h \in Ids, Fstat(s, h)
  PROVE  TypeOK'
<1> DEFINE real == Resolve(Root, sftp[s].handles[h])
<1>1. "fstat" \in Handlers
  BY DEF Fstat, Ask, Handlers
<1>2. real \in Path
  BY FileTypes, ResolveAppends, SessionAssumption DEF TypeOK, Roots
<1>3. CASE Panic(s, "fstat", h)
  BY <1>1, <1>3, PanicTypes
<1>4. CASE ~Panic(s, "fstat", h)
  <2>1. UNCHANGED disk
    BY <1>4 DEF Fstat
  <2>2. DiskTypeOK'
    BY <2>1 DEF TypeOK, DiskTypeOK, disk
  <2>3. \/ Serves(Answer(s, "fstat", "nosuchfile", h, NoObj), NoEvent)
        \/ Exists(At(real)) /\ Logs(Answer(s, "fstat", "ok", h, tree[At(real)]), Log("Fstat", real))
    BY <1>4 DEF Fstat
  <2> HIDE DEF real
  <2>4. CASE Serves(Answer(s, "fstat", "nosuchfile", h, NoObj), NoEvent)
    <3>1. Answer(s, "fstat", "nosuchfile", h, NoObj) \in Reply
      BY <1>1, AnswerType DEF Answers
    <3>2. QED BY <2>2, <2>4, <3>1, InitialTypes, ServesTypes
  <2>5. CASE Exists(At(real)) /\ Logs(Answer(s, "fstat", "ok", h, tree[At(real)]), Log("Fstat", real))
    <3>1. Log("Fstat", real) \in Event /\ tree[At(real)] \in Objs \cup {NoObj}
      BY <1>2, <2>5, LogType, LookupTypes DEF Actions, TypeOK
    <3>2. QED BY <1>1, <2>2, <2>5, <3>1, LogsTypes
  <2>6. QED BY <2>3, <2>4, <2>5
<1>5. QED BY <1>3, <1>4
(* A handler that stops between two system calls, or that comes back.      *)
LEMMA WorkTypes ==
  ASSUME TypeOK, NEW s \in Sessions, NEW w \in Work, NEW r \in Reply, NEW ev \in Event,
         work' = [work EXCEPT ![s] = w], Says(r, ev),
         UNCHANGED <<disk, alive, sftp, leases>>
  PROVE  TypeOK'
  BY DEF Says, TypeOK, DiskTypeOK, disk, SessionTypeOK, SaysTypeOK

LEMMA ReadStartTypes ==
  ASSUME TypeOK, NEW s \in Sessions, NEW h \in Ids, NEW off \in 0..MaxSize,
         NEW len \in Lens, ReadStart(s, h, off, len)
  PROVE  TypeOK'
<1> DEFINE f == sftp[s].file_handles[h]
           w == [Idle EXCEPT !.op = "read", !.h = h, !.off = off, !.len = len,
                             !.file_size = size[f.obj]]
<1>1. "read" \in Handlers /\ off \in Nat
  BY ConstantFacts DEF ReadStart, Ask, Handlers
<1>2. CASE Panic(s, "read", h)
  BY <1>1, <1>2, PanicTypes
<1>3. CASE ~Panic(s, "read", h)
  <2>1. f # NoFile /\ \/ Serves(Answer(s, "read", "eof", h, f.obj), NoEvent) /\ UNCHANGED disk
                      \/ /\ work' = [work EXCEPT ![s] = w]
                         /\ Says(NoReply, NoEvent)
                         /\ UNCHANGED <<disk, alive, sftp, leases>>
    BY <1>3 DEF ReadStart
  <2>2. f.obj \in Objs
    BY <2>1, FileTypes DEF TypeOK
  <2> HIDE DEF f
  <2>3. CASE Serves(Answer(s, "read", "eof", h, f.obj), NoEvent) /\ UNCHANGED disk
    <3>1. Answer(s, "read", "eof", h, f.obj) \in Reply
      BY <1>1, <2>2, AnswerType DEF Answers
    <3>2. DiskTypeOK'
      BY <2>3 DEF TypeOK, DiskTypeOK, disk
    <3>3. QED BY <2>3, <3>1, <3>2, InitialTypes, ServesTypes
  <2>4. CASE /\ work' = [work EXCEPT ![s] = w]
             /\ Says(NoReply, NoEvent)
             /\ UNCHANGED <<disk, alive, sftp, leases>>
    <3>1. size[f.obj] \in 0..MaxSize
      BY <2>2 DEF TypeOK, DiskTypeOK
    <3>2. w \in Work
      BY <1>1, <3>1, InitialTypes DEF Work, Idle
    <3> HIDE DEF w
    <3>3. QED BY <2>4, <3>2, InitialTypes, WorkTypes
  <2>5. QED BY <2>1, <2>3, <2>4
<1>4. QED BY <1>2, <1>3

LEMMA ReadFinishTypes ==
  ASSUME TypeOK, NEW s \in Sessions, ReadFinish(s)
  PROVE  TypeOK'
<1> DEFINE h == work[s].h
           f == sftp[s].file_handles[h]
           none == work[s].len = 0 \/ work[s].off >= size[f.obj]
           r == [Answer(s, "read", "ok", h, f.obj) EXCEPT !.empty = none]
<1>1. h \in Ids /\ "read" \in Handlers
  BY DEF ReadFinish, TypeOK, SessionTypeOK, Work, Handlers
<1>2. CASE UNCHANGED disk /\ (Unheard(s, "read", h) \/ Dies(s, "read", h))
  BY <1>1, <1>2, EndTypes
<1>3. CASE /\ work' = [work EXCEPT ![s] = Idle]
           /\ Says(r, Log("Read", sftp[s].handles[h]))
           /\ UNCHANGED <<disk, alive, sftp, leases>>
  <2>1. f.obj \in Objs \cup {NoObj} /\ sftp[s].handles[h] \in Path
    BY <1>1, FileTypes DEF TypeOK
  <2>2. none \in BOOLEAN
    OBVIOUS
  <2> HIDE DEF f, none
  <2>3. Answer(s, "read", "ok", h, f.obj) \in Reply
    BY <1>1, <2>1, AnswerType DEF Answers
  <2>4. r \in Reply
    BY <2>2, <2>3 DEF Reply
  <2>5. Log("Read", sftp[s].handles[h]) \in Event
    BY <2>1, LogType DEF Actions
  <2> HIDE DEF r, h
  <2>6. QED BY <1>3, <2>4, <2>5, InitialTypes, WorkTypes
<1>4. QED BY <1>2, <1>3 DEF ReadFinish

LEMMA WriteTypes ==
  ASSUME TypeOK, NEW s \in Sessions, NEW h \in Ids, NEW off \in 0..MaxSize,
         NEW n \in 1..MaxSize, Write(s, h, off, n)
  PROVE  TypeOK'
<1> DEFINE f    == sftp[s].file_handles[h]
           base == IF "APPEND" \in f.flags THEN size[f.obj] ELSE off
           Writes(k) == size' = [size EXCEPT ![f.obj] = IF base + k > @ THEN base + k ELSE @]
<1>1. "write" \in Handlers
  BY DEF Write, Ask, Handlers
<1>2. CASE Panic(s, "write", h)
  BY <1>1, <1>2, PanicTypes
<1>3. CASE f = NoFile /\ Serves(Answer(s, "write", "eof", h, NoObj), NoEvent) /\ UNCHANGED disk
  <2>1. Answer(s, "write", "eof", h, NoObj) \in Reply
    BY <1>1, AnswerType DEF Answers
  <2>2. DiskTypeOK'
    BY <1>3 DEF TypeOK, DiskTypeOK, disk
  <2>3. QED BY <1>3, <2>1, <2>2, InitialTypes, ServesTypes
<1>4. CASE /\ f # NoFile
           /\ \E k \in 1..n : base + k <= MaxSize /\ Writes(k)
           /\ UNCHANGED <<tree, kind>>
           /\ \/ Serves(Answer(s, "write", "eof", h, f.obj), NoEvent)
              \/ Logs(Answer(s, "write", "ok", h, f.obj), Log("Write", sftp[s].handles[h]))
              \/ Dies(s, "write", h)
  <2>1. f.obj \in Objs /\ sftp[s].handles[h] \in Path
    BY <1>4, FileTypes DEF TypeOK
  <2>2. DiskTypeOK'
    <3>1. PICK k \in 1..n : base + k <= MaxSize /\ Writes(k)
      BY <1>4
    <3>2. DiskTypeOK /\ size[f.obj] \in 0..MaxSize
      BY <2>1 DEF TypeOK, DiskTypeOK
    <3>3. k \in Nat /\ base \in Nat
      BY <3>2, ConstantFacts
    <3> HIDE DEF base, f
    <3>4. (IF base + k > size[f.obj] THEN base + k ELSE size[f.obj]) \in 0..MaxSize
      BY <3>1, <3>2, <3>3, ConstantFacts
    <3>5. QED BY <1>4, <2>1, <3>1, <3>2, <3>4 DEF DiskTypeOK
  <2>3. /\ Answer(s, "write", "eof", h, f.obj) \in Reply
        /\ Log("Write", sftp[s].handles[h]) \in Event
    BY <1>1, <2>1, AnswerType, LogType DEF Answers, Actions
  <2>4. CASE Dies(s, "write", h)
    BY <1>1, <2>2, <2>4, EndTypes
  <2>5. CASE Logs(Answer(s, "write", "ok", h, f.obj), Log("Write", sftp[s].handles[h]))
    BY <1>1, <2>1, <2>2, <2>3, <2>5, LogsTypes
  <2>6. QED BY <1>4, <2>2, <2>3, <2>4, <2>5, InitialTypes, ServesTypes
<1>5. QED
  <2>1. CASE /\ f # NoFile
             /\ \E k \in 1..(n - 1) : base + k <= MaxSize /\ Writes(k)
             /\ UNCHANGED <<tree, kind>>
             /\ ShortWrite(s, h, f.obj)
    <3> HIDE DEF f, base, Writes
    <3>1. PICK k \in 1..(n - 1) : base + k <= MaxSize /\ Writes(k)
      BY <2>1
    <3>2. k \in 1..n
      BY ConstantFacts
    <3>3. Serves(Answer(s, "write", "eof", h, f.obj), NoEvent)
      BY <2>1 DEF ShortWrite
    <3>4. QED BY <1>4, <2>1, <3>1, <3>2, <3>3
  <2>2. CASE /\ f # NoFile /\ base + n <= MaxSize
             /\ Writes(n)
             /\ UNCHANGED <<tree, kind>>
             /\ IF sftp[s].handles[h] # Err
                THEN Logs(Answer(s, "write", "ok", h, f.obj), Log("Write", sftp[s].handles[h]))
                ELSE Dies(s, "write", h)
    <3>1. n \in 1..n
      BY ConstantFacts
    <3>2. QED BY <1>4, <2>2, <3>1
  <2>3. QED BY <1>2, <1>3, <2>1, <2>2 DEF Write
LEMMA PhaseTypes ==
  ASSUME NEW ls \in SUBSET Lease, NEW h \in Ids, NEW phase \in {"open", "listed", "ended"}
  PROVE  Phase(ls, h, phase) \in SUBSET Lease
  BY DEF Phase, Lease

LEMMA ReaddirStartTypes ==
  ASSUME TypeOK, NEW s \in Sessions, NEW h \in Ids, ReaddirStart(s, h)
  PROVE  TypeOK'
<1> DEFINE check == CheckReqDone(sftp[s].root_dir_read_done)
           real == ToReal(Root, sftp[s].handles[h])
           w == [Idle EXCEPT !.op = "canonicalize", !.h = h, !.real = real]
<1>1. "readdir" \in Handlers
  BY DEF ReaddirStart, Ask, Handlers
<1>2. [sftp EXCEPT ![s].root_dir_read_done = check.flag] \in [Sessions -> SftpState]
  BY DEF TypeOK, SessionTypeOK, SftpState, CheckReqDone
<1>3. CASE UNCHANGED disk /\ (Unheard(s, "readdir", h) \/ Dies(s, "readdir", h))
  BY <1>1, <1>3, EndTypes
<1>4. CASE /\ sftp' = [sftp EXCEPT ![s].root_dir_read_done = check.flag]
           /\ leases' = [leases EXCEPT ![s] = Phase(@, h, "ended")]
           /\ Says(Answer(s, "readdir", "eof", h, NoObj), NoEvent)
           /\ UNCHANGED <<disk, alive, work>>
  <2>1. Answer(s, "readdir", "eof", h, NoObj) \in Reply
    BY <1>1, AnswerType DEF Answers
  <2>2. leases' \in [Sessions -> SUBSET Lease]
    BY <1>4, PhaseTypes DEF TypeOK, SessionTypeOK
  <2>3. sftp' \in [Sessions -> SftpState]
    BY <1>2, <1>4
  <2>4. QED
    BY <1>4, <2>1, <2>2, <2>3, InitialTypes
       DEF Says, TypeOK, DiskTypeOK, disk, SessionTypeOK, SaysTypeOK
<1>5. CASE /\ sftp' = [sftp EXCEPT ![s].root_dir_read_done = check.flag]
           /\ work' = [work EXCEPT ![s] = w]
           /\ Says(NoReply, NoEvent)
           /\ UNCHANGED <<disk, alive, leases>>
  <2>1. real \in Path
    <3>1. sftp[s].handles[h] \in Path
      BY FileTypes DEF TypeOK
    <3>2. QED BY <3>1, ToRealType, SessionAssumption
  <2>2. w \in Work
    <3> HIDE DEF real
    <3>1. QED BY <2>1, InitialTypes DEF Work, Idle
  <2>3. sftp' \in [Sessions -> SftpState]
    BY <1>2, <1>5
  <2> HIDE DEF w
  <2>4. QED
    BY <1>5, <2>2, <2>3, InitialTypes
       DEF Says, TypeOK, DiskTypeOK, disk, SessionTypeOK, SaysTypeOK
<1>6. QED BY <1>3, <1>4, <1>5 DEF ReaddirStart

(* The names a listing has to look at are names below some directory.      *)
LEMMA EntryTypes ==
  ASSUME NEW p \in Path, NEW c \in Places \ {<<>>}
  PROVE  Append(At(p), Last(c)) \in Seq(Part)
<1>1. /\ p \in Seq(Component) /\ Len(p) \in Nat
      /\ \A i \in 2..Len(p) : p[i] \in Part
      /\ Root \in Seq(Component) /\ Root # <<>>
  BY SessionAssumption DEF Path, Roots, Component
<1>2. Len(Root) \in Nat \ {0}
  BY <1>1, EmptySeq
<1>3. At(p) \in Seq(Part)
  <2>1. \A i \in (Len(Root) + 1)..Len(p) : p[i] \in Part
    BY <1>1, <1>2
  <2>2. QED BY <1>1, <1>2, <2>1, SubSeqProperties DEF At, StripPrefix
<1>4. Last(c) \in Part
  <2>1. c \in Seq(Name) /\ c # <<>>
    BY DiskAssumption
  <2>2. Len(c) \in Nat \ {0}
    BY <2>1, EmptySeq
  <2>3. QED BY <2>1, <2>2, ElementOfSeq DEF Last, Part
<1>5. QED BY <1>3, <1>4

LEMMA ReaddirStepTypes ==
  ASSUME TypeOK, NEW s \in Sessions,
         ReaddirOpen(s) \/ ReaddirNames(s) \/ ReaddirEntry(s) \/ ReaddirFinish(s)
  PROVE  TypeOK'
<1>1. /\ "readdir" \in Handlers
      /\ work[s] \in Work /\ work[s].h \in Ids /\ work[s].real \in Path
  BY DEF TypeOK, SessionTypeOK, Work, Handlers
<1>2. CASE UNCHANGED disk /\ Unheard(s, "readdir", work[s].h)
  BY <1>1, <1>2, EndTypes
<1>0. CASE UNCHANGED disk /\ Dies(s, "readdir", work[s].h)
  BY <1>1, <1>0, EndTypes
<1>3. ASSUME NEW w \in Work, work' = [work EXCEPT ![s] = w], Says(NoReply, NoEvent),
             UNCHANGED <<disk, alive, sftp, leases>>
      PROVE  TypeOK'
  BY <1>3, InitialTypes, WorkTypes
<1>4. CASE ReaddirOpen(s)
  <2> DEFINE p == At(work[s].real)
             w == [work[s] EXCEPT !.op = "read_dir", !.dir = tree[p], !.seen = tree]
  <2>1. CASE Dies(s, "readdir", work[s].h)
    BY <1>0, <1>4, <2>1 DEF ReaddirOpen
  <2>2. CASE ~Dies(s, "readdir", work[s].h)
    <3>1. /\ IsDir(p) /\ Says(NoReply, NoEvent)
          /\ work' = [work EXCEPT ![s].op = "read_dir", ![s].dir = tree[p], ![s].seen = tree]
          /\ UNCHANGED <<disk, alive, sftp, leases>>
      BY <1>4, <2>2 DEF ReaddirOpen
    <3>2. tree[p] \in Objs
      BY <3>1, LookupTypes DEF IsDir, TypeOK
    <3> HIDE DEF p
    <3>3. w \in Work
      BY <1>1, <3>2 DEF Work, TypeOK, DiskTypeOK
    <3>4. work' = [work EXCEPT ![s] = w]
      BY <3>1 DEF TypeOK, SessionTypeOK
    <3> HIDE DEF w
    <3>5. QED BY <1>3, <3>1, <3>3, <3>4
  <2>3. QED BY <2>1, <2>2
<1>5. CASE ReaddirNames(s)
  <2> DEFINE names == {Append(At(work[s].real), Last(c)) :
                         c \in {c \in Places \ {<<>>} : Exists(c) /\ tree[Front(c)] = work[s].dir}}
             seen == IF work[s].seen = tree THEN work[s].seen ELSE NoTree
             w == [work[s] EXCEPT !.op = "readdir", !.dir = NoObj, !.seen = seen, !.todo = names]
  <2>1. names \in SUBSET Seq(Part)
    BY <1>1, EntryTypes
  <2>2. seen \in [Places -> Objs \cup {NoObj}] \cup {NoTree}
    BY <1>1 DEF Work
  <2>3. work' = [work EXCEPT ![s].op = "readdir", ![s].dir = NoObj,
                             ![s].seen = IF @ = tree THEN @ ELSE NoTree, ![s].todo = names]
    BY <1>5 DEF ReaddirNames
  <2> HIDE DEF names
  <2>5. work' = [work EXCEPT ![s] = w]
    BY <2>3 DEF TypeOK, SessionTypeOK
  <2> HIDE DEF seen
  <2>4. w \in Work
    BY <1>1, <2>1, <2>2 DEF Work
  <2> HIDE DEF w
  <2>6. QED BY <1>3, <1>5, <2>4, <2>5 DEF ReaddirNames
<1>6. CASE ReaddirEntry(s)
  <2>1. PICK c \in work[s].todo :
          \/ /\ work' = [work EXCEPT ![s].todo = @ \ {c}]
             /\ Says(NoReply, NoEvent)
             /\ UNCHANGED <<disk, alive, sftp, leases>>
          \/ Panic(s, "readdir", work[s].h)
    BY <1>6 DEF ReaddirEntry
  <2>2. CASE Panic(s, "readdir", work[s].h)
    BY <1>0, <2>2 DEF Panic
  <2>3. CASE /\ work' = [work EXCEPT ![s].todo = @ \ {c}]
             /\ Says(NoReply, NoEvent)
             /\ UNCHANGED <<disk, alive, sftp, leases>>
    <3> DEFINE w == [work[s] EXCEPT !.todo = @ \ {c}]
    <3>1. w \in Work
      BY <1>1 DEF Work
    <3>2. work' = [work EXCEPT ![s] = w]
      BY <2>3
    <3> HIDE DEF w
    <3>3. QED BY <1>3, <2>3, <3>1, <3>2
  <2>4. QED BY <2>1, <2>2, <2>3
<1>7. CASE ReaddirFinish(s)
  <2>1. Answer(s, "readdir", "ok", work[s].h, NoObj) \in Reply /\ Log("ReadDir", work[s].real) \in Event
    BY <1>1, AnswerType, LogType DEF Answers, Actions
  <2>2. CASE Unheard(s, "readdir", work[s].h)
    BY <1>2, <1>7, <2>2 DEF ReaddirFinish
  <2>3. CASE ~Unheard(s, "readdir", work[s].h)
    <3>1. leases' \in [Sessions -> SUBSET Lease]
      BY <1>1, <1>7, <2>3, PhaseTypes DEF ReaddirFinish, TypeOK, SessionTypeOK
    <3>2. QED
      BY <1>7, <2>1, <2>3, <3>1, InitialTypes
         DEF ReaddirFinish, Says, TypeOK, DiskTypeOK, disk, SessionTypeOK, SaysTypeOK
  <2>4. QED BY <2>2, <2>3
<1>8. QED BY <1>4, <1>5, <1>6, <1>7

LEMMA AnswersTypes ==
  ASSUME TypeOK, DiskTypeOK', NEW s \in Sessions, NEW op \in Handlers, NEW st \in Answers,
         NEW o \in Objs \cup {NoObj}, NEW ev \in Event, Serves(Answer(s, op, st, 0, o), ev)
  PROVE  TypeOK'
<1>1. Answer(s, op, st, 0, o) \in Reply
  BY AnswerType, ConstantFacts
<1>2. QED BY <1>1, ServesTypes

LEMMA SameDisk ==
  ASSUME TypeOK, UNCHANGED disk
  PROVE  DiskTypeOK'
  BY DEF TypeOK, DiskTypeOK, disk

LEMMA LooksTypes ==
  ASSUME TypeOK, NEW s \in Sessions, NEW v \in Requests, Lstat(s, v) \/ Stat(s, v) \/ Setstat(s)
  PROVE  TypeOK'
<1> DEFINE real == Resolve(Root, v)
<1>1. real \in Path /\ 0 \in Ids /\ NoEvent \in Event
  BY RequestPaths, ConstantFacts, InitialTypes
<1>2. /\ Log("Lstat", real) \in Event /\ Log("Stat", real) \in Event
  BY <1>1, LogType DEF Actions
<1>3. Exists(At(real)) => tree[At(real)] \in Objs \cup {NoObj}
  BY LookupTypes DEF TypeOK
<1>4. {"ok", "nosuchfile", "unsupported"} \subseteq Answers
  BY DEF Answers
<1>5. CASE Lstat(s, v)
  <2>1. "lstat" \in Handlers
    BY <1>5 DEF Lstat, Ask, Handlers
  <2>2. CASE Panic(s, "lstat", 0)
    BY <1>1, <2>1, <2>2, PanicTypes
  <2>3. CASE ~Panic(s, "lstat", 0)
    <3>1. /\ Exists(At(real)) /\ UNCHANGED disk
          /\ Logs(Answer(s, "lstat", "ok", 0, tree[At(real)]), Log("Lstat", real))
      BY <1>5, <2>3 DEF Lstat
    <3> HIDE DEF real
    <3>2. QED BY <1>1, <1>2, <1>3, <2>1, <3>1, SameDisk, LogsTypes
  <2>4. QED BY <2>2, <2>3
<1>6. CASE Stat(s, v)
  <2>1. "stat" \in Handlers /\ DiskTypeOK'
    BY <1>6, SameDisk DEF Stat, Ask, Handlers
  <2>2. CASE Serves(Answer(s, "stat", "nosuchfile", 0, NoObj), NoEvent)
    BY <1>1, <1>4, <2>1, <2>2, AnswersTypes
  <2>3. CASE /\ Exists(At(real))
             /\ Logs(Answer(s, "stat", "ok", 0, tree[At(real)]), Log("Stat", real))
    <3> HIDE DEF real
    <3>1. QED BY <1>1, <1>2, <1>3, <2>1, <2>3, LogsTypes
  <2>4. QED BY <1>6, <2>2, <2>3 DEF Stat
<1>7. CASE Setstat(s)
  <2>1. "setstat" \in Handlers /\ DiskTypeOK'
    BY <1>7, SameDisk DEF Setstat, Ask, Handlers
  <2>2. Serves(Answer(s, "setstat", "unsupported", 0, NoObj), NoEvent)
    BY <1>7 DEF Setstat
  <2>3. QED BY <1>1, <1>4, <2>1, <2>2, AnswersTypes
<1>8. QED BY <1>5, <1>6, <1>7

LEMMA TreeTypes ==
  ASSUME TypeOK, NEW s \in Sessions, NEW v \in Requests,
         FxpRemove(s, v) \/ Mkdir(s, v) \/ Rmdir(s, v)
  PROVE  TypeOK'
<1> DEFINE real == Resolve(Root, v)
           p == At(real)
<1>1. real \in Path /\ 0 \in Ids
  BY RequestPaths, ConstantFacts
<1>2. /\ Log("Remove", real) \in Event /\ Log("MakeDir", real) \in Event
      /\ Log("RemoveDir", real) \in Event
  BY <1>1, LogType DEF Actions
<1>3. "ok" \in Answers /\ NoObj \in Objs \cup {NoObj}
  BY DEF Answers
<1>4. CASE FxpRemove(s, v)
  <2>1. "remove" \in Handlers
    BY <1>4 DEF FxpRemove, Ask, Handlers
  <2>2. CASE Panic(s, "remove", 0)
    BY <1>1, <2>1, <2>2, PanicTypes
  <2>3. CASE ~Panic(s, "remove", 0)
    <3>1. /\ CanUnlink(p) /\ Unlink(p)
          /\ Logs(Answer(s, "remove", "ok", 0, tree[p]), Log("Remove", real))
      BY <1>4, <2>3 DEF FxpRemove
    <3> HIDE DEF p, real
    <3>2. tree[p] \in Objs \cup {NoObj} /\ DiskTypeOK'
      BY <3>1, LookupTypes, UnlinkTypes DEF CanUnlink, IsFile, TypeOK
    <3>3. QED BY <1>1, <1>2, <1>3, <2>1, <3>1, <3>2, LogsTypes
  <2>4. QED BY <2>2, <2>3
<1>5. CASE Mkdir(s, v)
  <2>1. "mkdir" \in Handlers
    BY <1>5 DEF Mkdir, Ask, Handlers
  <2>2. CASE Panic(s, "mkdir", 0)
    BY <1>1, <2>1, <2>2, PanicTypes
  <2>3. CASE ~Panic(s, "mkdir", 0)
    <3>1. /\ CanCreate(p, Held) /\ Create(p, "dir", Held)
          /\ Logs(Answer(s, "mkdir", "ok", 0, NoObj), Log("MakeDir", real))
      BY <1>5, <2>3 DEF Mkdir
    <3> HIDE DEF p, real
    <3>2. DiskTypeOK'
      BY <3>1, CreateTypes DEF CanCreate, TypeOK
    <3>3. QED BY <1>1, <1>2, <1>3, <2>1, <3>1, <3>2, LogsTypes
  <2>4. QED BY <2>2, <2>3
<1>6. CASE Rmdir(s, v)
  <2>1. "rmdir" \in Handlers
    BY <1>6 DEF Rmdir, Ask, Handlers
  <2>2. CASE Panic(s, "rmdir", 0)
    BY <1>1, <2>1, <2>2, PanicTypes
  <2>3. CASE ~Panic(s, "rmdir", 0)
    <3>1. /\ CanRmdir(p) /\ Unlink(p)
          /\ Logs(Answer(s, "rmdir", "ok", 0, tree[p]), Log("RemoveDir", real))
      BY <1>6, <2>3 DEF Rmdir
    <3> HIDE DEF p, real
    <3>2. tree[p] \in Objs \cup {NoObj} /\ DiskTypeOK'
      BY <3>1, LookupTypes, UnlinkTypes DEF CanRmdir, IsDir, TypeOK
    <3>3. QED BY <1>1, <1>2, <1>3, <2>1, <3>1, <3>2, LogsTypes
  <2>4. QED BY <2>2, <2>3
<1>7. QED BY <1>4, <1>5, <1>6

LEMMA FxpRenameTypes ==
  ASSUME TypeOK, NEW s \in Sessions, NEW v \in Requests, NEW w \in Requests, FxpRename(s, v, w)
  PROVE  TypeOK'
<1> DEFINE from == Resolve(Root, v)
           to   == Resolve(Root, w)
<1>1. from \in Path /\ 0 \in Ids /\ "ok" \in Answers
  BY RequestPaths, ConstantFacts DEF Answers
<1>2. Log("Rename", from) \in Event
  BY <1>1, LogType DEF Actions
<1>3. "rename" \in Handlers
  BY DEF FxpRename, Ask, Handlers
<1>4. CASE Panic(s, "rename", 0)
  BY <1>1, <1>3, <1>4, PanicTypes
<1>5. CASE ~Panic(s, "rename", 0)
  <2>1. /\ CanRename(At(from), At(to)) /\ Rename(At(from), At(to))
        /\ Logs(Answer(s, "rename", "ok", 0, tree[At(from)]), Log("Rename", from))
    BY <1>5 DEF FxpRename
  <2> HIDE DEF from, to
  <2>2. tree[At(from)] \in Objs \cup {NoObj} /\ DiskTypeOK'
    BY <2>1, LookupTypes, RenameTypes DEF CanRename, TypeOK
  <2>3. QED BY <1>1, <1>2, <1>3, <2>1, <2>2, LogsTypes
<1>6. QED BY <1>4, <1>5

LEMMA RealpathTypes ==
  ASSUME TypeOK, NEW s \in Sessions, NEW v \in Requests, RealpathStart(s, v) \/ RealpathFinish(s)
  PROVE  TypeOK'
<1>1. CASE RealpathStart(s, v)
  <2> DEFINE real == Resolve(Root, v)
             wk == [Idle EXCEPT !.op = "realpath", !.real = real, !.seen = tree]
  <2>1. "realpath" \in Handlers /\ real \in Path /\ "nosuchfile" \in Answers /\ NoEvent \in Event
    BY <1>1, RequestPaths, InitialTypes DEF RealpathStart, Ask, Answers, Handlers
  <2>2. \/ Unheard(s, "realpath", 0) /\ UNCHANGED disk
        \/ Serves(Answer(s, "realpath", "nosuchfile", 0, NoObj), NoEvent) /\ UNCHANGED disk
        \/ /\ work' = [work EXCEPT ![s] = wk]
           /\ Says(NoReply, NoEvent)
           /\ UNCHANGED <<disk, alive, sftp, leases>>
    BY <1>1 DEF RealpathStart
  <2>3. wk \in Work
    <3>1. tree \in [Places -> Objs \cup {NoObj}]
      BY DEF TypeOK, DiskTypeOK
    <3> HIDE DEF real
    <3>2. QED BY <2>1, <3>1, InitialTypes DEF Work, Idle
  <2> HIDE DEF wk
  <2>4. CASE Serves(Answer(s, "realpath", "nosuchfile", 0, NoObj), NoEvent) /\ UNCHANGED disk
    BY <2>1, <2>4, SameDisk, AnswersTypes
  <2>5. CASE Unheard(s, "realpath", 0) /\ UNCHANGED disk
    BY <2>1, <2>5, EndTypes, ConstantFacts
  <2>6. QED BY <2>2, <2>3, <2>4, <2>5, InitialTypes, WorkTypes

<1>2. CASE RealpathFinish(s)
  <2> DEFINE real == work[s].real
  <2>1. "realpath" \in Handlers /\ real \in Path /\ 0 \in Ids
    BY <1>2, ConstantFacts DEF RealpathFinish, TypeOK, SessionTypeOK, Work, Handlers
  <2>2. CASE Unheard(s, "realpath", 0) \/ Dies(s, "realpath", 0)
    BY <1>2, <2>1, <2>2, EndTypes DEF RealpathFinish
  <2>3. CASE ~(Unheard(s, "realpath", 0) \/ Dies(s, "realpath", 0))
    <3>1. /\ Exists(At(real))
          /\ work' = [work EXCEPT ![s] = Idle]
          /\ Says(Answer(s, "realpath", "ok", 0, tree[At(real)]), Log("RealPath", real))
          /\ UNCHANGED <<disk, alive, sftp, leases>>
      BY <1>2, <2>3 DEF RealpathFinish
    <3> HIDE DEF real
    <3>2. Answer(s, "realpath", "ok", 0, tree[At(real)]) \in Reply /\ Log("RealPath", real) \in Event
      BY <2>1, <3>1, LookupTypes, AnswerType, LogType DEF Answers, Actions, TypeOK
    <3>3. QED BY <3>1, <3>2, InitialTypes, WorkTypes
  <2>4. QED BY <2>2, <2>3
<1>3. QED BY <1>1, <1>2
LEMMA StepTypes ==
  ASSUME TypeOK, [Next]_vars
  PROVE  TypeOK'
<1>1. CASE UNCHANGED vars
  BY <1>1 DEF vars, session, disk, TypeOK, DiskTypeOK, SessionTypeOK, SaysTypeOK
<1>2. ASSUME NEW s \in Sessions, Connect(s) \/ Disconnect(s) \/ Request(s) \/ Advance(s)
      PROVE  TypeOK'
  <2>1. PICK any \in Requests : TRUE
    <3>1. <<RootDir>> \o <<>> \in Requests
      BY DiskAssumption DEF Requests
    <3>2. QED BY <3>1
  <2>2. CASE Connect(s) \/ Disconnect(s)
    BY <2>2, ConnectTypes
  <2>3. CASE Advance(s)
    BY <2>1, <2>3, ReadFinishTypes, ReaddirStepTypes, RealpathTypes DEF Advance
  <2>4. CASE Request(s)
    <3>1. CASE FxpInit(s)
      BY <3>1, ConnectTypes
    <3>2. CASE \E v \in Requests, f \in FlagSets, id \in Ids : Open(s, v, f, id)
      BY <3>2, OpenTypes
    <3>3. CASE \/ \E v \in Requests, id \in Ids : OpenDir(s, v, id)
               \/ \E v \in Requests : Lstat(s, v) \/ Stat(s, v)
      BY <3>3, OpenDirTypes, LooksTypes
    <3>4. CASE \E v \in Requests : \/ FxpRemove(s, v) \/ Mkdir(s, v) \/ Rmdir(s, v)
                                   \/ RealpathStart(s, v)
      BY <3>4, TreeTypes, RealpathTypes
    <3>5. CASE \E v, w \in Requests : FxpRename(s, v, w)
      BY <3>5, FxpRenameTypes
    <3>6. CASE \E h \in Ids : Close(s, h) \/ Fstat(s, h) \/ ReaddirStart(s, h)
      BY <3>6, CloseTypes, FstatTypes, ReaddirStartTypes
    <3>7. CASE \E h \in Ids, off \in 0..MaxSize, len \in Lens : ReadStart(s, h, off, len)
      BY <3>7, ReadStartTypes
    <3>8. CASE \E h \in Ids, off \in 0..MaxSize, n \in 1..MaxSize : Write(s, h, off, n)
      BY <3>8, WriteTypes
    <3>9. CASE Setstat(s)
      BY <2>1, <3>9, LooksTypes
    <3>10. QED
      BY <2>4, <3>1, <3>2, <3>3, <3>4, <3>5, <3>6, <3>7, <3>8, <3>9 DEF Request
  <2>5. QED BY <1>2, <2>2, <2>3, <2>4
<1>3. QED BY <1>1, <1>2 DEF Next

LEMMA InitTypes ==
  ASSUME Init
  PROVE  TypeOK
<1>1. DiskTypeOK
  BY DiskAssumption DEF Init, InitDisk, DiskTypeOK
<1>2. SessionTypeOK
  BY InitialTypes, ConstantFacts DEF Init, SessionTypeOK
<1>3. SaysTypeOK
  BY InitialTypes DEF Init, SaysTypeOK
<1>4. QED BY <1>1, <1>2, <1>3 DEF TypeOK

(* Whatever the requests and however the sessions interleave, the disk and *)
(* the maps of SftpSession keep their types: in particular a READ or WRITE *)
(* never leaves a size beyond the quota, and no handler is resumed with a  *)
(* path or a handle that is none (sftp_server.rs:104-115, 145-473).        *)
THEOREM TypeCorrect == Spec => []TypeOK
<1>1. Init => TypeOK
  BY InitTypes
<1>2. TypeOK /\ [Next]_vars => TypeOK'
  BY StepTypes
<1>3. QED BY <1>1, <1>2, PTL DEF Spec
-----------------------------------------------------------------------------
(* The inductive invariant.  That a READ is served to a holder only needs  *)
(* every path in handles to belong to a lease.                             *)

Owned(maps, ls) ==
  /\ \A h \in Ids : maps.handles[h] # Err => \E l \in ls : l.h = h
  /\ \A l \in ls : Denotes(maps, l)
  /\ \A l, m \in ls : l.h = m.h => l = m

MapsInv == \A s \in Sessions : Owned(sftp[s], leases[s])

IInv == TypeOK /\ MapsInv /\ OnlyLeasesAreServed /\ AuditNamesLease
\* Nothing the served-only properties speak of is said.
Quiet(r, ev) ==
  /\ ~(r.op \in {"read", "write"} /\ r.st = "ok")
  /\ ev.action \notin {"Read", "Write"}

\* The conclusion of one step of LostRequestsLeaveDisk.
Harmless ==
  reply'.st = "lost" /\ disk' # disk =>
    /\ reply'.op = "write"
    /\ \A l \in leases[reply'.to] : l.h # reply'.h

LEMMA QuietServed ==
  ASSUME Quiet(reply', event')
  PROVE  OnlyLeasesAreServed' /\ AuditNamesLease'
  BY DEF Quiet, OnlyLeasesAreServed, AuditNamesLease

LEMMA NewOwned == Owned(NewSession, {})
  BY DEF Owned, NewSession

(* One session changes its maps, the others keep theirs.                   *)
LEMMA LocalOwned ==
  ASSUME TypeOK, MapsInv, NEW s \in Sessions, NEW maps, NEW ls, Owned(maps, ls),
         sftp' = [sftp EXCEPT ![s] = maps], leases' = [leases EXCEPT ![s] = ls]
  PROVE  MapsInv'
<1>1. ASSUME NEW t \in Sessions PROVE Owned(sftp'[t], leases'[t])
  <2>1. CASE t = s
    <3>1. sftp'[t] = maps /\ leases'[t] = ls
      BY <2>1 DEF TypeOK, SessionTypeOK
    <3>2. QED BY <3>1
  <2>2. CASE t # s
    <3>1. sftp'[t] = sftp[t] /\ leases'[t] = leases[t]
      BY <2>2 DEF TypeOK, SessionTypeOK
    <3>2. QED BY <3>1 DEF MapsInv
  <2>3. QED BY <2>1, <2>2
<1>2. QED BY <1>1 DEF MapsInv

LEMMA EndOwned ==
  ASSUME TypeOK, MapsInv, NEW s \in Sessions, NEW op, NEW st, NEW h,
         DiesOf(s, op, st, h), st # "ok"
  PROVE  MapsInv' /\ OnlyLeasesAreServed' /\ AuditNamesLease'
<1>1. MapsInv'
  BY NewOwned, LocalOwned DEF DiesOf, Reset
<1>2. Quiet(reply', event')
  BY DEF DiesOf, Says, Quiet, Answer, NoEvent
<1>3. QED BY <1>1, <1>2, QuietServed

LEMMA PanicOwned ==
  ASSUME TypeOK, MapsInv, NEW s \in Sessions, NEW op, NEW h,
         Dies(s, op, h), UNCHANGED disk
  PROVE  MapsInv' /\ OnlyLeasesAreServed' /\ AuditNamesLease' /\ Harmless
  BY EndOwned DEF Dies, Harmless

LEMMA UnheardOwned ==
  ASSUME TypeOK, MapsInv, NEW s \in Sessions, NEW op, NEW h, Unheard(s, op, h)
  PROVE  MapsInv' /\ OnlyLeasesAreServed' /\ AuditNamesLease' /\ Harmless
<1>1. reply'.st = "unheard"
  BY DEF Unheard, DiesOf, Says, Answer
<1>2. QED BY <1>1, EndOwned DEF Unheard, Harmless

(* A handler that keeps the maps and answers no READ or WRITE with Ok.     *)
LEMMA KeepsOwned ==
  ASSUME MapsInv, NEW r, NEW ev, Says(r, ev), Quiet(r, ev), r.st # "lost",
         UNCHANGED <<sftp, leases>>
  PROVE  MapsInv' /\ OnlyLeasesAreServed' /\ AuditNamesLease' /\ Harmless
<1>1. MapsInv'
  BY DEF MapsInv
<1>2. reply' = r /\ event' = ev
  BY DEF Says
<1>3. QED BY <1>1, <1>2, QuietServed DEF Harmless

LEMMA FlagOwned ==
  ASSUME NEW maps \in SftpState, NEW ls, NEW flag, Owned(maps, ls)
  PROVE  Owned([maps EXCEPT !.root_dir_read_done = flag], ls)
<1> DEFINE new == [maps EXCEPT !.root_dir_read_done = flag]
<1>1. new.handles = maps.handles /\ new.file_handles = maps.file_handles
  BY DEF SftpState
<1> HIDE DEF new
<1>2. Owned(new, ls)
  BY <1>1 DEF Owned, Denotes
<1>3. QED BY <1>2 DEF new

LEMMA PhaseOwned ==
  ASSUME NEW maps, NEW ls \in SUBSET Lease, NEW h, NEW phase, Owned(maps, ls)
  PROVE  Owned(maps, Phase(ls, h, phase))
<1> DEFINE P(l) == IF l.h = h /\ l.kind = "dir" THEN [l EXCEPT !.phase = phase] ELSE l
<1>1. Phase(ls, h, phase) = {P(l) : l \in ls}
  BY DEF Phase
<1>2. ASSUME NEW l \in ls
      PROVE  P(l).h = l.h /\ P(l).kind = l.kind /\ P(l).path = l.path /\ P(l).obj = l.obj
  BY DEF Lease
<1> HIDE DEF P
<1>3. ASSUME NEW i \in Ids, maps.handles[i] # Err
      PROVE  \E k \in Phase(ls, h, phase) : k.h = i
  <2>1. PICK l \in ls : l.h = i
    BY <1>3 DEF Owned
  <2>2. P(l) \in Phase(ls, h, phase) /\ P(l).h = i
    BY <1>1, <1>2, <2>1
  <2>3. QED BY <2>2
<1>4. ASSUME NEW k \in Phase(ls, h, phase) PROVE Denotes(maps, k)
  <2>1. PICK l \in ls : k = P(l)
    BY <1>1
  <2>2. Denotes(maps, l)
    BY DEF Owned
  <2>3. QED BY <1>2, <2>1, <2>2 DEF Denotes
<1>5. ASSUME NEW k \in Phase(ls, h, phase), NEW m \in Phase(ls, h, phase), k.h = m.h
      PROVE  k = m
  <2>1. PICK l \in ls : k = P(l)
    BY <1>1
  <2>2. PICK n \in ls : m = P(n)
    BY <1>1
  <2>3. l.h = n.h
    BY <1>2, <1>5, <2>1, <2>2
  <2>4. l = n
    BY <2>3 DEF Owned
  <2>5. QED BY <2>1, <2>2, <2>4
<1>6. QED BY <1>3, <1>4, <1>5 DEF Owned

(* OPEN and OPENDIR write to the entries of an id no lease has.            *)
LEMMA GrantOwned ==
  ASSUME NEW maps, NEW new, NEW ls \in SUBSET Lease, NEW lease \in Lease, Owned(maps, ls),
         \A l \in ls : l.h # lease.h, Denotes(new, lease),
         \A h \in Ids : h # lease.h => /\ new.handles[h] = maps.handles[h]
                                       /\ new.file_handles[h] = maps.file_handles[h]
  PROVE  Owned(new, ls \cup {lease})
<1>1. ASSUME NEW h \in Ids, new.handles[h] # Err PROVE \E l \in ls \cup {lease} : l.h = h
  BY <1>1 DEF Owned
<1>2. ASSUME NEW l \in ls PROVE Denotes(new, l)
  <2>1. Denotes(maps, l) /\ l.h \in Ids /\ l.h # lease.h
    BY DEF Owned, Lease
  <2>2. QED BY <2>1 DEF Denotes
<1>3. ASSUME NEW l \in ls \cup {lease}, NEW m \in ls \cup {lease}, l.h = m.h PROVE l = m
  BY <1>3 DEF Owned
<1>4. QED BY <1>1, <1>2, <1>3 DEF Owned

LEMMA OpenOwned ==
  ASSUME TypeOK, MapsInv, NEW s \in Sessions, NEW v \in Requests, NEW f \in FlagSets,
         NEW id \in Ids, Open(s, v, f, id), TypeOK'
  PROVE  MapsInv' /\ OnlyLeasesAreServed' /\ AuditNamesLease' /\ Harmless
<1> DEFINE real == Resolve(Root, v)
           h    == HandleOf(id)
           o    == tree'[At(real)]
           lease == [h |-> h, kind |-> "file", path |-> v, obj |-> o, phase |-> "open"]
           new  == [sftp[s] EXCEPT !.handles[h] = PathOfOpen(v),
                                   !.file_handles[h] = [obj |-> o, flags |-> f]]
<1>1. CASE Panic(s, "open", 0)
  BY <1>1, PanicOwned DEF Panic
<1>2. CASE Unheard(s, "open", 0)
  BY <1>2, UnheardOwned
<1>3. CASE OpensInSession(s, v, f, id)
  <2>1. /\ sftp' = [sftp EXCEPT ![s] = new]
        /\ leases' = [leases EXCEPT ![s] = leases[s] \cup {lease}]
        /\ Says(Answer(s, "open", "ok", h, o), Log("Open", real))
    BY <1>3 DEF OpensInSession, Grants
  <2>2. h \in Ids /\ \A l \in leases[s] : l.h # h
    BY DEF HandleOf, Open, NewId
  <2>3. sftp[s] \in SftpState /\ leases[s] \in SUBSET Lease /\ lease \in Lease
    <3>1. lease \in leases'[s]
      BY <2>1 DEF TypeOK, SessionTypeOK
    <3> HIDE DEF lease
    <3>2. QED BY <3>1 DEF TypeOK, SessionTypeOK
  <2>4. /\ new.handles = [sftp[s].handles EXCEPT ![h] = PathOfOpen(v)]
        /\ new.file_handles = [sftp[s].file_handles EXCEPT ![h] = [obj |-> o, flags |-> f]]
    BY <2>3 DEF SftpState
  <2>5. /\ lease.h = h /\ lease.kind = "file" /\ lease.path = v /\ lease.obj = o
    OBVIOUS
  <2>6. Quiet(reply', event') /\ reply'.st # "lost"
    BY <2>1 DEF Says, Answer, Log, Quiet
  <2> HIDE DEF new, lease, o, h
  <2>7. /\ new.handles[h] = PathOfOpen(v)
        /\ new.file_handles[h] = [obj |-> o, flags |-> f]
        /\ \A i \in Ids : i # h => /\ new.handles[i] = sftp[s].handles[i]
                                   /\ new.file_handles[i] = sftp[s].file_handles[i]
    BY <2>2, <2>3, <2>4 DEF SftpState
  <2>8. Denotes(new, lease)
    BY <2>5, <2>7 DEF Denotes, PathOfOpen
  <2>9. Owned(new, leases[s] \cup {lease})
    <3>1. Owned(sftp[s], leases[s]) /\ \A l \in leases[s] : l.h # lease.h
      BY <2>2, <2>5 DEF MapsInv
    <3>2. \A i \in Ids : i # lease.h => /\ new.handles[i] = sftp[s].handles[i]
                                       /\ new.file_handles[i] = sftp[s].file_handles[i]
      BY <2>5, <2>7
    <3>. QED  BY <2>3, <2>8, <3>1, <3>2, GrantOwned
  <2>10. MapsInv'
    BY <2>1, <2>9, LocalOwned
  <2>11. QED BY <2>6, <2>10, QuietServed DEF Harmless
<1>4. QED BY <1>1, <1>2, <1>3, OpenWays

LEMMA OpenDirOwned ==
  ASSUME TypeOK, MapsInv, NEW s \in Sessions, NEW v \in Requests, NEW id \in Ids,
         OpenDir(s, v, id), TypeOK'
  PROVE  MapsInv' /\ OnlyLeasesAreServed' /\ AuditNamesLease' /\ Harmless
<1> DEFINE h == HandleOf(id)
           lease == [h |-> h, kind |-> "dir", path |-> v, obj |-> NoObj, phase |-> "open"]
           new == [sftp[s] EXCEPT !.root_dir_read_done = FALSE, !.handles[h] = PathOfOpenDir(v)]
<1>1. CASE Unheard(s, "opendir", 0)
  BY <1>1, UnheardOwned
<1>2. CASE ~Unheard(s, "opendir", 0)
  <2>1. /\ sftp' = [sftp EXCEPT ![s] = new]
        /\ leases' = [leases EXCEPT ![s] = leases[s] \cup {lease}]
        /\ Says(Answer(s, "opendir", "ok", h, NoObj), Log("OpenDir", Resolve(Root, v)))
    BY <1>2 DEF OpenDir, Grants
  <2>2. h \in Ids /\ sftp[s].file_handles[h] = NoFile /\ \A l \in leases[s] : l.h # h
    BY DEF HandleOf, OpenDir, NewDirId, NewId
  <2>3. sftp[s] \in SftpState /\ leases[s] \in SUBSET Lease /\ lease \in Lease
    <3>1. lease \in leases'[s]
      BY <2>1 DEF TypeOK, SessionTypeOK
    <3> HIDE DEF lease
    <3>2. QED BY <3>1 DEF TypeOK, SessionTypeOK
  <2>4. /\ new.handles = [sftp[s].handles EXCEPT ![h] = PathOfOpenDir(v)]
        /\ new.file_handles = sftp[s].file_handles
    BY <2>3 DEF SftpState
  <2>5. lease.h = h /\ lease.kind = "dir" /\ lease.path = v
    OBVIOUS
  <2>6. Quiet(reply', event') /\ reply'.st # "lost"
    BY <2>1 DEF Says, Answer, Log, Quiet
  <2> HIDE DEF new, lease, h
  <2>7. /\ new.handles[h] = PathOfOpenDir(v)
        /\ new.file_handles[h] = NoFile
        /\ \A i \in Ids : i # h => /\ new.handles[i] = sftp[s].handles[i]
                                   /\ new.file_handles[i] = sftp[s].file_handles[i]
    BY <2>2, <2>3, <2>4 DEF SftpState
  <2>8. Denotes(new, lease)
    BY <2>5, <2>7 DEF Denotes, PathOfOpenDir
  <2>9. Owned(new, leases[s] \cup {lease})
    <3>1. Owned(sftp[s], leases[s]) /\ \A l \in leases[s] : l.h # lease.h
      BY <2>2, <2>5 DEF MapsInv
    <3>2. \A i \in Ids : i # lease.h => /\ new.handles[i] = sftp[s].handles[i]
                                       /\ new.file_handles[i] = sftp[s].file_handles[i]
      BY <2>5, <2>7
    <3>. QED  BY <2>3, <2>8, <3>1, <3>2, GrantOwned
  <2>10. MapsInv'
    BY <2>1, <2>9, LocalOwned
  <2>11. QED BY <2>6, <2>10, QuietServed DEF Harmless
<1>3. QED BY <1>1, <1>2

(* CLOSE forgets the path of the handle, and the client its lease.         *)
LEMMA CloseOwned ==
  ASSUME TypeOK, MapsInv, NEW s \in Sessions, NEW h \in Ids, Close(s, h)
  PROVE  MapsInv' /\ OnlyLeasesAreServed' /\ AuditNamesLease' /\ Harmless
<1> DEFINE new == [sftp[s] EXCEPT !.handles[h] = Err]
           ls == {l \in leases[s] : l.h # h}
<1>1. /\ sftp' = [sftp EXCEPT ![s] = new]
      /\ leases' = [leases EXCEPT ![s] = ls]
      /\ Says(Answer(s, "close", "ok", h, NoObj), NoEvent)
  BY DEF Close, TypeOK, SessionTypeOK
<1>2. sftp[s] \in SftpState /\ leases[s] \in SUBSET Lease
  BY DEF TypeOK, SessionTypeOK
<1>3. /\ new.handles = [sftp[s].handles EXCEPT ![h] = Err]
      /\ new.file_handles = sftp[s].file_handles
      /\ sftp[s].handles \in [Ids -> Path]
  BY <1>2 DEF SftpState
<1>4. Quiet(reply', event') /\ reply'.st # "lost"
  BY <1>1 DEF Says, Answer, NoEvent, Quiet
<1> HIDE DEF new
<1>5. /\ new.handles[h] = Err
      /\ \A i \in Ids : i # h => new.handles[i] = sftp[s].handles[i]
  BY <1>3
<1>6. Owned(new, ls)
  <2>1. Owned(sftp[s], leases[s])
    BY DEF MapsInv
  <2>2. \A i \in Ids : new.handles[i] # Err => \E l \in ls : l.h = i
    BY <1>5, <2>1 DEF Owned
  <2>3. ASSUME NEW l \in ls PROVE Denotes(new, l)
    <3>1. l.h \in Ids /\ l.h # h /\ Denotes(sftp[s], l)
      BY <1>2, <2>1 DEF Lease, Owned
    <3>2. QED BY <1>3, <1>5, <3>1 DEF Denotes
  <2>4. \A l, m \in ls : l.h = m.h => l = m
    BY <2>1 DEF Owned
  <2>5. QED BY <2>2, <2>3, <2>4 DEF Owned
<1>7. MapsInv'
  BY <1>1, <1>6, LocalOwned
<1>8. QED BY <1>4, <1>7, QuietServed DEF Harmless
(* A READ or WRITE that finds both a path and an open descriptor is asked  *)
(* by the holder of the handle.                                            *)
LEMMA HolderServed ==
  ASSUME MapsInv, NEW s \in Sessions, NEW h \in Ids,
         sftp[s].handles[h] # Err, sftp[s].file_handles[h].flags # {},
         reply'.to = s, reply'.h = h, reply'.obj = sftp[s].file_handles[h].obj,
         event'.target = sftp[s].handles[h], UNCHANGED leases
  PROVE  OnlyLeasesAreServed' /\ AuditNamesLease'
<1>1. Owned(sftp[s], leases[s])
  BY DEF MapsInv
<1>2. PICK l \in leases[s] : l.h = h
  BY <1>1 DEF Owned
<1>3. Denotes(sftp[s], l)
  BY <1>1 DEF Owned
<1>4. l.kind = "file"
  BY <1>2, <1>3 DEF Denotes, NoFile
<1>5. /\ sftp[s].handles[h] = Resolve(Root, l.path)
      /\ sftp[s].file_handles[h].obj = l.obj
  BY <1>2, <1>3, <1>4 DEF Denotes
<1>6. l \in leases'[reply'.to] /\ l.h = reply'.h /\ l.obj = reply'.obj
  BY <1>2, <1>5
<1>7. QED BY <1>4, <1>5, <1>6 DEF OnlyLeasesAreServed, AuditNamesLease

LEMMA ReadOwned ==
  ASSUME TypeOK, MapsInv, NEW s \in Sessions,
         \/ ReadFinish(s)
         \/ \E h \in Ids, off \in 0..MaxSize, len \in Lens : ReadStart(s, h, off, len)
  PROVE  MapsInv' /\ OnlyLeasesAreServed' /\ AuditNamesLease' /\ Harmless
<1>1. CASE ReadFinish(s)
  <2> DEFINE h == work[s].h
             f == sftp[s].file_handles[h]
             none == work[s].len = 0 \/ work[s].off >= size[f.obj]
             r == [Answer(s, "read", "ok", h, f.obj) EXCEPT !.empty = none]
  <2>1. CASE Dies(s, "read", h)
    BY <1>1, <2>1, PanicOwned DEF ReadFinish
  <2>2. CASE Unheard(s, "read", h)
    BY <2>2, UnheardOwned
  <2>3. CASE ~Dies(s, "read", h) /\ ~Unheard(s, "read", h)
    <3>1. /\ Readable(s, h)
          /\ Says(r, Log("Read", sftp[s].handles[h]))
          /\ UNCHANGED <<disk, sftp, leases>>
      BY <1>1, <2>3 DEF ReadFinish
    <3>2. h \in Ids
      BY DEF TypeOK, SessionTypeOK, Work
    <3>3. r.to = s /\ r.h = h /\ r.obj = f.obj /\ r.st = "ok"
      BY DEF Answer
    <3>4. Log("Read", sftp[s].handles[h]).target = sftp[s].handles[h]
      BY DEF Log
    <3>5. f.flags # {} /\ sftp[s].handles[h] # Err
      BY <3>1 DEF Readable
    <3> HIDE DEF r
    <3>6. reply' = r /\ event' = Log("Read", sftp[s].handles[h])
      BY <3>1 DEF Says
    <3>7. /\ reply'.to = s /\ reply'.h = h /\ reply'.obj = f.obj
          /\ event'.target = sftp[s].handles[h]
      BY <3>3, <3>4, <3>6
    <3>8. OnlyLeasesAreServed' /\ AuditNamesLease'
      BY <3>1, <3>2, <3>5, <3>7, HolderServed
    <3>9. MapsInv' /\ Harmless
      BY <3>1 DEF MapsInv, Harmless
    <3>10. QED BY <3>8, <3>9
  <2>4. QED BY <2>1, <2>2, <2>3
<1>2. ASSUME NEW h \in Ids, NEW off \in 0..MaxSize, NEW len \in Lens, ReadStart(s, h, off, len)
      PROVE  MapsInv' /\ OnlyLeasesAreServed' /\ AuditNamesLease' /\ Harmless
  <2> DEFINE r == Answer(s, "read", "eof", h, sftp[s].file_handles[h].obj)
  <2>1. /\ Quiet(r, NoEvent) /\ r.st # "lost"
        /\ Quiet(NoReply, NoEvent) /\ NoReply.st # "lost"
    BY DEF Quiet, Answer, NoEvent, NoReply
  <2>2. \/ Panic(s, "read", h)
        \/ Says(r, NoEvent) /\ UNCHANGED <<sftp, leases>>
        \/ Says(NoReply, NoEvent) /\ UNCHANGED <<sftp, leases>>
    BY <1>2 DEF ReadStart, Serves, session
  <2> HIDE DEF r
  <2>3. QED BY <2>1, <2>2, PanicOwned, KeepsOwned DEF Panic
<1>3. QED BY <1>1, <1>2

(* A WRITE is the one request that may end its session after it changed    *)
(* the disk, and then the handle has no path: its holder closed it.        *)
LEMMA WriteOwned ==
  ASSUME TypeOK, MapsInv, NEW s \in Sessions, NEW h \in Ids, NEW off \in 0..MaxSize,
         NEW n \in 1..MaxSize, Write(s, h, off, n)
  PROVE  MapsInv' /\ OnlyLeasesAreServed' /\ AuditNamesLease' /\ Harmless
<1> DEFINE f == sftp[s].file_handles[h]
           r == Answer(s, "write", "ok", h, f.obj)
           ev == Log("Write", sftp[s].handles[h])
<1>1. \/ Panic(s, "write", h)
      \/ \E o : Serves(Answer(s, "write", "eof", h, o), NoEvent)
      \/ Writable(f.flags) /\ sftp[s].handles[h] # Err /\ Serves(r, ev)
      \/ Unheard(s, "write", h)
      \/ sftp[s].handles[h] = Err /\ Dies(s, "write", h)
  BY DEF Write, ShortWrite, Logs, Answer
<1>2. CASE Panic(s, "write", h) \/ Unheard(s, "write", h)
  BY <1>2, PanicOwned, UnheardOwned DEF Panic
<1>3. CASE \E o : Serves(Answer(s, "write", "eof", h, o), NoEvent)
  <2>1. PICK o : Serves(Answer(s, "write", "eof", h, o), NoEvent)
    BY <1>3
  <2>2. /\ Quiet(Answer(s, "write", "eof", h, o), NoEvent)
        /\ Answer(s, "write", "eof", h, o).st # "lost"
    BY DEF Quiet, Answer, NoEvent
  <2>3. /\ Says(Answer(s, "write", "eof", h, o), NoEvent)
        /\ UNCHANGED <<sftp, leases>>
    BY <2>1 DEF Serves, session
  <2>4. QED BY <2>2, <2>3, KeepsOwned
<1>4. CASE Writable(f.flags) /\ sftp[s].handles[h] # Err /\ Serves(r, ev)
  <2>1. /\ r.to = s /\ r.h = h /\ r.obj = f.obj /\ r.st = "ok"
        /\ ev.target = sftp[s].handles[h] /\ f.flags # {}
    BY <1>4 DEF Answer, Log, Writable
  <2>2. reply' = r /\ event' = ev /\ UNCHANGED <<sftp, leases>>
    BY <1>4 DEF Serves, Says, session
  <2> HIDE DEF r, ev
  <2>3. OnlyLeasesAreServed' /\ AuditNamesLease'
    BY <1>4, <2>1, <2>2, HolderServed
  <2>4. MapsInv' /\ Harmless
    BY <2>1, <2>2 DEF MapsInv, Harmless
  <2>5. QED BY <2>3, <2>4
<1>5. CASE sftp[s].handles[h] = Err /\ Dies(s, "write", h)
  <2>1. reply'.to = s /\ reply'.op = "write" /\ reply'.h = h
    BY <1>5 DEF Dies, DiesOf, Says, Answer
  <2>2. ASSUME NEW l \in leases[s] PROVE l.h # h
    <3>1. Denotes(sftp[s], l) /\ l.path \in Requests
      BY DEF MapsInv, Owned, TypeOK, SessionTypeOK, Lease
    <3>2. sftp[s].handles[l.h] # Err
      BY <3>1, RequestPaths DEF Denotes
    <3>3. QED BY <1>5, <3>2
  <2>3. Harmless
    BY <2>1, <2>2 DEF Harmless
  <2>4. QED BY <1>5, <2>3, EndOwned DEF Dies
<1>6. QED BY <1>1, <1>2, <1>3, <1>4, <1>5
LEMMA ReaddirOwned ==
  ASSUME TypeOK, MapsInv, NEW s \in Sessions,
         \/ ReaddirOpen(s) \/ ReaddirNames(s) \/ ReaddirEntry(s) \/ ReaddirFinish(s)
         \/ \E h \in Ids : ReaddirStart(s, h)
  PROVE  MapsInv' /\ OnlyLeasesAreServed' /\ AuditNamesLease' /\ Harmless
<1>1. /\ sftp = [sftp EXCEPT ![s] = sftp[s]]
      /\ leases = [leases EXCEPT ![s] = leases[s]]
      /\ sftp[s] \in SftpState /\ leases[s] \in SUBSET Lease
  BY DEF TypeOK, SessionTypeOK
<1>2. Owned(sftp[s], leases[s])
  BY DEF MapsInv
<1>3. Quiet(NoReply, NoEvent) /\ NoReply.st # "lost"
  BY DEF Quiet, NoReply, NoEvent
<1>4. CASE ReaddirOpen(s) \/ ReaddirNames(s) \/ ReaddirEntry(s)
  <2>1. \/ Panic(s, "readdir", work[s].h)
        \/ Says(NoReply, NoEvent) /\ UNCHANGED <<sftp, leases>>
    BY <1>4 DEF ReaddirOpen, ReaddirNames, ReaddirEntry, Panic
  <2>2. QED BY <1>3, <2>1, PanicOwned, KeepsOwned DEF Panic
<1>5. CASE ReaddirFinish(s)
  <2>1. CASE Unheard(s, "readdir", work[s].h)
    BY <2>1, UnheardOwned
  <2>2. CASE ~Unheard(s, "readdir", work[s].h)
    <3>1. /\ leases' = [leases EXCEPT ![s] = Phase(leases[s], work[s].h, "listed")]
          /\ UNCHANGED <<disk, sftp>>
          /\ Says(Answer(s, "readdir", "ok", work[s].h, NoObj), Log("ReadDir", work[s].real))
      BY <1>5, <2>2 DEF ReaddirFinish
    <3>2. Owned(sftp[s], Phase(leases[s], work[s].h, "listed"))
      BY <1>1, <1>2, PhaseOwned
    <3>3. MapsInv'
      BY <1>1, <3>1, <3>2, LocalOwned
    <3>4. Quiet(reply', event')
      BY <3>1 DEF Says, Quiet, Answer, Log
    <3>5. QED BY <3>1, <3>3, <3>4, QuietServed DEF Harmless
  <2>3. QED BY <2>1, <2>2
<1>6. ASSUME NEW h \in Ids, ReaddirStart(s, h)
      PROVE  MapsInv' /\ OnlyLeasesAreServed' /\ AuditNamesLease' /\ Harmless
  <2> DEFINE flag == CheckReqDone(sftp[s].root_dir_read_done).flag
             new == [sftp[s] EXCEPT !.root_dir_read_done = flag]
             ls == Phase(leases[s], h, "ended")
  <2>1. UNCHANGED disk
    BY <1>6 DEF ReaddirStart
  <2>2. CASE Dies(s, "readdir", h)
    BY <2>1, <2>2, PanicOwned
  <2>3. CASE Unheard(s, "readdir", h)
    BY <2>3, UnheardOwned
  <2>4. CASE ~Dies(s, "readdir", h) /\ ~Unheard(s, "readdir", h)
    <3>1. /\ sftp' = [sftp EXCEPT ![s] = new]
          /\ \/ /\ leases' = [leases EXCEPT ![s] = ls]
                /\ Says(Answer(s, "readdir", "eof", h, NoObj), NoEvent)
             \/ UNCHANGED leases /\ Says(NoReply, NoEvent)
      BY <1>6, <2>4 DEF ReaddirStart
    <3>2. Quiet(Answer(s, "readdir", "eof", h, NoObj), NoEvent)
      BY DEF Quiet, Answer, NoEvent
    <3>3. Quiet(reply', event')
      BY <1>3, <3>1, <3>2 DEF Says
    <3>4. Owned(new, leases[s])
      BY <1>1, <1>2, FlagOwned
    <3>5. Owned(new, ls)
      BY <1>1, <3>4, PhaseOwned
    <3> HIDE DEF new, ls
    <3>6. leases' = [leases EXCEPT ![s] = ls] \/ leases' = [leases EXCEPT ![s] = leases[s]]
      BY <1>1, <3>1
    <3>7. MapsInv'
      BY <3>1, <3>4, <3>5, <3>6, LocalOwned
    <3>8. QED BY <2>1, <3>3, <3>7, QuietServed DEF Harmless
  <2>5. QED BY <2>2, <2>3, <2>4
<1>7. QED BY <1>4, <1>5, <1>6

(* The other requests leave the maps alone.                                *)
LEMMA PathsOwned ==
  ASSUME TypeOK, MapsInv, NEW s \in Sessions,
         \/ Setstat(s) \/ RealpathFinish(s) \/ \E h \in Ids : Fstat(s, h)
         \/ \E v \in Requests : \/ Lstat(s, v) \/ Stat(s, v) \/ FxpRemove(s, v)
                                \/ Mkdir(s, v) \/ Rmdir(s, v) \/ RealpathStart(s, v)
         \/ \E v, w \in Requests : FxpRename(s, v, w)
  PROVE  MapsInv' /\ OnlyLeasesAreServed' /\ AuditNamesLease' /\ Harmless
<1> DEFINE Kept(op, st) ==
             /\ \E h, o, ev : Says(Answer(s, op, st, h, o), ev) /\ ev.action \notin {"Read", "Write"}
             /\ UNCHANGED <<sftp, leases>>
           Ended == \E op, h : Panic(s, op, h) \/ Unheard(s, op, h)
<1>1. ASSUME NEW op \in Handlers \ {"read", "write"}, NEW st \in {"ok", "nosuchfile", "unsupported"},
             Kept(op, st)
      PROVE  MapsInv' /\ OnlyLeasesAreServed' /\ AuditNamesLease' /\ Harmless
  <2>1. PICK h, o, ev : Says(Answer(s, op, st, h, o), ev) /\ ev.action \notin {"Read", "Write"}
    BY <1>1
  <2>2. Quiet(Answer(s, op, st, h, o), ev) /\ Answer(s, op, st, h, o).st # "lost"
    BY <2>1 DEF Quiet, Answer
  <2>3. QED BY <1>1, <2>1, <2>2, KeepsOwned
<1>2. ASSUME Ended
      PROVE  MapsInv' /\ OnlyLeasesAreServed' /\ AuditNamesLease' /\ Harmless
  BY <1>2, PanicOwned, UnheardOwned DEF Panic
<1>3. (\A a, p : Log(a, p).action = a) /\ NoEvent.action = "none"
  BY DEF Log, NoEvent
<1>4. ASSUME NEW op, NEW h, NEW o, NEW ev, ev.action \notin {"Read", "Write"},
             Logs(Answer(s, op, "ok", h, o), ev)
      PROVE  Ended \/ Kept(op, "ok")
  <2>1. Serves(Answer(s, op, "ok", h, o), ev) \/ Unheard(s, op, h)
    BY <1>4 DEF Logs, Answer
  <2>2. QED BY <1>4, <2>1 DEF Serves, session
<1>5. CASE Setstat(s)
  <2>1. Kept("setstat", "unsupported")
    BY <1>3, <1>5 DEF Setstat, Serves, session
  <2>2. QED BY <1>1, <2>1 DEF Handlers
<1>6. CASE RealpathFinish(s)
  <2>1. Ended \/ Kept("realpath", "ok")
    BY <1>3, <1>6 DEF RealpathFinish, Panic
  <2>2. QED BY <1>1, <1>2, <2>1 DEF Handlers
<1>7. ASSUME NEW h \in Ids, Fstat(s, h)
      PROVE  MapsInv' /\ OnlyLeasesAreServed' /\ AuditNamesLease' /\ Harmless
  <2> DEFINE real == Resolve(Root, sftp[s].handles[h])
  <2>1. CASE Serves(Answer(s, "fstat", "nosuchfile", h, NoObj), NoEvent)
    <3>1. Kept("fstat", "nosuchfile")
      BY <1>3, <2>1 DEF Serves, session
    <3>2. QED BY <1>1, <3>1 DEF Handlers
  <2>2. CASE Logs(Answer(s, "fstat", "ok", h, tree[At(real)]), Log("Fstat", real))
    <3>1. Ended \/ Kept("fstat", "ok")
      BY <1>3, <1>4, <2>2
    <3>2. QED BY <1>1, <1>2, <3>1 DEF Handlers
  <2>3. CASE Panic(s, "fstat", h)
    BY <1>2, <2>3
  <2>4. QED BY <1>7, <2>1, <2>2, <2>3 DEF Fstat
<1>8. ASSUME NEW v \in Requests, Lstat(s, v) \/ Stat(s, v)
      PROVE  MapsInv' /\ OnlyLeasesAreServed' /\ AuditNamesLease' /\ Harmless
  <2> DEFINE real == Resolve(Root, v)
  <2>1. CASE Logs(Answer(s, "lstat", "ok", 0, tree[At(real)]), Log("Lstat", real))
    <3>1. Ended \/ Kept("lstat", "ok")
      BY <1>3, <1>4, <2>1
    <3>2. QED BY <1>1, <1>2, <3>1 DEF Handlers
  <2>2. CASE Logs(Answer(s, "stat", "ok", 0, tree[At(real)]), Log("Stat", real))
    <3>1. Ended \/ Kept("stat", "ok")
      BY <1>3, <1>4, <2>2
    <3>2. QED BY <1>1, <1>2, <3>1 DEF Handlers
  <2>3. CASE Serves(Answer(s, "stat", "nosuchfile", 0, NoObj), NoEvent)
    <3>1. Kept("stat", "nosuchfile")
      BY <1>3, <2>3 DEF Serves, session
    <3>2. QED BY <1>1, <3>1 DEF Handlers
  <2>4. CASE Panic(s, "lstat", 0)
    BY <1>2, <2>4
  <2>5. QED BY <1>8, <2>1, <2>2, <2>3, <2>4 DEF Lstat, Stat
<1>9. ASSUME NEW v \in Requests, FxpRemove(s, v) \/ Mkdir(s, v) \/ Rmdir(s, v)
      PROVE  MapsInv' /\ OnlyLeasesAreServed' /\ AuditNamesLease' /\ Harmless
  <2>1. \/ \E o, p : Logs(Answer(s, "remove", "ok", 0, o), Log("Remove", p))
        \/ \E o, p : Logs(Answer(s, "mkdir", "ok", 0, o), Log("MakeDir", p))
        \/ \E o, p : Logs(Answer(s, "rmdir", "ok", 0, o), Log("RemoveDir", p))
        \/ Ended
    BY <1>9 DEF FxpRemove, Mkdir, Rmdir
  <2>2. Kept("remove", "ok") \/ Kept("mkdir", "ok") \/ Kept("rmdir", "ok") \/ Ended
    BY <1>3, <1>4, <2>1
  <2>3. QED BY <1>1, <1>2, <2>2 DEF Handlers
<1>10. ASSUME NEW v \in Requests, RealpathStart(s, v)
       PROVE  MapsInv' /\ OnlyLeasesAreServed' /\ AuditNamesLease' /\ Harmless
  <2>1. \/ Ended \/ Kept("realpath", "nosuchfile")
        \/ Says(NoReply, NoEvent) /\ UNCHANGED <<sftp, leases>>
    BY <1>3, <1>10 DEF RealpathStart, Serves, session
  <2>2. Quiet(NoReply, NoEvent) /\ NoReply.st # "lost"
    BY DEF Quiet, NoReply, NoEvent
  <2>3. CASE Ended \/ Kept("realpath", "nosuchfile")
    BY <1>1, <1>2, <2>3 DEF Handlers
  <2>4. CASE Says(NoReply, NoEvent) /\ UNCHANGED <<sftp, leases>>
    BY <2>2, <2>4, KeepsOwned
  <2>5. QED BY <2>1, <2>3, <2>4
<1>11. ASSUME NEW v \in Requests, NEW w \in Requests, FxpRename(s, v, w)
       PROVE  MapsInv' /\ OnlyLeasesAreServed' /\ AuditNamesLease' /\ Harmless
  <2>1. (\E o, p : Logs(Answer(s, "rename", "ok", 0, o), Log("Rename", p))) \/ Ended
    BY <1>11 DEF FxpRename
  <2>2. Kept("rename", "ok") \/ Ended
    BY <1>3, <1>4, <2>1
  <2>3. QED BY <1>1, <1>2, <2>2 DEF Handlers
<1>12. QED BY <1>5, <1>6, <1>7, <1>8, <1>9, <1>10, <1>11

(* Coming and going.                                                       *)
LEMMA SessionsOwned ==
  ASSUME TypeOK, MapsInv, NEW s \in Sessions, Connect(s) \/ Disconnect(s) \/ FxpInit(s)
  PROVE  MapsInv' /\ OnlyLeasesAreServed' /\ AuditNamesLease' /\ Harmless
<1>1. Quiet(NoReply, NoEvent) /\ NoReply.st # "lost"
  BY DEF Quiet, NoReply, NoEvent
<1>2. CASE Connect(s)
  BY <1>1, <1>2, KeepsOwned DEF Connect
<1>3. CASE Disconnect(s)
  <2>1. MapsInv'
    BY <1>3, NewOwned, LocalOwned DEF Disconnect, Reset
  <2>2. QED BY <1>1, <1>3, <2>1, QuietServed DEF Disconnect, Says, Harmless
<1>4. CASE FxpInit(s)
  <2>1. \A st : Quiet(Answer(s, "init", st, 0, NoObj), NoEvent)
    BY DEF Quiet, Answer, NoEvent
  <2>2. \A st : Answer(s, "init", st, 0, NoObj).st = st
    BY DEF Answer
  <2>3. CASE Unheard(s, "init", 0)
    BY <2>3, UnheardOwned
  <2>4. CASE Serves(Answer(s, "init", "connectionlost", 0, NoObj), NoEvent)
    BY <2>1, <2>2, <2>4, KeepsOwned DEF Serves, session
  <2>5. CASE /\ sftp' = [sftp EXCEPT ![s].version = TRUE]
             /\ Says(Answer(s, "init", "ok", 0, NoObj), NoEvent)
             /\ UNCHANGED <<disk, alive, work, leases>>
    <3> DEFINE new == [sftp[s] EXCEPT !.version = TRUE]
    <3>1. new.handles = sftp[s].handles /\ new.file_handles = sftp[s].file_handles
      BY DEF TypeOK, SessionTypeOK, SftpState
    <3>2. sftp' = [sftp EXCEPT ![s] = new]
      BY <2>5
    <3> HIDE DEF new
    <3>3. Owned(new, leases[s])
      BY <3>1 DEF MapsInv, Owned, Denotes
    <3>4. leases' = [leases EXCEPT ![s] = leases[s]]
      BY <2>5 DEF TypeOK, SessionTypeOK
    <3>5. MapsInv'
      BY <3>2, <3>3, <3>4, LocalOwned
    <3>6. QED BY <2>1, <2>5, <3>5, QuietServed DEF Says, Harmless
  <2>6. QED BY <1>4, <2>3, <2>4, <2>5 DEF FxpInit
<1>5. QED BY <1>2, <1>3, <1>4

LEMMA StepOwned ==
  ASSUME IInv, [Next]_vars
  PROVE  IInv' /\ Harmless
<1>1. TypeOK' /\ TypeOK /\ MapsInv
  BY StepTypes DEF IInv
<1>2. CASE UNCHANGED vars
  <2>1. MapsInv' /\ OnlyLeasesAreServed' /\ AuditNamesLease'
    BY <1>2 DEF IInv, MapsInv, OnlyLeasesAreServed, AuditNamesLease, vars, session
  <2>2. QED BY <1>1, <1>2, <2>1 DEF IInv, Harmless, vars
<1>3. ASSUME NEW s \in Sessions, Connect(s) \/ Disconnect(s) \/ Request(s) \/ Advance(s)
      PROVE  MapsInv' /\ OnlyLeasesAreServed' /\ AuditNamesLease' /\ Harmless
  <2>1. CASE Connect(s) \/ Disconnect(s)
    BY <1>1, <2>1, SessionsOwned
  <2>2. CASE Advance(s)
    BY <1>1, <2>2, ReadOwned, ReaddirOwned, PathsOwned DEF Advance
  <2>3. CASE Request(s)
    <3>1. CASE FxpInit(s)
      BY <1>1, <3>1, SessionsOwned
    <3>2. CASE \E v \in Requests, f \in FlagSets, id \in Ids : Open(s, v, f, id)
      BY <1>1, <3>2, OpenOwned
    <3>3. CASE \E v \in Requests, id \in Ids : OpenDir(s, v, id)
      BY <1>1, <3>3, OpenDirOwned
    <3>4. CASE \E v \in Requests : \/ Lstat(s, v) \/ Stat(s, v) \/ FxpRemove(s, v)
                                   \/ Mkdir(s, v) \/ Rmdir(s, v) \/ RealpathStart(s, v)
      BY <1>1, <3>4, PathsOwned
    <3>5. CASE \E v, w \in Requests : FxpRename(s, v, w)
      BY <1>1, <3>5, PathsOwned
    <3>6. CASE \E h \in Ids : Close(s, h)
      BY <1>1, <3>6, CloseOwned
    <3>7. CASE Setstat(s) \/ \E h \in Ids : Fstat(s, h)
      BY <1>1, <3>7, PathsOwned
    <3>8. CASE \E h \in Ids : ReaddirStart(s, h)
      BY <1>1, <3>8, ReaddirOwned
    <3>9. CASE \E h \in Ids, off \in 0..MaxSize, len \in Lens : ReadStart(s, h, off, len)
      BY <1>1, <3>9, ReadOwned
    <3>10. CASE \E h \in Ids, off \in 0..MaxSize, n \in 1..MaxSize : Write(s, h, off, n)
      BY <1>1, <3>10, WriteOwned
    <3>11. QED
      BY <2>3, <3>1, <3>2, <3>3, <3>4, <3>5, <3>6, <3>7, <3>8, <3>9, <3>10 DEF Request
  <2>4. QED BY <1>3, <2>1, <2>2, <2>3
<1>4. CASE Next
  <2>1. PICK s \in Sessions : Connect(s) \/ Disconnect(s) \/ Request(s) \/ Advance(s)
    BY <1>4 DEF Next
  <2>2. QED BY <1>1, <1>3, <2>1 DEF IInv
<1>5. QED BY <1>2, <1>4

LEMMA IInvInvariant == Spec => []IInv
<1>1. ASSUME Init PROVE IInv
  <2>1. MapsInv
    BY <1>1, NewOwned DEF Init, MapsInv
  <2>2. OnlyLeasesAreServed /\ AuditNamesLease
    BY <1>1 DEF Init, NoReply, NoEvent, OnlyLeasesAreServed, AuditNamesLease
  <2>3. QED BY <1>1, <2>1, <2>2, InitTypes DEF IInv
<1>2. IInv /\ [Next]_vars => IInv'
  BY StepOwned
<1>3. QED BY <1>1, <1>2, PTL DEF Spec

(* For any number of sessions and any requests, the two maps of a session  *)
(* say of every handle its client holds what the OPEN or OPENDIR that      *)
(* granted it put there (sftp_server.rs:193-202, 328-339), as long as the  *)
(* client does not take the id of a handle it holds, nor an OPEN's for an  *)
(* OPENDIR: then HandleOf's strings collide.                               *)
THEOREM HandlesDenoteLeasesTheorem == Spec => []HandlesDenoteLeases
<1>1. IInv => HandlesDenoteLeases
  BY DEF IInv, MapsInv, Owned, HandlesDenoteLeases
<1>2. QED BY <1>1, IInvInvariant, PTL

(* Although CLOSE leaves the file open (sftp_server.rs:169-178), READ and  *)
(* WRITE are answered Ok to holders only, from the file of their OPEN.     *)
THEOREM OnlyLeasesAreServedTheorem == Spec => []OnlyLeasesAreServed
<1>1. IInv => OnlyLeasesAreServed
  BY DEF IInv
<1>2. QED BY <1>1, IInvInvariant, PTL

(* The path a Read or Write record names, taken from handles, is the one   *)
(* the file, taken from file_handles, was opened by                        *)
(* (sftp_server.rs:274-275, 301-302).                                      *)
THEOREM AuditNamesLeaseTheorem == Spec => []AuditNamesLease
<1>1. IInv => AuditNamesLease
  BY DEF IInv
<1>2. QED BY <1>1, IInvInvariant, PTL

(* No request an unwrap() leaves unanswered has changed the disk, but a    *)
(* WRITE through a handle its client does not hold (sftp_server.rs:301):   *)
(* one that changed it and has no answer ended at its audit event, after   *)
(* all it had to do (audit.rs:27).                                         *)
THEOREM LostRequestsLeaveDiskTheorem == Spec => LostRequestsLeaveDisk
<1>1. IInv /\ [Next]_vars =>
        [reply'.st = "lost" /\ disk' # disk =>
           /\ reply'.op = "write"
           /\ \A l \in leases[reply'.to] : l.h # reply'.h]_vars
  BY StepOwned DEF Harmless
<1>2. QED BY <1>1, IInvInvariant, PTL DEF Spec, LostRequestsLeaveDisk
-----------------------------------------------------------------------------
(* What the steps do to the table of handles.                              *)

\* No path and no file of any session changes.
MapsKept ==
  \A t \in Sessions : /\ sftp'[t].handles = sftp[t].handles
                      /\ sftp'[t].file_handles = sftp[t].file_handles

\* A step that serves nothing, and after which s has its handles or none at all.
Aside(s) == Quiet(reply', event') /\ (MapsKept \/ Reset(s))

LEMMA EndAside ==
  ASSUME NEW s, NEW op, NEW h, Dies(s, op, h) \/ Unheard(s, op, h) \/ Panic(s, op, h)
  PROVE  Aside(s)
<1>1. PICK st : DiesOf(s, op, st, h) /\ st # "ok"
  BY DEF Dies, Unheard, Panic
<1>2. Quiet(reply', event')
  BY <1>1 DEF DiesOf, Says, Quiet, Answer, NoEvent
<1>3. QED BY <1>1, <1>2 DEF DiesOf, Aside

(* A step of s that says r and ev.                                         *)
LEMMA AnswerAside ==
  ASSUME NEW s, NEW r, NEW ev, Says(r, ev), Quiet(r, ev), UNCHANGED sftp
  PROVE  Aside(s)
  BY DEF Says, Aside, MapsKept

LEMMA PathsAside ==
  ASSUME TypeOK, NEW s \in Sessions,
         \/ Setstat(s) \/ RealpathFinish(s) \/ \E h \in Ids : Fstat(s, h)
         \/ \E v \in Requests : \/ Lstat(s, v) \/ Stat(s, v) \/ FxpRemove(s, v)
                                \/ Mkdir(s, v) \/ Rmdir(s, v) \/ RealpathStart(s, v)
         \/ \E v, w \in Requests : FxpRename(s, v, w)
  PROVE  Aside(s)
<1> DEFINE Kept(op) ==
             /\ \E st, h, o, ev : /\ Says(Answer(s, op, st, h, o), ev)
                                  /\ ev.action \notin {"Read", "Write"}
             /\ UNCHANGED sftp
           Ended == \E op, h : Dies(s, op, h) \/ Unheard(s, op, h) \/ Panic(s, op, h)
<1>1. ASSUME NEW op \in Handlers \ {"read", "write"}, Kept(op)
      PROVE  Aside(s)
  <2>1. PICK st, h, o, ev : /\ Says(Answer(s, op, st, h, o), ev)
                            /\ ev.action \notin {"Read", "Write"}
    BY <1>1
  <2>2. Quiet(Answer(s, op, st, h, o), ev)
    BY <2>1 DEF Quiet, Answer
  <2>3. QED BY <1>1, <2>1, <2>2, AnswerAside
<1>2. ASSUME Ended PROVE Aside(s)
  BY <1>2, EndAside
<1>3. (\A a, p : Log(a, p).action = a) /\ NoEvent.action = "none"
  BY DEF Log, NoEvent
<1>4. ASSUME NEW op, NEW st, NEW h, NEW o, NEW ev, ev.action \notin {"Read", "Write"},
             \/ Serves(Answer(s, op, st, h, o), ev)
             \/ Logs(Answer(s, op, st, h, o), ev)
      PROVE  Ended \/ Kept(op)
  <2>1. Serves(Answer(s, op, st, h, o), ev) \/ Unheard(s, op, h)
    BY <1>4 DEF Logs, Answer
  <2>2. QED BY <1>4, <2>1 DEF Serves, session
<1>5. CASE Setstat(s)
  <2>1. Ended \/ Kept("setstat")
    BY <1>3, <1>4, <1>5 DEF Setstat
  <2>2. QED BY <1>1, <1>2, <2>1 DEF Handlers
<1>6. CASE RealpathFinish(s)
  <2>1. Ended \/ Kept("realpath")
    BY <1>3, <1>6 DEF RealpathFinish
  <2>2. QED BY <1>1, <1>2, <2>1 DEF Handlers
<1>7. ASSUME NEW h \in Ids, Fstat(s, h) PROVE Aside(s)
  <2>1. \/ Serves(Answer(s, "fstat", "nosuchfile", h, NoObj), NoEvent)
        \/ \E o, p : Logs(Answer(s, "fstat", "ok", h, o), Log("Fstat", p))
        \/ Ended
    BY <1>7 DEF Fstat
  <2>2. Ended \/ Kept("fstat")
    BY <1>3, <1>4, <2>1
  <2>3. QED BY <1>1, <1>2, <2>2 DEF Handlers
<1>8. ASSUME NEW v \in Requests, Lstat(s, v) \/ Stat(s, v) PROVE Aside(s)
  <2>1. \/ \E o, p : Logs(Answer(s, "lstat", "ok", 0, o), Log("Lstat", p))
        \/ \E o, p : Logs(Answer(s, "stat", "ok", 0, o), Log("Stat", p))
        \/ Serves(Answer(s, "stat", "nosuchfile", 0, NoObj), NoEvent)
        \/ Ended
    BY <1>8 DEF Lstat, Stat
  <2>2. Ended \/ Kept("lstat") \/ Kept("stat")
    BY <1>3, <1>4, <2>1
  <2>3. QED BY <1>1, <1>2, <2>2 DEF Handlers
<1>9. ASSUME NEW v \in Requests, FxpRemove(s, v) \/ Mkdir(s, v) \/ Rmdir(s, v) PROVE Aside(s)
  <2>1. \/ \E o, p : Logs(Answer(s, "remove", "ok", 0, o), Log("Remove", p))
        \/ \E o, p : Logs(Answer(s, "mkdir", "ok", 0, o), Log("MakeDir", p))
        \/ \E o, p : Logs(Answer(s, "rmdir", "ok", 0, o), Log("RemoveDir", p))
        \/ Ended
    BY <1>9 DEF FxpRemove, Mkdir, Rmdir
  <2>2. Ended \/ Kept("remove") \/ Kept("mkdir") \/ Kept("rmdir")
    BY <1>3, <1>4, <2>1
  <2>3. QED BY <1>1, <1>2, <2>2 DEF Handlers
<1>10. ASSUME NEW v \in Requests, RealpathStart(s, v) PROVE Aside(s)
  <2>1. \/ Ended \/ Serves(Answer(s, "realpath", "nosuchfile", 0, NoObj), NoEvent)
        \/ Says(NoReply, NoEvent) /\ UNCHANGED sftp
    BY <1>10 DEF RealpathStart
  <2>2. CASE Serves(Answer(s, "realpath", "nosuchfile", 0, NoObj), NoEvent)
    <3>1. Ended \/ Kept("realpath")
      BY <1>3, <1>4, <2>2
    <3>2. QED BY <1>1, <1>2, <3>1 DEF Handlers
  <2>3. CASE Says(NoReply, NoEvent) /\ UNCHANGED sftp
    <3>1. Quiet(NoReply, NoEvent)
      BY DEF Quiet, NoReply, NoEvent
    <3>2. QED BY <2>3, <3>1, AnswerAside
  <2>4. QED BY <1>2, <2>1, <2>2, <2>3
<1>11. ASSUME NEW v \in Requests, NEW w \in Requests, FxpRename(s, v, w) PROVE Aside(s)
  <2>1. (\E o, p : Logs(Answer(s, "rename", "ok", 0, o), Log("Rename", p))) \/ Ended
    BY <1>11 DEF FxpRename
  <2>2. Ended \/ Kept("rename")
    BY <1>3, <1>4, <2>1
  <2>3. QED BY <1>1, <1>2, <2>2 DEF Handlers
<1>12. QED BY <1>5, <1>6, <1>7, <1>8, <1>9, <1>10, <1>11

LEMMA ReaddirAside ==
  ASSUME TypeOK, NEW s \in Sessions,
         \/ ReaddirOpen(s) \/ ReaddirNames(s) \/ ReaddirEntry(s) \/ ReaddirFinish(s)
         \/ \E h \in Ids : ReaddirStart(s, h)
  PROVE  Aside(s)
<1>1. (\A h : Quiet(Answer(s, "readdir", "eof", h, NoObj), NoEvent)) /\ Quiet(NoReply, NoEvent)
  BY DEF Quiet, Answer, NoReply, NoEvent
<1>2. CASE ReaddirOpen(s) \/ ReaddirNames(s) \/ ReaddirEntry(s)
  <2>1. \/ Dies(s, "readdir", work[s].h)
        \/ Says(NoReply, NoEvent) /\ UNCHANGED sftp
    BY <1>2 DEF ReaddirOpen, ReaddirNames, ReaddirEntry, Panic
  <2>2. QED BY <1>1, <2>1, EndAside, AnswerAside
<1>3. CASE ReaddirFinish(s)
  <2>1. \/ /\ Says(Answer(s, "readdir", "ok", work[s].h, NoObj), Log("ReadDir", work[s].real))
           /\ UNCHANGED sftp
        \/ Unheard(s, "readdir", work[s].h)
    BY <1>3 DEF ReaddirFinish
  <2>2. Quiet(Answer(s, "readdir", "ok", work[s].h, NoObj), Log("ReadDir", work[s].real))
    BY DEF Quiet, Answer, Log
  <2>3. QED BY <2>1, <2>2, EndAside, AnswerAside
<1>4. ASSUME NEW h \in Ids, ReaddirStart(s, h) PROVE Aside(s)
  <2> DEFINE flag == CheckReqDone(sftp[s].root_dir_read_done).flag
             new  == [sftp[s] EXCEPT !.root_dir_read_done = flag]
  <2>1. CASE Dies(s, "readdir", h) \/ Unheard(s, "readdir", h)
    BY <2>1, EndAside
  <2>2. CASE ~Dies(s, "readdir", h) /\ ~Unheard(s, "readdir", h)
    <3>1. /\ sftp' = [sftp EXCEPT ![s] = new]
          /\ Says(Answer(s, "readdir", "eof", h, NoObj), NoEvent) \/ Says(NoReply, NoEvent)
      BY <1>4, <2>2 DEF ReaddirStart
    <3>2. new.handles = sftp[s].handles /\ new.file_handles = sftp[s].file_handles
      BY DEF TypeOK, SessionTypeOK, SftpState
    <3> HIDE DEF new
    <3>3. MapsKept
      BY <3>1, <3>2 DEF MapsKept, TypeOK, SessionTypeOK
    <3>4. Quiet(reply', event')
      BY <1>1, <3>1 DEF Says
    <3>5. QED BY <3>3, <3>4 DEF Aside
  <2>3. QED BY <2>1, <2>2
<1>5. QED BY <1>2, <1>3, <1>4

LEMMA SessionsAside ==
  ASSUME TypeOK, NEW s \in Sessions, Connect(s) \/ Disconnect(s) \/ FxpInit(s)
  PROVE  Aside(s)
<1>1. /\ Quiet(NoReply, NoEvent)
      /\ \A st : Quiet(Answer(s, "init", st, 0, NoObj), NoEvent)
  BY DEF Quiet, Answer, NoReply, NoEvent
<1>2. CASE Connect(s)
  BY <1>1, <1>2, AnswerAside DEF Connect
<1>3. CASE Disconnect(s)
  BY <1>1, <1>3 DEF Disconnect, Says, Aside
<1>4. CASE FxpInit(s)
  <2>1. CASE Unheard(s, "init", 0)
    BY <2>1, EndAside
  <2>2. CASE Serves(Answer(s, "init", "connectionlost", 0, NoObj), NoEvent)
    BY <1>1, <2>2, AnswerAside DEF Serves, session
  <2>3. CASE /\ sftp' = [sftp EXCEPT ![s].version = TRUE]
             /\ Says(Answer(s, "init", "ok", 0, NoObj), NoEvent)
             /\ UNCHANGED <<disk, alive, work, leases>>
    <3> DEFINE new == [sftp[s] EXCEPT !.version = TRUE]
    <3>1. new.handles = sftp[s].handles /\ new.file_handles = sftp[s].file_handles
      BY DEF TypeOK, SessionTypeOK, SftpState
    <3>2. sftp' = [sftp EXCEPT ![s] = new]
      BY <2>3
    <3> HIDE DEF new
    <3>3. MapsKept
      BY <3>1, <3>2 DEF MapsKept, TypeOK, SessionTypeOK
    <3>4. QED BY <1>1, <2>3, <3>3 DEF Says, Aside
  <2>4. QED BY <1>4, <2>1, <2>2, <2>3 DEF FxpInit
<1>5. QED BY <1>2, <1>3, <1>4

(* READ and WRITE: aside, or through a handle that has a path and a file.  *)
ServedNow(s, h) ==
  /\ h \in Ids /\ MapsKept
  /\ sftp[s].handles[h] # Err /\ sftp[s].file_handles[h].flags # {}
  /\ reply'.op \in {"read", "write"} /\ reply'.st = "ok"
  /\ reply'.to = s /\ reply'.h = h /\ reply'.obj = sftp[s].file_handles[h].obj
  /\ event'.target = sftp[s].handles[h]

LEMMA ReadServes ==
  ASSUME TypeOK, NEW s \in Sessions,
         \/ ReadFinish(s)
         \/ \E h \in Ids, off \in 0..MaxSize, len \in Lens : ReadStart(s, h, off, len)
  PROVE  Aside(s) \/ \E h \in Ids : ServedNow(s, h)
<1>1. CASE ReadFinish(s)
  <2> DEFINE h == work[s].h
             f == sftp[s].file_handles[h]
             none == work[s].len = 0 \/ work[s].off >= size[f.obj]
             r == [Answer(s, "read", "ok", h, f.obj) EXCEPT !.empty = none]
             ev == Log("Read", sftp[s].handles[h])
  <2>1. CASE Dies(s, "read", h) \/ Unheard(s, "read", h)
    BY <2>1, EndAside
  <2>2. CASE ~Dies(s, "read", h) /\ ~Unheard(s, "read", h)
    <3>1. Readable(s, h) /\ Says(r, ev) /\ UNCHANGED sftp
      BY <1>1, <2>2 DEF ReadFinish
    <3>2. h \in Ids
      BY DEF TypeOK, SessionTypeOK, Work
    <3>3. /\ r.to = s /\ r.op = "read" /\ r.h = h /\ r.obj = f.obj /\ r.st = "ok"
          /\ ev.target = sftp[s].handles[h]
      BY DEF Answer, Log
    <3>4. f.flags # {} /\ sftp[s].handles[h] # Err
      BY <3>1 DEF Readable
    <3> HIDE DEF r, ev
    <3>5. reply' = r /\ event' = ev
      BY <3>1 DEF Says
    <3>6. MapsKept
      BY <3>1 DEF MapsKept
    <3>7. ServedNow(s, h)
      BY <3>2, <3>3, <3>4, <3>5, <3>6 DEF ServedNow
    <3>8. QED BY <3>2, <3>7
  <2>3. QED BY <2>1, <2>2
<1>2. ASSUME NEW h \in Ids, NEW off \in 0..MaxSize, NEW len \in Lens, ReadStart(s, h, off, len)
      PROVE  Aside(s)
  <2> DEFINE r == Answer(s, "read", "eof", h, sftp[s].file_handles[h].obj)
  <2>1. Quiet(r, NoEvent) /\ Quiet(NoReply, NoEvent)
    BY DEF Quiet, Answer, NoEvent, NoReply
  <2>2. \/ Panic(s, "read", h)
        \/ Says(r, NoEvent) /\ UNCHANGED sftp
        \/ Says(NoReply, NoEvent) /\ UNCHANGED sftp
    BY <1>2 DEF ReadStart, Serves, session
  <2> HIDE DEF r
  <2>3. QED BY <2>1, <2>2, EndAside, AnswerAside
<1>3. QED BY <1>1, <1>2

LEMMA WriteServes ==
  ASSUME TypeOK, NEW s \in Sessions, NEW h \in Ids, NEW off \in 0..MaxSize,
         NEW n \in 1..MaxSize, Write(s, h, off, n)
  PROVE  Aside(s) \/ ServedNow(s, h)
<1> DEFINE f == sftp[s].file_handles[h]
           r == Answer(s, "write", "ok", h, f.obj)
           ev == Log("Write", sftp[s].handles[h])
<1>1. \/ Dies(s, "write", h) \/ Unheard(s, "write", h)
      \/ \E o : Serves(Answer(s, "write", "eof", h, o), NoEvent)
      \/ Writable(f.flags) /\ sftp[s].handles[h] # Err /\ Serves(r, ev)
  BY DEF Write, ShortWrite, Panic, Logs, Answer
<1>2. CASE Dies(s, "write", h) \/ Unheard(s, "write", h)
  BY <1>2, EndAside
<1>3. CASE \E o : Serves(Answer(s, "write", "eof", h, o), NoEvent)
  <2>1. PICK o : Serves(Answer(s, "write", "eof", h, o), NoEvent)
    BY <1>3
  <2> DEFINE a == Answer(s, "write", "eof", h, o)
  <2>2. Quiet(a, NoEvent)
    BY DEF Quiet, Answer, NoEvent
  <2>3. Says(a, NoEvent) /\ UNCHANGED sftp
    BY <2>1 DEF Serves, session
  <2> HIDE DEF a
  <2>4. QED BY <2>2, <2>3, AnswerAside
<1>4. CASE Writable(f.flags) /\ sftp[s].handles[h] # Err /\ Serves(r, ev)
  <2>1. /\ r.to = s /\ r.op = "write" /\ r.h = h /\ r.obj = f.obj /\ r.st = "ok"
        /\ ev.target = sftp[s].handles[h] /\ f.flags # {}
    BY <1>4 DEF Answer, Log, Writable
  <2>2. reply' = r /\ event' = ev /\ UNCHANGED sftp
    BY <1>4 DEF Serves, Says, session
  <2> HIDE DEF r, ev
  <2>3. MapsKept
    BY <2>2 DEF MapsKept
  <2>4. QED BY <1>4, <2>1, <2>2, <2>3 DEF ServedNow
<1>5. QED BY <1>1, <1>2, <1>3, <1>4

(* OPEN and OPENDIR fill the entry of an id of their own, CLOSE empties    *)
(* the one it names.                                                       *)
GivenNow(s, h) ==
  /\ h \in Ids /\ sftp[s].handles[h] = Err /\ Quiet(reply', event')
  /\ Thing(sftp'[s].handles[h], sftp'[s].file_handles[h].obj) \in Things
  /\ sftp'[s].handles[h] # Err
  /\ \A i \in Ids \ {h} : /\ sftp'[s].handles[i] = sftp[s].handles[i]
                          /\ sftp'[s].file_handles[i] = sftp[s].file_handles[i]
  /\ \A t \in Sessions \ {s} : sftp'[t] = sftp[t]

ClosedNow(s, h) ==
  /\ h \in Ids /\ Quiet(reply', event')
  /\ sftp'[s].handles = [sftp[s].handles EXCEPT ![h] = Err]
  /\ sftp'[s].file_handles = sftp[s].file_handles
  /\ \A t \in Sessions \ {s} : sftp'[t] = sftp[t]

(* A handle without a lease has no path.                                   *)
LEMMA NewIsUnused ==
  ASSUME IInv, NEW s \in Sessions, NEW id \in Ids, NewId(s, id)
  PROVE  sftp[s].handles[id] = Err
  BY DEF NewId, IInv, MapsInv, Owned

LEMMA OpenGives ==
  ASSUME IInv, NEW s \in Sessions, NEW v \in Requests, NEW f \in FlagSets,
         NEW id \in Ids, Open(s, v, f, id)
  PROVE  Aside(s) \/ \E h \in Ids : GivenNow(s, h)
<1> DEFINE real == Resolve(Root, v)
           h    == HandleOf(id)
           o    == tree'[At(real)]
           new  == [sftp[s] EXCEPT !.handles[h] = PathOfOpen(v),
                                   !.file_handles[h] = [obj |-> o, flags |-> f]]
<1>1. CASE Panic(s, "open", 0) \/ Unheard(s, "open", 0)
  BY <1>1, EndAside
<1>2. CASE OpensOnDisk(At(real), f) /\ OpensInSession(s, v, f, id)
  <2>1. /\ sftp' = [sftp EXCEPT ![s] = new]
        /\ Says(Answer(s, "open", "ok", h, o), Log("Open", real))
    BY <1>2 DEF OpensInSession
  <2>2. h \in Ids /\ sftp[s].handles[h] = Err
    BY NewIsUnused DEF HandleOf, Open
  <2>3. o \in Objs
    BY <1>2, OpensOnDiskTypes DEF IInv, TypeOK
  <2>4. /\ sftp[s] \in SftpState
        /\ new.handles = [sftp[s].handles EXCEPT ![h] = PathOfOpen(v)]
        /\ new.file_handles = [sftp[s].file_handles EXCEPT ![h] = [obj |-> o, flags |-> f]]
    BY DEF IInv, TypeOK, SessionTypeOK, SftpState
  <2>5. Quiet(reply', event')
    BY <2>1 DEF Says, Answer, Log, Quiet
  <2> HIDE DEF new, o, h
  <2>6. sftp'[s] = new /\ \A t \in Sessions \ {s} : sftp'[t] = sftp[t]
    BY <2>1 DEF IInv, TypeOK, SessionTypeOK
  <2>7. /\ new.handles[h] = PathOfOpen(v)
        /\ new.file_handles[h] = [obj |-> o, flags |-> f]
        /\ \A i \in Ids \ {h} : /\ new.handles[i] = sftp[s].handles[i]
                                /\ new.file_handles[i] = sftp[s].file_handles[i]
    BY <2>2, <2>4 DEF SftpState
  <2>8. Thing(new.handles[h], new.file_handles[h].obj) \in Things /\ new.handles[h] # Err
    BY <2>3, <2>7, RequestPaths DEF Things, PathOfOpen
  <2>9. GivenNow(s, h)
    BY <2>2, <2>5, <2>6, <2>7, <2>8 DEF GivenNow
  <2>10. QED BY <2>2, <2>9
<1>3. QED BY <1>1, <1>2, OpenWays

LEMMA OpenDirGives ==
  ASSUME IInv, NEW s \in Sessions, NEW v \in Requests, NEW id \in Ids, OpenDir(s, v, id)
  PROVE  Aside(s) \/ \E h \in Ids : GivenNow(s, h)
<1> DEFINE h == HandleOf(id)
           new == [sftp[s] EXCEPT !.root_dir_read_done = FALSE, !.handles[h] = PathOfOpenDir(v)]
<1>1. CASE Unheard(s, "opendir", 0)
  BY <1>1, EndAside
<1>2. CASE ~Unheard(s, "opendir", 0)
  <2>1. /\ sftp' = [sftp EXCEPT ![s] = new]
        /\ Says(Answer(s, "opendir", "ok", h, NoObj), Log("OpenDir", Resolve(Root, v)))
    BY <1>2 DEF OpenDir
  <2>2. h \in Ids /\ sftp[s].handles[h] = Err /\ sftp[s].file_handles[h] = NoFile
    BY NewIsUnused DEF HandleOf, OpenDir, NewDirId
  <2>3. /\ sftp[s] \in SftpState
        /\ new.handles = [sftp[s].handles EXCEPT ![h] = PathOfOpenDir(v)]
        /\ new.file_handles = sftp[s].file_handles
    BY DEF IInv, TypeOK, SessionTypeOK, SftpState
  <2>4. Quiet(reply', event')
    BY <2>1 DEF Says, Answer, Log, Quiet
  <2> HIDE DEF new, h
  <2>5. sftp'[s] = new /\ \A t \in Sessions \ {s} : sftp'[t] = sftp[t]
    BY <2>1 DEF IInv, TypeOK, SessionTypeOK
  <2>6. /\ new.handles[h] = PathOfOpenDir(v) /\ new.file_handles[h].obj = NoObj
        /\ \A i \in Ids \ {h} : /\ new.handles[i] = sftp[s].handles[i]
                                /\ new.file_handles[i] = sftp[s].file_handles[i]
    BY <2>2, <2>3 DEF SftpState, NoFile
  <2>7. Thing(new.handles[h], new.file_handles[h].obj) \in Things /\ new.handles[h] # Err
    BY <2>6, RequestPaths DEF Things, PathOfOpenDir
  <2>8. GivenNow(s, h)
    BY <2>2, <2>4, <2>5, <2>6, <2>7 DEF GivenNow
  <2>9. QED BY <2>2, <2>8
<1>3. QED BY <1>1, <1>2

LEMMA CloseEmpties ==
  ASSUME TypeOK, NEW s \in Sessions, NEW h \in Ids, Close(s, h)
  PROVE  ClosedNow(s, h)
<1> DEFINE new == [sftp[s] EXCEPT !.handles[h] = Err]
<1>1. /\ sftp' = [sftp EXCEPT ![s] = new]
      /\ Says(Answer(s, "close", "ok", h, NoObj), NoEvent)
  BY DEF Close
<1>2. /\ new.handles = [sftp[s].handles EXCEPT ![h] = Err]
      /\ new.file_handles = sftp[s].file_handles
  BY DEF TypeOK, SessionTypeOK, SftpState
<1>3. Quiet(reply', event')
  BY <1>1 DEF Says, Answer, NoEvent, Quiet
<1> HIDE DEF new
<1>4. sftp'[s] = new /\ \A t \in Sessions \ {s} : sftp'[t] = sftp[t]
  BY <1>1 DEF TypeOK, SessionTypeOK
<1>5. QED BY <1>2, <1>3, <1>4 DEF ClosedNow

LEMMA StepShape ==
  ASSUME IInv, Next
  PROVE  \E s \in Sessions : \/ Aside(s)
                            \/ \E h \in Ids : ServedNow(s, h) \/ GivenNow(s, h) \/ ClosedNow(s, h)
<1>1. TypeOK
  BY DEF IInv
<1>2. PICK s \in Sessions : Connect(s) \/ Disconnect(s) \/ Request(s) \/ Advance(s)
  BY DEF Next
<1>3. CASE Connect(s) \/ Disconnect(s)
  BY <1>1, <1>3, SessionsAside
<1>4. CASE Advance(s)
  BY <1>1, <1>4, ReadServes, ReaddirAside, PathsAside DEF Advance
<1>5. CASE Request(s)
  <2>1. CASE FxpInit(s)
    BY <1>1, <2>1, SessionsAside
  <2>2. CASE \E v \in Requests, f \in FlagSets, id \in Ids : Open(s, v, f, id)
    BY <2>2, OpenGives
  <2>3. CASE \E v \in Requests, id \in Ids : OpenDir(s, v, id)
    BY <2>3, OpenDirGives
  <2>4. CASE \E v \in Requests : \/ Lstat(s, v) \/ Stat(s, v) \/ FxpRemove(s, v)
                                 \/ Mkdir(s, v) \/ Rmdir(s, v) \/ RealpathStart(s, v)
    BY <1>1, <2>4, PathsAside
  <2>5. CASE \E v, w \in Requests : FxpRename(s, v, w)
    BY <1>1, <2>5, PathsAside
  <2>6. CASE \E h \in Ids : Close(s, h)
    BY <1>1, <2>6, CloseEmpties
  <2>7. CASE Setstat(s) \/ \E h \in Ids : Fstat(s, h)
    BY <1>1, <2>7, PathsAside
  <2>8. CASE \E h \in Ids : ReaddirStart(s, h)
    BY <1>1, <2>8, ReaddirAside
  <2>9. CASE \E h \in Ids, off \in 0..MaxSize, len \in Lens : ReadStart(s, h, off, len)
    BY <1>1, <2>9, ReadServes
  <2>10. CASE \E h \in Ids, off \in 0..MaxSize, n \in 1..MaxSize : Write(s, h, off, n)
    BY <1>1, <2>10, WriteServes
  <2>11. QED
    BY <1>5, <2>1, <2>2, <2>3, <2>4, <2>5, <2>6, <2>7, <2>8, <2>9, <2>10 DEF Request
<1>6. QED BY <1>2, <1>3, <1>4, <1>5

-----------------------------------------------------------------------------
(* The two maps implement the table of handles.                            *)

Entries == [s \in Sessions |-> [h \in Ids |-> Binding(sftp[s], h)]]

Serving == IF reply.op \in {"read", "write"} /\ reply.st = "ok"
           THEN ServedTo(reply.to, reply.h, Thing(event.target, reply.obj))
           ELSE NothingServed

\* A step of the table, in terms of the entries.
AbstractStep ==
  \/ UNCHANGED Entries /\ Serving' = NothingServed
  \/ UNCHANGED Entries /\ \E s \in Sessions, h \in Ids :
       Entries[s][h] \in Things /\ Serving' = ServedTo(s, h, Entries[s][h])
  \/ /\ Serving' = NothingServed
     /\ \E s \in Sessions, h \in Ids :
          \/ Entries[s][h] # Unused /\ Entries' = [Entries EXCEPT ![s][h] = Unused]
          \/ /\ Entries[s][h] = Unused
             /\ \E thing \in Things : Entries' = [Entries EXCEPT ![s][h] = thing]
  \/ /\ Serving' = NothingServed
     /\ \E s \in Sessions : Entries' = [Entries EXCEPT ![s] = [h \in Ids |-> Unused]]

(* A path in handles belongs to a lease, and with an open file it is the   *)
(* lease of an OPEN.                                                       *)
LEMMA BoundThings ==
  ASSUME IInv, NEW s \in Sessions, NEW h \in Ids, sftp[s].handles[h] # Err
  PROVE  /\ Entries[s][h] = Thing(sftp[s].handles[h], sftp[s].file_handles[h].obj)
         /\ Entries[s][h] # Unused
         /\ sftp[s].file_handles[h].flags # {} => Entries[s][h] \in Things
<1>1. Entries[s][h] = Thing(sftp[s].handles[h], sftp[s].file_handles[h].obj)
  BY DEF Entries, Binding
<1>2. Thing(sftp[s].handles[h], sftp[s].file_handles[h].obj) # Unused
  BY DEF Thing, Unused
<1>3. ASSUME sftp[s].file_handles[h].flags # {} PROVE Entries[s][h] \in Things
  <2>1. PICK l \in leases[s] : l.h = h /\ Denotes(sftp[s], l)
    BY DEF IInv, MapsInv, Owned
  <2>2. l.path \in Requests
    BY DEF IInv, TypeOK, SessionTypeOK, Lease
  <2>3. sftp[s].file_handles[h] # NoFile
    BY <1>3 DEF NoFile
  <2>4. sftp[s].handles[h] = PathOfOpen(l.path)
    BY <2>1, <2>3 DEF Denotes, PathOfOpen
  <2>5. sftp[s].file_handles[h].obj \in Objs
    BY <2>3, FileTypes DEF IInv, TypeOK
  <2>6. QED BY <1>1, <2>2, <2>4, <2>5 DEF Things
<1>4. QED BY <1>1, <1>2, <1>3

LEMMA QuietServing ==
  ASSUME Quiet(reply', event')
  PROVE  Serving' = NothingServed
  BY DEF Quiet, Serving

LEMMA KeptEntries ==
  ASSUME MapsKept
  PROVE  UNCHANGED Entries
<1>1. ASSUME NEW s \in Sessions, NEW h \in Ids
      PROVE  Binding(sftp'[s], h) = Binding(sftp[s], h)
  BY DEF MapsKept, Binding
<1>2. QED BY <1>1 DEF Entries

LEMMA AsideAbstractly ==
  ASSUME TypeOK, NEW s \in Sessions, Aside(s)
  PROVE  AbstractStep
<1>1. Serving' = NothingServed
  BY QuietServing DEF Aside
<1>2. CASE MapsKept
  BY <1>1, <1>2, KeptEntries DEF AbstractStep
<1>3. CASE Reset(s)
  <2>1. sftp' = [sftp EXCEPT ![s] = NewSession]
    BY <1>3 DEF Reset
  <2>2. sftp'[s] = NewSession /\ \A t \in Sessions \ {s} : sftp'[t] = sftp[t]
    BY <2>1 DEF TypeOK, SessionTypeOK
  <2>3. ASSUME NEW h \in Ids PROVE Binding(sftp'[s], h) = Unused
    BY <2>2 DEF NewSession, Binding
  <2>4. Entries' = [Entries EXCEPT ![s] = [h \in Ids |-> Unused]]
    BY <2>2, <2>3 DEF Entries
  <2>5. QED BY <1>1, <2>4 DEF AbstractStep
<1>4. QED BY <1>2, <1>3 DEF Aside

LEMMA ServedAbstractly ==
  ASSUME IInv, NEW s \in Sessions, NEW h \in Ids, ServedNow(s, h)
  PROVE  AbstractStep
<1>1. /\ Entries[s][h] = Thing(sftp[s].handles[h], sftp[s].file_handles[h].obj)
      /\ Entries[s][h] \in Things
  BY BoundThings DEF ServedNow
<1>2. Serving' = ServedTo(s, h, Entries[s][h])
  BY <1>1 DEF ServedNow, Serving
<1>3. UNCHANGED Entries
  BY KeptEntries DEF ServedNow
<1>4. QED BY <1>1, <1>2, <1>3 DEF AbstractStep

LEMMA GivenAbstractly ==
  ASSUME IInv, NEW s \in Sessions, NEW h \in Ids, GivenNow(s, h)
  PROVE  AbstractStep
<1> DEFINE thing == Thing(sftp'[s].handles[h], sftp'[s].file_handles[h].obj)
<1>1. Serving' = NothingServed
  BY QuietServing DEF GivenNow
<1>2. Entries[s][h] = Unused
  BY DEF GivenNow, Entries, Binding
<1>3. Binding(sftp'[s], h) = thing
  BY DEF GivenNow, Binding
<1>4. \A i \in Ids \ {h} : Binding(sftp'[s], i) = Binding(sftp[s], i)
  BY DEF GivenNow, Binding
<1>5. \A t \in Sessions \ {s}, i \in Ids : Binding(sftp'[t], i) = Binding(sftp[t], i)
  BY DEF GivenNow
<1>6. thing \in Things
  BY DEF GivenNow
<1> HIDE DEF thing
<1>7. Entries' = [Entries EXCEPT ![s][h] = thing]
  BY <1>3, <1>4, <1>5 DEF Entries
<1>8. QED BY <1>1, <1>2, <1>6, <1>7 DEF AbstractStep

LEMMA ClosedAbstractly ==
  ASSUME IInv, NEW s \in Sessions, NEW h \in Ids, ClosedNow(s, h)
  PROVE  AbstractStep
<1>1. Serving' = NothingServed
  BY QuietServing DEF ClosedNow
<1>2. sftp[s].handles \in [Ids -> Path]
  BY DEF IInv, TypeOK, SessionTypeOK, SftpState
<1>3. \A i \in Ids \ {h} : sftp'[s].handles[i] = sftp[s].handles[i]
  BY <1>2 DEF ClosedNow
<1>4. \A i \in Ids \ {h} : Binding(sftp'[s], i) = Binding(sftp[s], i)
  BY <1>3 DEF ClosedNow, Binding
<1>5. \A t \in Sessions \ {s}, i \in Ids : Binding(sftp'[t], i) = Binding(sftp[t], i)
  BY DEF ClosedNow
<1>6. Binding(sftp'[s], h) = Unused
  BY <1>2 DEF ClosedNow, Binding
<1>7. CASE sftp[s].handles[h] = Err
  <2>1. Binding(sftp[s], h) = Unused
    BY <1>7 DEF Binding
  <2>2. UNCHANGED Entries
    BY <1>4, <1>5, <1>6, <2>1 DEF Entries
  <2>3. QED BY <1>1, <2>2 DEF AbstractStep
<1>8. CASE sftp[s].handles[h] # Err
  <2>1. Entries[s][h] # Unused
    BY <1>8, BoundThings
  <2>2. Entries' = [Entries EXCEPT ![s][h] = Unused]
    BY <1>4, <1>5, <1>6 DEF Entries
  <2>3. QED BY <1>1, <2>1, <2>2 DEF AbstractStep
<1>9. QED BY <1>7, <1>8

LEMMA TableInit == Init => Table!Init
<1> SUFFICES ASSUME Init PROVE Table!Init
  OBVIOUS
<1>1. ASSUME NEW s \in Sessions, NEW h \in Ids PROVE Binding(sftp[s], h) = Unused
  BY DEF Init, NewSession, Binding
<1>2. reply = NoReply
  BY DEF Init
<1>3. QED BY <1>1, <1>2 DEF Table!Init, NoReply

LEMMA TableStep == IInv /\ [Next]_vars => [Table!Next]_<<Entries, Serving>>
<1> SUFFICES ASSUME IInv, [Next]_vars PROVE [Table!Next]_<<Entries, Serving>>
  OBVIOUS
<1>1. CASE UNCHANGED vars
  BY <1>1 DEF vars, session, Entries, Serving, Binding
<1>2. CASE Next
  <2>1. AbstractStep
    <3>1. PICK s \in Sessions :
            Aside(s) \/ \E h \in Ids : ServedNow(s, h) \/ GivenNow(s, h) \/ ClosedNow(s, h)
      BY <1>2, StepShape
    <3>2. QED
      BY <3>1, AsideAbstractly, ServedAbstractly, GivenAbstractly, ClosedAbstractly DEF IInv
  <2>2. CASE UNCHANGED Entries /\ Serving' = NothingServed
    BY <2>2 DEF Entries, Serving, Table!Next, Table!Refrain
  <2>3. CASE UNCHANGED Entries /\ \E s \in Sessions, h \in Ids :
               Entries[s][h] \in Things /\ Serving' = ServedTo(s, h, Entries[s][h])
    BY <2>3 DEF Entries, Serving, Table!Next, Table!Serve, ServedTo
  <2>4. CASE Serving' = NothingServed /\ \E s \in Sessions, h \in Ids :
               Entries[s][h] # Unused /\ Entries' = [Entries EXCEPT ![s][h] = Unused]
    BY <2>4 DEF Entries, Serving, Table!Next, Table!Revoke
  <2>5. CASE Serving' = NothingServed /\ \E s \in Sessions, h \in Ids :
               /\ Entries[s][h] = Unused
               /\ \E thing \in Things : Entries' = [Entries EXCEPT ![s][h] = thing]
    BY <2>5 DEF Entries, Serving, Table!Next, Table!Grant
  <2>6. CASE Serving' = NothingServed /\ \E s \in Sessions :
               Entries' = [Entries EXCEPT ![s] = [h \in Ids |-> Unused]]
    BY <2>6 DEF Entries, Serving, Table!Next, Table!Drop
  <2>7. QED BY <2>1, <2>2, <2>3, <2>4, <2>5, <2>6 DEF AbstractStep
<1>3. QED BY <1>1, <1>2

(* For any number of sessions the two maps of SftpSession                  *)
(* (sftp_server.rs:40-48) are a table of handles: a handle is for one       *)
(* thing at a time, and what READ and WRITE serve through it until CLOSE   *)
(* is what its OPEN put there.                                             *)
THEOREM ImplementsHandleTableTheorem == Spec => ImplementsHandleTable
<1>1. Spec => Table!Spec
  BY TableInit, TableStep, IInvInvariant, PTL DEF Spec, Table!Spec, Entries, Serving
<1>2. QED BY <1>1 DEF ImplementsHandleTable
=============================================================================
