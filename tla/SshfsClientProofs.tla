------------------------- MODULE SshfsClientProofs -------------------------
(***************************************************************************)
(* Theorems about the FUSE client, for any names, paths and bounds, any    *)
(* server tree and any order in which the server lists a directory.        *)
(***************************************************************************)
EXTENDS SshfsClient, SequenceTheorems, TLAPS

\* No path of the table is shorter than the root's.
Below(t, p) == Len(t.list[1]) <= Len(p)

(* The table of numbers: injective, nothing beyond max_inode, and the root *)
(* in its place above all others.                                          *)
TableInv(t) ==
  /\ \A i, j \in Inos : t.list[i] # NoPath /\ t.list[i] = t.list[j] => i = j
  /\ \A i \in Inos : i > t.max_inode => t.list[i] = NoPath
  /\ t.list[1] # NoPath /\ t.max_inode >= 1
  /\ \A i \in Inos : t.list[i] # NoPath => Below(t, t.list[i])

\* What a step may do to the table.
Steps(t, u) ==
  \/ u = t
  \/ \E p \in Paths : NextInode(t) \in Inos /\ ~Known(t, p) /\ u = Bound(t, p)
  \/ \E i \in Inos \ {1} : t.list[i] # NoPath /\ u = DelInode(t, i)

LEMMA PathFacts ==
  /\ 1 \in Inos /\ NoPath \notin Paths /\ Inos \subseteq Nat
  /\ \A p \in Paths : p \in Seq(Names)
  /\ \A p, q \in Paths, a, b \in Names : Append(p, a) = Append(q, b) => p = q /\ a = b
  /\ \A p \in Paths, a \in Names : Append(p, a) # p
<1>1. /\ 1 \in Inos /\ NoPath \notin Paths /\ Inos \subseteq Nat
      /\ \A p \in Paths : p \in Seq(Names)
  BY InodesAssumption DEF Inos
<1>2. ASSUME NEW p \in Seq(Names), NEW q \in Seq(Names), NEW a \in Names, NEW b \in Names,
             Append(p, a) = Append(q, b)
      PROVE  p = q /\ a = b
  <2>1. Len(p) = Len(q)
    <3>1. Len(Append(p, a)) = Len(p) + 1 /\ Len(Append(q, b)) = Len(q) + 1
      OBVIOUS
    <3>2. QED BY <1>2, <3>1
  <2>2. a = Append(p, a)[Len(p) + 1] /\ b = Append(q, b)[Len(q) + 1]
    OBVIOUS
  <2>3. \A k \in 1..Len(p) : p[k] = Append(p, a)[k] /\ q[k] = Append(q, b)[k]
    BY <2>1
  <2>4. QED BY <1>2, <2>1, <2>2, <2>3
<1>3. ASSUME NEW p \in Seq(Names), NEW a \in Names PROVE Append(p, a) # p
  <2>1. Len(Append(p, a)) = Len(p) + 1
    OBVIOUS
  <2>2. QED BY <2>1
<1>4. QED BY <1>1, <1>2, <1>3

LEMMA SameChild ==
  ASSUME NEW p \in Paths, NEW q \in Paths, NEW a \in Names, NEW b \in Names,
         Append(p, a) = Append(q, b)
  PROVE  p = q /\ a = b
BY PathFacts

(* add returns a number that has the path, and takes none away.            *)
LEMMA AddFacts ==
  ASSUME NEW t \in Inodes, TableInv(t), NEW p \in Paths, Room(t, p), Below(t, p)
  PROVE  LET u == Add(t, p).table
             n == Add(t, p).ino
         IN  /\ u \in Inodes /\ TableInv(u) /\ Steps(t, u)
             /\ n \in Inos /\ u.list[n] = p
             /\ \A i \in Inos : t.list[i] # NoPath => u.list[i] = t.list[i]
             /\ \A i \in Inos : t.list[i] = p => n = i
<1>1. CASE Known(t, p)
  <2>1. GetInode(t, p) \in Inos /\ t.list[GetInode(t, p)] = p
    BY <1>1 DEF Known, GetInode
  <2>2. Add(t, p) = [table |-> t, ino |-> GetInode(t, p)]
    BY <1>1 DEF Add
  <2>3. \A i \in Inos : t.list[i] = p => GetInode(t, p) = i
    BY <2>1, PathFacts DEF TableInv
  <2>4. QED BY <2>1, <2>2, <2>3 DEF Steps
<1>2. CASE ~Known(t, p)
  <2> DEFINE n == NextInode(t)
             u == Bound(t, p)
  <2>1. Add(t, p) = [table |-> u, ino |-> n]
    BY <1>2 DEF Add
  <2>2. n \in Inos /\ n = t.max_inode + 1 /\ t.max_inode \in Nat /\ n \in 0..MaxInode
    BY <1>2, InodesAssumption DEF Room, Inodes, NextInode, Inos
  <2>3. t.list \in [Inos -> Paths \cup {NoPath}]
    BY DEF Inodes
  <2>4. /\ u.list = [t.list EXCEPT ![n] = p] /\ u.max_inode = n
        /\ u \in Inodes
    BY <2>2, <2>3 DEF Bound, Inodes
  <2>5. /\ u.list[n] = p
        /\ \A i \in Inos : i # n => u.list[i] = t.list[i]
    BY <2>2, <2>3, <2>4
  <2>6. t.list[n] = NoPath
    BY <2>2 DEF TableInv, Inos
  <2>7. \A i \in Inos : t.list[i] # p
    BY <1>2 DEF Known
  <2>8. TableInv(u)
    <3>1. \A i, j \in Inos : u.list[i] # NoPath /\ u.list[i] = u.list[j] => i = j
      BY <2>5, <2>7 DEF TableInv
    <3>2. \A i \in Inos : i > n => u.list[i] = NoPath
      BY <2>2, <2>5 DEF TableInv, Inos
    <3>3. u.list[1] # NoPath /\ n >= 1
      BY <2>2, <2>5, <2>6, PathFacts DEF TableInv
    <3>4. u.list[1] = t.list[1]
      BY <2>5, <2>6, PathFacts DEF TableInv
    <3>5. \A i \in Inos : u.list[i] # NoPath => Below(u, u.list[i])
      BY <2>5, <3>4 DEF TableInv, Below
    <3>6. QED BY <2>4, <3>1, <3>2, <3>3, <3>5 DEF TableInv
  <2>9. Steps(t, u)
    BY <1>2, <2>2 DEF Steps
  <2>10. Add(t, p).table = u /\ Add(t, p).ino = n
    BY <2>1
  <2>11. \A i \in Inos : t.list[i] # NoPath => u.list[i] = t.list[i]
    BY <2>5, <2>6
  <2> HIDE DEF n, u
  <2>12. QED BY <2>2, <2>4, <2>5, <2>7, <2>8, <2>9, <2>10, <2>11
<1>3. QED BY <1>1, <1>2

LEMMA DelFacts ==
  ASSUME NEW t \in Inodes, TableInv(t), NEW i \in Inos, i # 1, t.list[i] # NoPath
  PROVE  LET u == DelInode(t, i)
         IN  /\ u \in Inodes /\ TableInv(u) /\ Steps(t, u)
             /\ u.list[i] = NoPath
             /\ \A j \in Inos : j # i => u.list[j] = t.list[j]
<1> DEFINE u == DelInode(t, i)
<1>1. t.list \in [Inos -> Paths \cup {NoPath}]
  BY DEF Inodes
<1>2. /\ u \in Inodes /\ u.max_inode = t.max_inode
      /\ u.list[i] = NoPath /\ \A j \in Inos : j # i => u.list[j] = t.list[j]
  BY <1>1 DEF DelInode, Inodes
<1>3. Steps(t, u)
  BY DEF Steps
<1> HIDE DEF u
<1>4. 1 \in Inos /\ u.list[1] = t.list[1]
  BY <1>2, PathFacts
<1>5. \A j \in Inos : u.list[j] # NoPath => j # i /\ u.list[j] = t.list[j]
  BY <1>2
<1>6. \A j, k \in Inos : u.list[j] # NoPath /\ u.list[j] = u.list[k] => j = k
  BY <1>5 DEF TableInv
<1>7. \A j \in Inos : j > u.max_inode => u.list[j] = NoPath
  BY <1>2, <1>5 DEF TableInv
<1>8. u.list[1] # NoPath /\ u.max_inode >= 1
  BY <1>2, <1>4 DEF TableInv
<1>9. \A j \in Inos : u.list[j] # NoPath => Below(u, u.list[j])
  BY <1>4, <1>5 DEF TableInv, Below
<1>10. TableInv(u)
  BY <1>6, <1>7, <1>8, <1>9 DEF TableInv
<1>11. QED BY <1>2, <1>3, <1>10 DEF u
-----------------------------------------------------------------------------
(* The inductive invariant of names and transfers.                         *)

MakeInv ==
  work.op \in {"mknod", "mkdir"} =>
    /\ work.path \in Paths /\ work.name \in Names
    /\ HasPath(work.parent) /\ work.path = Child(work.parent, work.name)

DirInv ==
  work.op = "readdir" =>
    /\ work.path \in Paths /\ Below(inodes, work.path)
    /\ \A k \in 1..Len(work.dir) :
         work.dir[k] \notin {Dot, DotDot} => Append(work.path, work.dir[k]) \in Paths

\* A transfer under way stands where it began plus what it has done.
IoInv ==
  work.op \in {"read", "write"} =>
    /\ file_handles.list[work.fh] \in File
    /\ file_handles.list[work.fh].pos = work.off + work.done
    /\ work.done <= work.len /\ work.off + work.len <= MaxOffset
    /\ work.moved = IF Appends THEN {} ELSE work.off..(work.off + work.done - 1)

WorkInv == MakeInv /\ DirInv /\ IoInv

SaysInv == reply \in Reply /\ GetattrAnswersForAsked /\ MovesWhatWasAsked

NInv ==
  /\ TypeOK
  /\ TableInv(inodes) /\ DentriesAgree /\ alive
  /\ WorkInv
  /\ GetattrAnswersForAsked /\ MovesWhatWasAsked

LEMMA AtRest == work = Idle => work \in Work /\ WorkInv
<1>1. 1 \in Inos /\ 0 \in Fhs /\ 0 \in 0..MaxOffset
  BY InodesAssumption DEF Inos, Fhs
<1>2. Idle \in Work
  BY <1>1 DEF Idle, Work
<1>3. Idle.op = "idle"
  BY DEF Idle
<1>4. QED BY <1>2, <1>3 DEF WorkInv, MakeInv, DirInv, IoInv

LEMMA SilentFacts == Silent => SaysInv'
<1>1. 0 \in 0..MaxInode /\ 0 \in 0..MaxOffset
  BY InodesAssumption
<1>2. NoReply \in Reply /\ NoReply.op = "none"
  BY <1>1 DEF NoReply, Reply
<1>3. QED BY <1>2 DEF Silent, SaysInv, GetattrAnswersForAsked, MovesWhatWasAsked

LEMMA SaysFacts ==
  ASSUME NEW op \in Ops, NEW st \in {"ok", "error"}, NEW i \in Inos, NEW j \in Inos \cup {0},
         Says(op, st, i, j),
         op \in {"read", "write"} => st = "error",
         op = "getattr" /\ st = "ok" => i = j
  PROVE  SaysInv'
<1>1. /\ 0 \in 0..MaxOffset /\ i \in 0..MaxInode /\ j \in 0..MaxInode
  BY InodesAssumption DEF Inos
<1>2. reply' = [op |-> op, st |-> st, asked |-> i, ino |-> j,
                off |-> 0, len |-> 0, n |-> 0, eof |-> FALSE, moved |-> {},
                appends |-> FALSE]
  BY DEF Says, NoReply
<1>3. reply' \in Reply
  BY <1>1, <1>2 DEF Reply
<1>4. QED BY <1>2, <1>3 DEF SaysInv, GetattrAnswersForAsked, MovesWhatWasAsked

(* The table grows by one binding, or not, and the names keep agreeing.    *)
LEMMA AttrKeeps ==
  ASSUME NInv, NEW p \in Paths, Attr(p),
         NEW i \in Inos, NEW name \in Names, HasPath(i), p = Child(i, name),
         dentries' = Binds(i, name, Add(inodes, p).ino)
  PROVE  /\ inodes' \in Inodes /\ TableInv(inodes)' /\ Steps(inodes, inodes')
         /\ dentries' \subseteq Dentry /\ DentriesAgree'
         /\ Add(inodes, p).ino \in Inos
<1> DEFINE n == Add(inodes, p).ino
<1>1. inodes \in Inodes /\ TableInv(inodes) /\ Room(inodes, p)
  BY DEF NInv, TypeOK, ClientTypeOK, Attr
<1>a. Below(inodes, p)
  <2>1. inodes.list[i] \in Seq(Names) /\ inodes.list[1] \in Seq(Names) /\ Below(inodes, inodes.list[i])
    BY <1>1, PathFacts DEF HasPath, TableInv, Inodes
  <2>2. Len(p) = Len(inodes.list[i]) + 1
    BY <2>1 DEF Child
  <2>3. QED BY <2>1, <2>2 DEF Below
<1>2. /\ inodes' \in Inodes /\ TableInv(inodes') /\ Steps(inodes, inodes')
      /\ n \in Inos /\ inodes'.list[n] = p
      /\ \A j \in Inos : inodes.list[j] # NoPath => inodes'.list[j] = inodes.list[j]
  BY <1>1, <1>a, AddFacts DEF Attr
<1>3. TableInv(inodes)'
  BY <1>2 DEF TableInv, Below
<1> HIDE DEF n
<1>4. dentries' = Unbinds(i, name) \cup {[parent |-> i, name |-> name, ino |-> n]}
  BY DEF Binds, n
<1>5. dentries' \subseteq Dentry
  BY <1>2, <1>4 DEF NInv, TypeOK, KernelTypeOK, Unbinds, Dentry
<1>6. inodes.list[i] # NoPath /\ inodes'.list[i] = inodes.list[i] /\ p = Append(inodes.list[i], name)
  BY <1>2 DEF HasPath, Child
<1>7. ASSUME NEW d \in dentries'
      PROVE  /\ inodes'.list[d.parent] # NoPath /\ inodes'.list[d.ino] # NoPath
             /\ inodes'.list[d.ino] = Append(inodes'.list[d.parent], d.name)
  <2>1. CASE d \in dentries
    <3>1. /\ d.parent \in Inos /\ d.ino \in Inos
          /\ inodes.list[d.parent] # NoPath /\ inodes.list[d.ino] # NoPath
          /\ inodes.list[d.ino] = Append(inodes.list[d.parent], d.name)
      BY <2>1 DEF NInv, TypeOK, KernelTypeOK, Dentry, DentriesAgree, HasPath, Child
    <3>2. QED BY <1>2, <3>1
  <2>2. CASE d = [parent |-> i, name |-> name, ino |-> n]
    <3>1. d.parent = i /\ d.ino = n /\ d.name = name
      BY <2>2
    <3>2. QED BY <1>2, <1>6, <3>1, PathFacts
  <2>3. QED BY <1>4, <2>1, <2>2 DEF Unbinds
<1>8. DentriesAgree'
  BY <1>7 DEF DentriesAgree, HasPath, Child
<1>9. QED BY <1>2, <1>3, <1>5, <1>8 DEF n

LEMMA FewerDentries ==
  ASSUME NInv, UNCHANGED inodes, dentries' \subseteq dentries
  PROVE  TableInv(inodes)' /\ DentriesAgree' /\ dentries' \subseteq Dentry
         /\ Steps(inodes, inodes')
  BY DEF NInv, TypeOK, KernelTypeOK, DentriesAgree, HasPath, Child, TableInv, Below, Steps

LEMMA LookupKeeps ==
  ASSUME NInv, NEW i \in Inos, NEW name \in Names, Lookup(i, name)
  PROVE  NInv' /\ Steps(inodes, inodes')
<1> DEFINE p == Child(i, name)
           n == Add(inodes, p).ino
<1>1. /\ "lookup" \in Ops /\ work = Idle
      /\ UNCHANGED <<alive, file_handles, work, remote, held, opened, stream>>
  BY DEF Lookup, Ask, server
<1>2. WorkInv' /\ work' \in Work
  BY <1>1, AtRest DEF WorkInv, MakeInv, DirInv, IoInv, HasPath, Child, Below, Idle
<1>3. CASE HasPath(i) /\ Attr(p) /\ dentries' = Binds(i, name, n) /\ Says("lookup", "ok", i, n)
  <2>1. p \in Paths
    BY <1>3 DEF Attr, Exists
  <2>2. /\ inodes' \in Inodes /\ TableInv(inodes)' /\ Steps(inodes, inodes')
        /\ dentries' \subseteq Dentry /\ DentriesAgree' /\ n \in Inos
    BY <1>3, <2>1, AttrKeeps
  <2>3. SaysInv'
    BY <1>1, <1>3, <2>2, SaysFacts
  <2>4. QED BY <1>1, <1>2, <2>2, <2>3
            DEF NInv, TypeOK, ClientTypeOK, KernelTypeOK, ServerTypeOK, SaysInv
<1>4. CASE dentries' = Unbinds(i, name) /\ Says("lookup", "error", i, 0) /\ UNCHANGED inodes
  <2>1. SaysInv'
    BY <1>1, <1>4, SaysFacts
  <2>2. TableInv(inodes)' /\ DentriesAgree' /\ dentries' \subseteq Dentry /\ Steps(inodes, inodes')
    BY <1>4, FewerDentries DEF Unbinds
  <2>3. QED BY <1>1, <1>2, <1>4, <2>1, <2>2
            DEF NInv, TypeOK, ClientTypeOK, KernelTypeOK, ServerTypeOK, SaysInv
<1>5. QED BY <1>3, <1>4 DEF Lookup
LEMMA GetattrKeeps ==
  ASSUME NInv, NEW i \in Inos, Getattr(i)
  PROVE  NInv' /\ Steps(inodes, inodes')
<1> DEFINE p == inodes.list[i]
           n == Add(inodes, p).ino
<1>1. /\ "getattr" \in Ops /\ work = Idle
      /\ UNCHANGED <<alive, file_handles, work, remote, held, dentries, opened, stream>>
  BY DEF Getattr, Ask, server, kernel
<1>2. WorkInv' /\ work' \in Work
  BY <1>1, AtRest DEF WorkInv, MakeInv, DirInv, IoInv, HasPath, Child, Below, Idle
<1>3. CASE HasPath(i) /\ Attr(p) /\ Says("getattr", "ok", i, n)
  <2>1. p \in Paths /\ inodes \in Inodes /\ TableInv(inodes) /\ Room(inodes, p)
    BY <1>3 DEF Attr, Exists, NInv, TypeOK, ClientTypeOK
  <2>2. n = i
    BY <1>3, <2>1, AddFacts DEF TableInv, HasPath
  <2>3. Add(inodes, p) = [table |-> inodes, ino |-> GetInode(inodes, p)]
    BY DEF Add, Known
  <2>4. UNCHANGED inodes
    BY <1>3, <2>3 DEF Attr
  <2>5. SaysInv'
    BY <1>1, <1>3, <2>2, SaysFacts
  <2>6. TableInv(inodes)' /\ DentriesAgree' /\ dentries' \subseteq Dentry /\ Steps(inodes, inodes')
    BY <1>1, <2>4, FewerDentries
  <2>7. QED BY <1>1, <1>2, <2>4, <2>5, <2>6
            DEF NInv, TypeOK, ClientTypeOK, KernelTypeOK, ServerTypeOK, SaysInv
<1>4. CASE Says("getattr", "error", i, 0) /\ UNCHANGED inodes
  <2>1. SaysInv'
    BY <1>1, <1>4, SaysFacts
  <2>2. TableInv(inodes)' /\ DentriesAgree' /\ dentries' \subseteq Dentry /\ Steps(inodes, inodes')
    BY <1>1, <1>4, FewerDentries
  <2>3. QED BY <1>1, <1>2, <1>4, <2>1, <2>2
            DEF NInv, TypeOK, ClientTypeOK, KernelTypeOK, ServerTypeOK, SaysInv
<1>5. QED BY <1>3, <1>4 DEF Getattr

LEMMA ForgetKeeps ==
  ASSUME NInv, NEW d \in dentries, Forget(d)
  PROVE  NInv' /\ Steps(inodes, inodes')
<1>1. /\ work = Idle /\ dentries' \subseteq dentries /\ Silent
      /\ UNCHANGED <<alive, inodes, file_handles, work, remote, held, opened, stream>>
  BY DEF Forget, client, server
<1>2. WorkInv' /\ work' \in Work
  BY <1>1, AtRest DEF WorkInv, MakeInv, DirInv, IoInv, HasPath, Child, Below, Idle
<1>3. SaysInv'
  BY <1>1, SilentFacts
<1>4. TableInv(inodes)' /\ DentriesAgree' /\ dentries' \subseteq Dentry /\ Steps(inodes, inodes')
  BY <1>1, FewerDentries
<1>5. QED BY <1>1, <1>2, <1>3, <1>4
          DEF NInv, TypeOK, ClientTypeOK, KernelTypeOK, ServerTypeOK, SaysInv

(* What happens at the server changes the tree, and whether the directory  *)
(* being read is clean.                                                    *)
LEMMA PutsFacts ==
  ASSUME NInv, NEW p \in Paths, NEW k \in {"none", "file", "dir"}, Puts(p, k)
  PROVE  remote' \in [Paths -> {"none", "file", "dir"}] /\ stream' \in Stream
<1>1. remote \in [Paths -> {"none", "file", "dir"}] /\ stream \in Stream
  BY DEF NInv, TypeOK, ServerTypeOK, KernelTypeOK
<1>2. remote' \in [Paths -> {"none", "file", "dir"}]
  BY <1>1 DEF Puts
<1> DEFINE c == stream.clean /\ (p # <<>> /\ Parent(p) = stream.path => (remote[p] = "none" <=> k = "none"))
<1>3. stream' = [stream EXCEPT !.clean = c]
  BY DEF Puts
<1>4. c \in BOOLEAN
  BY <1>1 DEF Stream
<1> HIDE DEF c
<1>5. stream' \in Stream
  BY <1>1, <1>3, <1>4 DEF Stream
<1>6. QED BY <1>2, <1>5

\* A removal that went wrong changes the server at most.
LEMMA PutsOrNot ==
  ASSUME NInv, NEW p, NEW k \in {"none", "file", "dir"},
         (p \in Paths /\ Puts(p, k)) \/ UNCHANGED <<remote, stream>>
  PROVE  remote' \in [Paths -> {"none", "file", "dir"}] /\ stream' \in Stream
BY PutsFacts DEF NInv, TypeOK, ServerTypeOK, KernelTypeOK

LEMMA OthersKeep ==
  ASSUME NInv, Others
  PROVE  NInv' /\ Steps(inodes, inodes')
<1>1. /\ UNCHANGED <<alive, inodes, file_handles, work, held, dentries, opened>>
      /\ Silent
  BY DEF Others, client, Silent
<1>2. \E p \in Paths, k \in {"none", "file", "dir"} : Puts(p, k)
  BY DEF Others, CanCreate, CanRemove
<1>3. remote' \in [Paths -> {"none", "file", "dir"}] /\ stream' \in Stream
  BY <1>2, PutsFacts
<1>4. SaysInv'
  BY <1>1, SilentFacts
<1>5. TableInv(inodes)' /\ DentriesAgree' /\ dentries' \subseteq Dentry /\ Steps(inodes, inodes')
  BY <1>1, FewerDentries
<1>6. WorkInv'
  BY <1>1 DEF NInv, WorkInv, MakeInv, DirInv, IoInv, Appends, HasPath, Child, Below
<1>7. QED BY <1>1, <1>3, <1>4, <1>5, <1>6
          DEF NInv, TypeOK, ClientTypeOK, KernelTypeOK, ServerTypeOK, SaysInv

(* unlink and rmdir.  The number that goes is the one the kernel knows; no *)
(* other name it holds has that number or stands below it.                 *)
LEMMA RemoveKeeps ==
  ASSUME NInv, NEW d \in dentries, NEW op \in {"unlink", "rmdir"}, NEW k \in {"file", "dir"},
         Remove(op, k, d)
  PROVE  NInv' /\ Steps(inodes, inodes')
<1> DEFINE p == Child(d.parent, d.name)
           i == d.ino
<1>1. /\ op \in Ops /\ work = Idle
      /\ UNCHANGED <<file_handles, work, held, opened>>
  BY DEF Remove, Ask
<1>2. WorkInv' /\ work' \in Work
  BY <1>1, AtRest DEF WorkInv, MakeInv, DirInv, IoInv, HasPath, Child, Below, Idle
<1>3. /\ d.parent \in Inos /\ i \in Inos /\ d.name \in Names
      /\ HasPath(d.parent) /\ HasPath(i) /\ inodes.list[i] = p
      /\ inodes \in Inodes /\ TableInv(inodes)
  BY DEF NInv, TypeOK, ClientTypeOK, KernelTypeOK, Dentry, DentriesAgree
<1>4. Known(inodes, p)
  BY <1>3 DEF Known
<1>5. GetInode(inodes, p) = i
  <2>1. GetInode(inodes, p) \in Inos /\ inodes.list[GetInode(inodes, p)] = p
    BY <1>4 DEF Known, GetInode
  <2>2. QED BY <1>3, <2>1 DEF TableInv, HasPath
<1>6. CASE /\ CanRemove(p, k) /\ Puts(p, "none")
           /\ inodes' = DelInode(inodes, GetInode(inodes, p))
           /\ dentries' = {e \in dentries : e # d /\ e.parent # d.ino}
           /\ Says(op, "ok", d.parent, d.ino)
           /\ UNCHANGED alive
  <2>1. p \in Paths
    BY <1>6 DEF CanRemove
  <2>2. i # 1
    <3>1. /\ inodes.list[d.parent] \in Seq(Names) /\ inodes.list[1] \in Seq(Names)
          /\ Below(inodes, inodes.list[d.parent])
      BY <1>3, PathFacts DEF HasPath, TableInv, Inodes
    <3>2. Len(p) = Len(inodes.list[d.parent]) + 1
      BY <1>3, <3>1 DEF Child
    <3>3. QED BY <1>3, <3>1, <3>2 DEF Below
  <2>3. /\ inodes' \in Inodes /\ TableInv(inodes') /\ Steps(inodes, inodes')
        /\ \A j \in Inos : j # i => inodes'.list[j] = inodes.list[j]
    BY <1>3, <1>5, <1>6, <2>2, DelFacts DEF HasPath
  <2>4. TableInv(inodes)'
    BY <2>3 DEF TableInv, Below
  <2>5. remote' \in [Paths -> {"none", "file", "dir"}] /\ stream' \in Stream
    BY <1>6, <2>1, PutsFacts
  <2>6. SaysInv'
    BY <1>1, <1>3, <1>6, SaysFacts
  <2>7. ASSUME NEW e \in dentries'
        PROVE  e.parent # i /\ e.ino # i
    <3>1. e \in dentries /\ e # d /\ e.parent # i
      BY <1>6
    <3>2. /\ e.parent \in Inos /\ e.ino \in Inos /\ e.name \in Names /\ e \in Dentry
          /\ inodes.list[e.parent] \in Paths /\ inodes.list[d.parent] \in Paths
          /\ inodes.list[e.ino] = Append(inodes.list[e.parent], e.name)
      BY <1>3, <3>1 DEF NInv, TypeOK, KernelTypeOK, Dentry, DentriesAgree, HasPath, Child, Inodes
    <3>3. ASSUME e.ino = i PROVE FALSE
      <4>1. Append(inodes.list[e.parent], e.name) = Append(inodes.list[d.parent], d.name)
        BY <1>3, <3>2, <3>3 DEF Child
      <4>2. inodes.list[e.parent] = inodes.list[d.parent] /\ e.name = d.name
        <5>1. /\ inodes.list[e.parent] \in Paths /\ inodes.list[d.parent] \in Paths
              /\ e.name \in Names /\ d.name \in Names
          BY <1>3, <3>2
        <5> DEFINE P == inodes.list[e.parent]
                   Q == inodes.list[d.parent]
                   a == e.name
                   b == d.name
        <5>2. P \in Paths /\ Q \in Paths /\ a \in Names /\ b \in Names /\ Append(P, a) = Append(Q, b)
          BY <4>1, <5>1
        <5> HIDE DEF P, Q, a, b
        <5>3. P = Q /\ a = b
          BY <5>2, SameChild
        <5>4. QED BY <5>3 DEF P, Q, a, b
      <4>3. e.parent = d.parent
        BY <1>3, <3>2, <4>2 DEF TableInv, HasPath
      <4>4. d \in Dentry
        BY DEF NInv, TypeOK, KernelTypeOK
      <4>5. QED BY <3>1, <3>2, <3>3, <4>2, <4>3, <4>4 DEF Dentry
    <3>4. QED BY <3>1, <3>3
  <2>8. DentriesAgree' /\ dentries' \subseteq Dentry
    BY <1>6, <2>3, <2>7 DEF NInv, TypeOK, KernelTypeOK, Dentry, DentriesAgree, HasPath, Child
  <2>9. QED BY <1>1, <1>2, <1>6, <2>3, <2>4, <2>5, <2>6, <2>8
            DEF NInv, TypeOK, ClientTypeOK, KernelTypeOK, ServerTypeOK, SaysInv
<1>7. CASE /\ (CanRemove(p, k) /\ Puts(p, "none")) \/ UNCHANGED <<remote, stream>>
           /\ inodes' = inodes
           /\ Says(op, "error", d.parent, 0)
           /\ UNCHANGED <<alive, dentries>>
  <2>1. remote' \in [Paths -> {"none", "file", "dir"}] /\ stream' \in Stream
    BY <1>7, PutsOrNot DEF CanRemove
  <2>2. SaysInv'
    BY <1>1, <1>3, <1>7, SaysFacts
  <2>3. TableInv(inodes)' /\ DentriesAgree' /\ dentries' \subseteq Dentry /\ Steps(inodes, inodes')
    BY <1>7, FewerDentries
  <2>4. QED BY <1>1, <1>2, <1>7, <2>1, <2>2, <2>3
            DEF NInv, TypeOK, ClientTypeOK, KernelTypeOK, ServerTypeOK, SaysInv
<1>8. QED BY <1>4, <1>6, <1>7 DEF Remove, AfterError
LEMMA MakeKeeps ==
  ASSUME NInv, NEW i \in Inos, NEW name \in Names,
         NEW op \in {"mknod", "mkdir"}, NEW k \in {"file", "dir"}, Make(op, k, i, name)
  PROVE  NInv' /\ Steps(inodes, inodes')
<1> DEFINE p == Child(i, name)
<1>1. /\ op \in Ops /\ work = Idle
      /\ UNCHANGED <<alive, inodes, file_handles, dentries, opened>>
  BY DEF Make, Ask, client
<1>2. TableInv(inodes)' /\ DentriesAgree' /\ dentries' \subseteq Dentry /\ Steps(inodes, inodes')
  BY <1>1, FewerDentries
<1>3. CASE /\ HasPath(i) /\ p \in Paths /\ Puts(p, k)
           /\ \E h \in IF op = "mknod" THEN SftpHandles \ held ELSE {NoHandle} :
                /\ held' = held \cup ({h} \ {NoHandle})
                /\ work' = [Idle EXCEPT !.op = op, !.path = p, !.h = h, !.parent = i, !.name = name]
           /\ Silent
  <2>1. PICK h \in SftpHandles \cup {NoHandle} :
          /\ held' = held \cup ({h} \ {NoHandle})
          /\ work' = [Idle EXCEPT !.op = op, !.path = p, !.h = h, !.parent = i, !.name = name]
    BY <1>3
  <2>2. remote' \in [Paths -> {"none", "file", "dir"}] /\ stream' \in Stream
    BY <1>3, PutsFacts
  <2>3. SaysInv'
    BY <1>3, SilentFacts
  <2>4. work' \in Work
    BY <1>1, <1>3, <2>1, AtRest DEF Work, Idle
  <2>5. /\ work'.op = op /\ work'.path = p /\ work'.parent = i /\ work'.name = name
    BY <2>1 DEF Idle
  <2>6. WorkInv'
    BY <1>1, <1>3, <2>5 DEF WorkInv, MakeInv, DirInv, IoInv, HasPath, Child
  <2>7. held' \subseteq SftpHandles
    BY <2>1 DEF NInv, TypeOK, ServerTypeOK
  <2>8. QED BY <1>1, <1>2, <2>2, <2>3, <2>4, <2>6, <2>7
            DEF NInv, TypeOK, ClientTypeOK, KernelTypeOK, ServerTypeOK, SaysInv
<1>4. CASE /\ (p \in Paths /\ Puts(p, k)) \/ UNCHANGED <<remote, stream>>
           /\ Says(op, "error", i, 0)
           /\ UNCHANGED <<held, work>>
  <2>1. remote' \in [Paths -> {"none", "file", "dir"}] /\ stream' \in Stream
    BY <1>4, PutsOrNot
  <2>2. SaysInv'
    BY <1>1, <1>4, SaysFacts
  <2>3. WorkInv' /\ work' \in Work
    BY <1>1, <1>4, AtRest DEF WorkInv, MakeInv, DirInv, IoInv, HasPath, Child, Below, Idle
  <2>4. QED BY <1>1, <1>2, <1>4, <2>1, <2>2, <2>3
            DEF NInv, TypeOK, ClientTypeOK, KernelTypeOK, ServerTypeOK, SaysInv
<1>5. QED BY <1>3, <1>4 DEF Make, CanCreate

\* A request that ends leaves nothing behind in work.
LEMMA EndsAtRest == work' = Idle => work' \in Work /\ WorkInv'
<1>1. 1 \in Inos /\ 0 \in Fhs /\ 0 \in 0..MaxOffset
  BY InodesAssumption DEF Inos, Fhs
<1>2. Idle \in Work
  BY <1>1 DEF Idle, Work
<1>3. Idle.op = "idle"
  BY DEF Idle
<1>4. QED BY <1>2, <1>3 DEF WorkInv, MakeInv, DirInv, IoInv

LEMMA MakeStatKeeps ==
  ASSUME NInv, MakeStat
  PROVE  NInv' /\ Steps(inodes, inodes')
<1> DEFINE n == Add(inodes, work.path).ino
<1>1. /\ work.op \in {"mknod", "mkdir"} /\ work.op \in Ops /\ work \in Work
      /\ work.path \in Paths /\ work.name \in Names /\ work.parent \in Inos
      /\ HasPath(work.parent) /\ work.path = Child(work.parent, work.name)
      /\ work' = Idle /\ held' = held \ {work.h}
      /\ UNCHANGED <<alive, file_handles, remote, opened, stream>>
  <2>1. work \in Work /\ MakeInv /\ work.op \in {"mknod", "mkdir"}
    BY DEF NInv, TypeOK, ClientTypeOK, WorkInv, MakeStat
  <2>2. work.op \in Ops /\ work.parent \in Inos
    BY <2>1 DEF Work
  <2>3. QED BY <2>1, <2>2 DEF MakeStat, MakeInv
<1>2. WorkInv' /\ work' \in Work
  BY <1>1, EndsAtRest
<1>3. CASE /\ Attr(work.path) /\ dentries' = Binds(work.parent, work.name, n)
           /\ Says(work.op, "ok", work.parent, n)
  <2>1. /\ inodes' \in Inodes /\ TableInv(inodes)' /\ Steps(inodes, inodes')
        /\ dentries' \subseteq Dentry /\ DentriesAgree' /\ n \in Inos
    BY <1>1, <1>3, AttrKeeps
  <2>2. SaysInv'
    BY <1>1, <1>3, <2>1, SaysFacts
  <2>3. QED BY <1>1, <1>2, <2>1, <2>2
            DEF NInv, TypeOK, ClientTypeOK, KernelTypeOK, ServerTypeOK, SaysInv
<1>4. CASE Says(work.op, "error", work.parent, 0) /\ UNCHANGED <<inodes, dentries>>
  <2>1. SaysInv'
    BY <1>1, <1>4, SaysFacts
  <2>2. TableInv(inodes)' /\ DentriesAgree' /\ dentries' \subseteq Dentry /\ Steps(inodes, inodes')
    BY <1>4, FewerDentries
  <2>3. QED BY <1>1, <1>2, <1>4, <2>1, <2>2
            DEF NInv, TypeOK, ClientTypeOK, KernelTypeOK, ServerTypeOK, SaysInv
<1>5. QED BY <1>3, <1>4 DEF MakeStat

LEMMA StartStreamKeeps ==
  ASSUME NInv, NEW i \in Inos, StartStream(i)
  PROVE  NInv' /\ Steps(inodes, inodes')
<1>1. /\ Silent
      /\ UNCHANGED <<alive, inodes, file_handles, work, remote, held, dentries, opened>>
  BY DEF StartStream, client, server
<1>2. inodes.list[i] \in Paths \cup {NoPath}
  BY DEF NInv, TypeOK, ClientTypeOK, Inodes
<1>3. stream' \in Stream
  <2>1. stream' = [st |-> "open", ino |-> i, path |-> inodes.list[i], off |-> 0,
                   got |-> <<>>, clean |-> TRUE]
    BY DEF StartStream, NoStream
  <2>2. <<>> \in Seq(Entries)
    OBVIOUS
  <2>3. QED BY <1>2, <2>1, <2>2 DEF Stream
<1>4. SaysInv'
  BY <1>1, SilentFacts
<1>5. TableInv(inodes)' /\ DentriesAgree' /\ dentries' \subseteq Dentry /\ Steps(inodes, inodes')
  BY <1>1, FewerDentries
<1>6. WorkInv'
  BY <1>1 DEF NInv, WorkInv, MakeInv, DirInv, IoInv, Appends, HasPath, Child, Below
<1>7. QED BY <1>1, <1>3, <1>4, <1>5, <1>6
          DEF NInv, TypeOK, ClientTypeOK, KernelTypeOK, ServerTypeOK, SaysInv

LEMMA ReaddirKeeps ==
  ASSUME NInv, Readdir
  PROVE  NInv' /\ Steps(inodes, inodes')
<1> DEFINE p == inodes.list[stream.ino]
           S == {name \in Names : Has(p, name)}
           dir == <<DotDot, Dot>> \o Listing(p)
<1>1. /\ "readdir" \in Ops /\ work = Idle /\ stream \in Stream /\ stream.ino \in Inos
      /\ UNCHANGED <<alive, inodes, file_handles, remote, held, dentries, opened>>
  BY DEF Readdir, Ask, client, server, NInv, TypeOK, KernelTypeOK, Stream
<1>2. TableInv(inodes)' /\ DentriesAgree' /\ dentries' \subseteq Dentry /\ Steps(inodes, inodes')
  BY <1>1, FewerDentries
<1>3. CASE /\ HasPath(stream.ino) /\ IsDir(p)
           /\ work' = [Idle EXCEPT !.op = "readdir", !.path = p, !.off = stream.off, !.dir = dir]
           /\ Silent /\ UNCHANGED stream
  <2>1. p \in Paths /\ Below(inodes, p)
    BY <1>1, <1>3 DEF IsDir, NInv, TableInv, HasPath
  <2>2. /\ Listing(p) \in Seq(Names)
        /\ \A k \in 1..Len(Listing(p)) : Append(p, Listing(p)[k]) \in Paths
    <3>1. S \in SUBSET Names
      OBVIOUS
    <3>2. Listings[S] \in Seq(Names) /\ S = {Listings[S][k] : k \in 1..Len(Listings[S])}
      BY <3>1, ClientAssumption
    <3>3. \A name \in S : Append(p, name) \in Paths
      BY DEF Has, Exists
    <3>4. Listing(p) = Listings[S]
      BY DEF Listing
    <3> HIDE DEF S
    <3>5. QED BY <3>2, <3>3, <3>4
  <2>3. /\ dir \in Seq(Entries)
        /\ \A k \in 1..Len(dir) : dir[k] \notin {Dot, DotDot} => Append(p, dir[k]) \in Paths
    <3> DEFINE L == Listing(p)
               T == <<DotDot, Dot>>
    <3>1. L \in Seq(Entries)
      BY <2>2 DEF Entries
    <3>2. T \in Seq(Entries) /\ Len(T) = 2 /\ T[1] = DotDot /\ T[2] = Dot
      BY DEF Entries
    <3>3. dir = T \o L
      OBVIOUS
    <3> HIDE DEF L, T, dir
    <3>4. /\ dir \in Seq(Entries) /\ Len(dir) = Len(L) + 2
          /\ dir[1] = DotDot /\ dir[2] = Dot
          /\ \A k \in 3..Len(dir) : k - 2 \in 1..Len(L) /\ dir[k] = L[k - 2]
      <4>1. /\ dir \in Seq(Entries) /\ Len(dir) = 2 + Len(L)
            /\ \A k \in 1..(2 + Len(L)) : dir[k] = IF k <= 2 THEN T[k] ELSE L[k - 2]
        <5>1. /\ T \o L \in Seq(Entries) /\ Len(T \o L) = Len(T) + Len(L)
              /\ \A k \in 1..(Len(T) + Len(L)) :
                   (T \o L)[k] = IF k <= Len(T) THEN T[k] ELSE L[k - Len(T)]
          BY <3>1, <3>2, ConcatProperties
        <5>2. QED BY <3>2, <3>3, <5>1
      <4>2. \A k \in 1..Len(dir) : dir[k] = IF k <= 2 THEN T[k] ELSE L[k - 2]
        BY <4>1
      <4>3. Len(L) \in Nat
        BY <3>1
      <4>4. dir[1] = DotDot /\ dir[2] = Dot
        BY <3>2, <4>1, <4>2, <4>3
      <4>5. ASSUME NEW k \in 3..Len(dir) PROVE k - 2 \in 1..Len(L) /\ dir[k] = L[k - 2]
        BY <4>1, <4>2, <4>3
      <4>6. QED BY <4>1, <4>3, <4>4, <4>5
    <3>5. ASSUME NEW k \in 1..Len(dir), dir[k] \notin {Dot, DotDot} PROVE Append(p, dir[k]) \in Paths
      <4>1. k \in 3..Len(dir)
        BY <3>1, <3>4, <3>5
      <4>2. k - 2 \in 1..Len(L) /\ dir[k] = L[k - 2]
        BY <3>4, <4>1
      <4>3. QED BY <2>2, <4>2 DEF L
    <3>6. QED BY <3>4, <3>5
  <2> HIDE DEF dir, p
  <2>4. /\ work'.op = "readdir" /\ work'.path = p /\ work'.dir = dir
    BY <1>3 DEF Idle
  <2>5. work' \in Work
    <3>1. stream.off \in Nat /\ Idle \in Work
      BY <1>1, AtRest DEF Stream
    <3>2. QED BY <1>1, <1>3, <2>1, <2>3, <3>1 DEF Work, Idle
  <2>6. WorkInv'
    BY <1>1, <2>1, <2>3, <2>4 DEF WorkInv, MakeInv, DirInv, IoInv, Below
  <2>7. SaysInv'
    BY <1>3, SilentFacts
  <2>8. QED BY <1>1, <1>2, <1>3, <2>5, <2>6, <2>7
            DEF NInv, TypeOK, ClientTypeOK, KernelTypeOK, ServerTypeOK, SaysInv
<1>4. CASE /\ stream' = [stream EXCEPT !.st = "failed"]
           /\ Says("readdir", "error", stream.ino, 0)
           /\ UNCHANGED work
  <2>1. stream' \in Stream
    BY <1>1, <1>4 DEF Stream
  <2>2. SaysInv'
    BY <1>1, <1>4, SaysFacts
  <2>3. WorkInv' /\ work' \in Work
    BY <1>1, <1>4, EndsAtRest
  <2>4. QED BY <1>1, <1>2, <2>1, <2>2, <2>3
            DEF NInv, TypeOK, ClientTypeOK, KernelTypeOK, ServerTypeOK, SaysInv
<1>5. QED BY <1>3, <1>4 DEF Readdir
LEMMA SendPageFacts ==
  ASSUME NInv, work.op = "readdir", SendPage
  PROVE  work' \in Work /\ WorkInv' /\ stream' \in Stream /\ SaysInv'
<1>1. /\ work \in Work /\ stream \in Stream /\ stream.ino \in Inos /\ "readdir" \in Ops
  BY DEF NInv, TypeOK, ClientTypeOK, KernelTypeOK, Stream, Work
<1>2. work' \in Work /\ WorkInv'
  BY EndsAtRest DEF SendPage
<1>3. SaysInv'
  BY <1>1, SaysFacts DEF SendPage
<1>4. /\ EntryOffset(work.off, work.done - 1) \in Nat
      /\ stream.got \o work.page \in Seq(Entries)
  <2>1. work.off \in Nat /\ work.done \in Nat /\ work.page \in Seq(Entries) /\ stream.got \in Seq(Entries)
    BY <1>1 DEF Work, Stream
  <2>2. EntryOffset(work.off, work.done - 1) = work.done + work.off
    BY <2>1 DEF EntryOffset
  <2>3. stream.got \o work.page \in Seq(Entries)
    BY <2>1, ConcatProperties
  <2>4. QED BY <2>1, <2>2, <2>3
<1>5. stream' \in Stream
  BY <1>1, <1>4 DEF SendPage, Stream
<1>6. QED BY <1>2, <1>3, <1>5

(* A turn of the iterator gives a number to a name of the directory.       *)
LEMMA ReaddirEntryKeeps ==
  ASSUME NInv, ReaddirEntry
  PROVE  NInv' /\ Steps(inodes, inodes')
<1> DEFINE k == work.off + work.done + 1
           e == work.dir[k]
           p == Append(work.path, e)
<1>1. /\ work.op = "readdir" /\ work \in Work /\ stream \in Stream
      /\ work.path \in Paths /\ Below(inodes, work.path)
      /\ \A m \in 1..Len(work.dir) :
           work.dir[m] \notin {Dot, DotDot} => Append(work.path, work.dir[m]) \in Paths
      /\ UNCHANGED <<alive, file_handles, remote, held, dentries, opened>>
  BY DEF ReaddirEntry, NInv, WorkInv, DirInv, TypeOK, ClientTypeOK, KernelTypeOK, server
<1>2. work.off \in Nat /\ work.done \in Nat /\ work.dir \in Seq(Entries) /\ work.page \in Seq(Entries)
  BY <1>1 DEF Work
<1>3. ASSUME UNCHANGED inodes
      PROVE  /\ inodes' \in Inodes /\ TableInv(inodes)' /\ DentriesAgree'
             /\ Steps(inodes, inodes') /\ inodes'.list[1] = inodes.list[1]
  <2>1. TableInv(inodes)' /\ DentriesAgree' /\ Steps(inodes, inodes')
    BY <1>1, <1>3, FewerDentries
  <2>2. QED BY <1>3, <2>1 DEF NInv, TypeOK, ClientTypeOK
<1>4. ASSUME k <= Len(work.dir), e \notin {Dot, DotDot}, Room(inodes, p), inodes' = Add(inodes, p).table
      PROVE  /\ inodes' \in Inodes /\ TableInv(inodes)' /\ DentriesAgree'
             /\ Steps(inodes, inodes') /\ inodes'.list[1] = inodes.list[1]
  <2>1. k \in 1..Len(work.dir)
    BY <1>2, <1>4
  <2>2. p \in Paths /\ e \in Names
    BY <1>1, <1>2, <1>4, <2>1 DEF Entries
  <2>3. inodes \in Inodes /\ TableInv(inodes)
    BY DEF NInv, TypeOK, ClientTypeOK
  <2>4. Below(inodes, p)
    <3>1. work.path \in Seq(Names) /\ inodes.list[1] \in Seq(Names)
      BY <1>1, <2>3, PathFacts DEF TableInv, Inodes
    <3>2. Len(p) = Len(work.path) + 1
      BY <2>2, <3>1
    <3> HIDE DEF p
    <3>3. QED BY <1>1, <3>1, <3>2 DEF Below
  <2> HIDE DEF p
  <2>5. /\ inodes' \in Inodes /\ TableInv(inodes') /\ Steps(inodes, inodes')
        /\ \A i \in Inos : inodes.list[i] # NoPath => inodes'.list[i] = inodes.list[i]
    BY <1>4, <2>2, <2>3, <2>4, AddFacts
  <2>6. TableInv(inodes)'
    BY <2>5 DEF TableInv, Below
  <2>7. DentriesAgree'
    BY <1>1, <2>5 DEF NInv, TypeOK, KernelTypeOK, Dentry, DentriesAgree, HasPath, Child
  <2>8. QED BY <2>3, <2>5, <2>6, <2>7, PathFacts DEF TableInv
<1>5. \/ k > Len(work.dir) /\ SendPage /\ UNCHANGED inodes
      \/ /\ k <= Len(work.dir)
         /\ IF e \in {Dot, DotDot} THEN UNCHANGED inodes
            ELSE Room(inodes, p) /\ inodes' = Add(inodes, p).table
         /\ \/ /\ work' = [work EXCEPT !.done = @ + 1, !.page = Append(@, e)]
               /\ Silent /\ UNCHANGED stream
            \/ work.page # <<>> /\ SendPage
  BY DEF ReaddirEntry
<1>6. /\ inodes' \in Inodes /\ TableInv(inodes)' /\ DentriesAgree'
      /\ Steps(inodes, inodes') /\ inodes'.list[1] = inodes.list[1]
  <2> HIDE DEF k, e, p
  <2>1. QED BY <1>3, <1>4, <1>5
<1>7. ASSUME k <= Len(work.dir), work' = [work EXCEPT !.done = @ + 1, !.page = Append(@, e)],
             Silent, UNCHANGED stream
      PROVE  work' \in Work /\ WorkInv' /\ stream' \in Stream /\ SaysInv'
  <2>1. k \in 1..Len(work.dir)
    BY <1>2, <1>7
  <2>2. e \in Entries
    BY <1>2, <2>1
  <2> HIDE DEF e
  <2>3. Append(work.page, e) \in Seq(Entries)
    BY <1>2, <2>2
  <2>4. work' \in Work /\ work'.op = "readdir" /\ work'.path = work.path /\ work'.dir = work.dir
    <3> DEFINE page == Append(work.page, e)
               done == work.done + 1
    <3>1. work' = [work EXCEPT !.done = done, !.page = page]
      BY <1>1, <1>7 DEF Work
    <3>2. page \in Seq(Entries) /\ done \in Nat
      BY <1>2, <2>3
    <3> HIDE DEF page, done
    <3>3. QED BY <1>1, <3>1, <3>2 DEF Work
  <2>5. WorkInv'
    BY <1>1, <1>6, <2>4 DEF WorkInv, MakeInv, DirInv, IoInv, Below
  <2>6. SaysInv'
    BY <1>7, SilentFacts
  <2>7. QED BY <1>1, <1>7, <2>4, <2>5, <2>6
<1>8. work' \in Work /\ WorkInv' /\ stream' \in Stream /\ SaysInv'
  <2> HIDE DEF k, e, p
  <2>1. QED BY <1>1, <1>5, <1>7, SendPageFacts
<1>9. QED BY <1>1, <1>6, <1>8
          DEF NInv, TypeOK, ClientTypeOK, KernelTypeOK, ServerTypeOK, SaysInv
-----------------------------------------------------------------------------
(* Files.                                                                  *)

\* Steps that leave names and numbers alone.
LEMMA NamesKept ==
  ASSUME NInv, UNCHANGED <<alive, inodes, remote, dentries, stream>>,
         file_handles' \in FHandlers, work' \in Work, WorkInv', SaysInv',
         held' \subseteq SftpHandles, opened' \subseteq Opened
  PROVE  NInv' /\ Steps(inodes, inodes')
<1>1. TableInv(inodes)' /\ DentriesAgree' /\ dentries' \subseteq Dentry /\ Steps(inodes, inodes')
  BY FewerDentries
<1>2. QED BY <1>1 DEF NInv, TypeOK, ClientTypeOK, KernelTypeOK, ServerTypeOK, SaysInv

LEMMA FileFacts ==
  /\ NoFile \notin File /\ 0 \in Fhs /\ Fhs \subseteq Nat
  /\ \A t \in FHandlers, fh \in Fhs :
       t.list \in [Fhs -> File \cup {NoFile}] /\ t.list[fh] \in File \cup {NoFile}
BY InodesAssumption DEF File, NoFile, FHandlers, Fhs

LEMMA OpenKeeps ==
  ASSUME NInv, NEW i \in Inos, NEW append \in BOOLEAN, Open(i, append)
  PROVE  NInv' /\ Steps(inodes, inodes')
<1> DEFINE p == inodes.list[i]
           n == NextFh(file_handles)
           f(h) == [h |-> h, path |-> p, pos |-> 0, append |-> append]
<1>1. /\ "open" \in Ops /\ work = Idle
      /\ UNCHANGED <<alive, inodes, work, remote, dentries, stream>>
  BY DEF Open, Ask
<1>2. WorkInv' /\ work' \in Work
  BY <1>1, EndsAtRest
<1>3. /\ file_handles \in FHandlers /\ held \subseteq SftpHandles /\ opened \subseteq Opened
  BY DEF NInv, TypeOK, ClientTypeOK, KernelTypeOK, ServerTypeOK
<1>4. CASE /\ Exists(p) /\ file_handles.next_fh < MaxFh
           /\ \E h \in SftpHandles \ held :
                /\ held' = held \cup {h}
                /\ file_handles' = AddFile(file_handles, f(h))
           /\ opened' = opened \cup {[fh |-> n, ino |-> i, path |-> p]}
           /\ Says("open", "ok", i, i)
  <2>1. PICK h \in SftpHandles \ held :
               /\ held' = held \cup {h}
               /\ file_handles' = AddFile(file_handles, f(h))
    BY <1>4
  <2>2. p \in Paths
    BY <1>4 DEF Exists
  <2>3. n \in Fhs /\ n = file_handles.next_fh /\ n + 1 \in Fhs
    BY <1>3, <1>4, InodesAssumption DEF NextFh, FHandlers, Fhs
  <2>4. f(h) \in File
    BY <2>1, <2>2, InodesAssumption DEF File
  <2>5. file_handles' \in FHandlers
    BY <1>3, <2>1, <2>3, <2>4 DEF AddFile, FHandlers
  <2>6. opened' \subseteq Opened
    BY <1>3, <1>4, <2>2, <2>3 DEF Opened
  <2>7. SaysInv'
    BY <1>1, <1>4, SaysFacts
  <2>8. held' \subseteq SftpHandles
    BY <1>3, <2>1
  <2>9. QED BY <1>1, <1>2, <2>5, <2>6, <2>7, <2>8, NamesKept
<1>5. CASE Says("open", "error", i, 0) /\ UNCHANGED <<held, file_handles, opened>>
  <2>1. SaysInv'
    BY <1>1, <1>5, SaysFacts
  <2>2. QED BY <1>1, <1>2, <1>3, <1>5, <2>1, NamesKept
<1>6. QED BY <1>4, <1>5 DEF Open

LEMMA ReleaseKeeps ==
  ASSUME NInv, NEW o \in opened, Release(o)
  PROVE  NInv' /\ Steps(inodes, inodes')
<1>1. /\ "release" \in Ops /\ work = Idle
      /\ UNCHANGED <<alive, inodes, work, remote, dentries, stream>>
      /\ opened' = opened \ {o} /\ held' = held \ Closed(o.fh)
      /\ file_handles' = DelFile(file_handles, o.fh) /\ Says("release", "ok", o.ino, 0)
  BY DEF Release, Ask
<1>2. WorkInv' /\ work' \in Work
  BY <1>1, EndsAtRest
<1>3. /\ file_handles \in FHandlers /\ held \subseteq SftpHandles /\ opened \subseteq Opened
      /\ o.fh \in Fhs /\ o.ino \in Inos
  BY DEF NInv, TypeOK, ClientTypeOK, KernelTypeOK, ServerTypeOK, Opened
<1>4. file_handles' \in FHandlers
  BY <1>1, <1>3 DEF DelFile, FHandlers
<1>5. SaysInv'
  BY <1>1, <1>3, SaysFacts
<1>6. QED BY <1>1, <1>2, <1>3, <1>4, <1>5, NamesKept

LEMMA StartIoKeeps ==
  ASSUME NInv, NEW o \in opened, NEW op \in {"read", "write"},
         NEW off \in 0..MaxOffset, NEW end \in 0..MaxOffset, off < end,
         StartIo(op, o, off, end - off)
  PROVE  NInv' /\ Steps(inodes, inodes')
<1> DEFINE len == end - off
           fh == o.fh
           f == file_handles.list[fh]
<1>1. /\ op \in Ops /\ work = Idle
      /\ UNCHANGED <<alive, inodes, remote, held, dentries, opened, stream>>
  BY DEF StartIo, Ask, server, kernel
<1>2. /\ file_handles \in FHandlers /\ held \subseteq SftpHandles /\ opened \subseteq Opened
      /\ fh \in Fhs /\ o.ino \in Inos
  BY DEF NInv, TypeOK, ClientTypeOK, KernelTypeOK, ServerTypeOK, Opened
<1>3. CASE Says(op, "error", o.ino, 0) /\ UNCHANGED <<file_handles, work>>
  <2>1. SaysInv'
    BY <1>1, <1>2, <1>3, SaysFacts
  <2>2. WorkInv' /\ work' \in Work
    BY <1>1, <1>3, EndsAtRest
  <2>3. QED BY <1>1, <1>2, <1>3, <2>1, <2>2, NamesKept
<1>4. CASE /\ f # NoFile
           /\ file_handles' = [file_handles EXCEPT !.list[fh] = SeekTo(@, off)]
           /\ work' = [Idle EXCEPT !.op = op, !.fh = fh, !.off = off, !.len = len]
           /\ Silent
  <2>1. f \in File /\ file_handles.list \in [Fhs -> File \cup {NoFile}]
    BY <1>2, <1>4, FileFacts
  <2>2. SeekTo(f, off) \in File /\ SeekTo(f, off).pos = off
    BY <2>1 DEF SeekTo, File
  <2>3. file_handles' \in FHandlers /\ file_handles'.list[fh] = SeekTo(f, off)
    BY <1>2, <1>4, <2>1, <2>2 DEF FHandlers
  <2>4. len \in 0..MaxOffset /\ off \in Nat /\ off + len <= MaxOffset /\ 0 <= len
    BY InodesAssumption
  <2> HIDE DEF len, fh, f
  <2>5. work' = [op |-> op, path |-> NoPath, h |-> NoHandle, parent |-> 1, name |-> Dot,
                 fh |-> fh, off |-> off, len |-> len, done |-> 0, moved |-> {},
                 dir |-> <<>>, page |-> <<>>]
    BY <1>4 DEF Idle
  <2>6. <<>> \in Seq(Entries) /\ 1 \in Inos
    BY PathFacts
  <2>7. work' \in Work
    BY <1>1, <1>2, <2>4, <2>5, <2>6 DEF Work
  <2>8. off..(off + 0 - 1) = {} /\ off + 0 = off
    BY <2>4
  <2>9. WorkInv'
    BY <2>2, <2>3, <2>4, <2>5, <2>8 DEF WorkInv, MakeInv, DirInv, IoInv
  <2>10. SaysInv'
    BY <1>4, SilentFacts
  <2>11. QED BY <1>1, <1>2, <2>3, <2>7, <2>9, <2>10, NamesKept
<1>5. QED BY <1>3, <1>4 DEF StartIo
LEMMA Progress ==
  ASSUME NEW off \in Nat, NEW done \in Nat, NEW len \in Nat, NEW max \in Nat,
         NEW n \in 0..(len - done), done <= len, off + len <= max
  PROVE  /\ done + n \in Nat /\ done + n <= len
         /\ (off + done) + n = off + (done + n)
         /\ off + (done + n) \in 0..max
         /\ off..(off + done - 1) \cup (off + done)..(off + done + n - 1)
              = off..(off + (done + n) - 1)
OBVIOUS

(* One turn of the loop of read or write.                                  *)
LEMMA TransferFacts ==
  ASSUME NInv, work.op \in {"read", "write"},
         NEW n \in 0..(work.len - work.done), Transfer(n)
  PROVE  file_handles' \in FHandlers /\ work' \in Work /\ WorkInv' /\ SaysInv'
<1> DEFINE fh == work.fh
           f == file_handles.list[fh]
           done == work.done + n
           pos == f.pos + n
           moved == work.moved \cup Lands(f.pos, n)
<1>1. /\ work \in Work /\ file_handles \in FHandlers /\ fh \in Fhs /\ f \in File
      /\ f.pos = work.off + work.done
      /\ work.done <= work.len /\ work.off + work.len <= MaxOffset
      /\ work.moved = IF Appends THEN {} ELSE work.off..(work.off + work.done - 1)
  BY DEF NInv, TypeOK, ClientTypeOK, WorkInv, IoInv, Work
<1>2. /\ work.off \in Nat /\ work.done \in Nat /\ work.len \in Nat /\ MaxOffset \in Nat
      /\ work.moved \in SUBSET Nat
  BY <1>1, InodesAssumption DEF Work
<1>3. /\ done \in Nat /\ done <= work.len
      /\ pos = work.off + done /\ pos \in 0..MaxOffset
      /\ moved = IF Appends THEN {} ELSE work.off..(work.off + done - 1)
  <2> DEFINE o == work.off
             d == work.done
             l == work.len
  <2>1. /\ o \in Nat /\ d \in Nat /\ l \in Nat /\ MaxOffset \in Nat
        /\ n \in 0..(l - d) /\ d <= l /\ o + l <= MaxOffset
    BY <1>1, <1>2
  <2> HIDE DEF o, d, l
  <2>2. /\ d + n \in Nat /\ d + n <= l
        /\ (o + d) + n = o + (d + n)
        /\ o + (d + n) \in 0..MaxOffset
        /\ o..(o + d - 1) \cup (o + d)..(o + d + n - 1) = o..(o + (d + n) - 1)
    BY <2>1, Progress
  <2>3. /\ f.pos = o + d /\ done = d + n /\ pos = o + d + n
        /\ moved = IF Appends THEN {} ELSE o..(o + d - 1) \cup (o + d)..(o + d + n - 1)
    BY <1>1 DEF o, d, Lands
  <2> HIDE DEF done, pos, moved
  <2>4. QED BY <2>2, <2>3 DEF o, l
<1>4. /\ file_handles' = [file_handles EXCEPT !.list[fh].pos = pos]
      /\ work' = [work EXCEPT !.done = done, !.moved = moved]
      /\ Silent
  BY <1>1 DEF Transfer, Work
<1>5. moved \in SUBSET Nat
  BY <1>2, <1>3
<1> HIDE DEF done, pos, moved
<1>6. file_handles.list \in [Fhs -> File \cup {NoFile}]
  BY <1>1, FileFacts
<1>7. /\ [f EXCEPT !.pos = pos] \in File /\ [f EXCEPT !.pos = pos].pos = pos
      /\ file_handles' = [file_handles EXCEPT !.list[fh] = [f EXCEPT !.pos = pos]]
  BY <1>1, <1>3, <1>4 DEF File
<1>8. file_handles' \in FHandlers /\ file_handles'.list[fh] = [f EXCEPT !.pos = pos]
  <2> DEFINE g == [f EXCEPT !.pos = pos]
  <2>1. g \in File /\ file_handles' = [file_handles EXCEPT !.list[fh] = g]
    BY <1>7
  <2> HIDE DEF g
  <2>2. file_handles' \in FHandlers /\ file_handles'.list[fh] = g
    BY <1>1, <1>6, <2>1 DEF FHandlers
  <2>3. QED BY <2>2 DEF g
<1>9. /\ work' \in Work /\ work'.op = work.op /\ work'.fh = fh /\ work'.off = work.off
      /\ work'.len = work.len /\ work'.done = done /\ work'.moved = moved
  BY <1>1, <1>3, <1>4, <1>5 DEF Work
<1>10. WorkInv'
  <2>1. Appends' = Appends
    BY <1>1, <1>7, <1>8, <1>9 DEF Appends, File
  <2>2. QED BY <1>1, <1>3, <1>7, <1>8, <1>9, <2>1 DEF WorkInv, MakeInv, DirInv, IoInv
<1>11. SaysInv'
  BY <1>4, SilentFacts
<1>12. QED BY <1>8, <1>9, <1>10, <1>11

LEMMA EndIoFacts ==
  ASSUME NInv, work.op \in {"read", "write"}, NEW st \in {"ok", "error"}, NEW eof \in BOOLEAN,
         EndIo(st, eof),
         st = "ok" => work.done = work.len \/ (work.op = "read" /\ eof)
  PROVE  SaysInv'
<1>1. /\ work \in Work /\ Appends \in BOOLEAN
      /\ work.moved = IF Appends THEN {} ELSE work.off..(work.off + work.done - 1)
  <2>1. file_handles.list[work.fh] \in File
    BY DEF NInv, WorkInv, IoInv
  <2>2. Appends \in BOOLEAN
    BY <2>1 DEF Appends, File
  <2>3. QED BY <2>2 DEF NInv, TypeOK, ClientTypeOK, WorkInv, IoInv
<1>2. /\ work.op \in Ops /\ work.off \in Nat /\ work.done \in Nat /\ work.len \in 0..MaxOffset
      /\ work.moved \in SUBSET Nat /\ 0 \in 0..MaxInode
  BY <1>1, InodesAssumption DEF Work
<1>3. reply' = [op |-> work.op, st |-> st, asked |-> 0, ino |-> 0, off |-> work.off,
                len |-> work.len, n |-> work.done, eof |-> eof, moved |-> work.moved,
                appends |-> Appends]
  BY DEF EndIo, NoReply
<1>4. reply' \in Reply
  <2> DEFINE a == Appends
  <2>1. a \in BOOLEAN
    BY <1>1
  <2>2. reply' = [op |-> work.op, st |-> st, asked |-> 0, ino |-> 0, off |-> work.off,
                  len |-> work.len, n |-> work.done, eof |-> eof, moved |-> work.moved,
                  appends |-> a]
    BY <1>3
  <2> HIDE DEF a
  <2>3. QED BY <1>2, <2>1, <2>2, Zenon DEF Reply
<1>5. GetattrAnswersForAsked'
  BY <1>3 DEF GetattrAnswersForAsked
<1>6. MovesWhatWasAsked'
  BY <1>1, <1>3 DEF MovesWhatWasAsked
<1>7. QED BY <1>4, <1>5, <1>6 DEF SaysInv

LEMMA IoStepKeeps ==
  ASSUME NInv, IoStep
  PROVE  NInv' /\ Steps(inodes, inodes')
<1>1. /\ work.op \in {"read", "write"}
      /\ UNCHANGED <<alive, inodes, remote, held, dentries, opened, stream>>
      /\ file_handles \in FHandlers /\ held \subseteq SftpHandles /\ opened \subseteq Opened
  BY DEF IoStep, server, kernel, NInv, TypeOK, ClientTypeOK, KernelTypeOK, ServerTypeOK
<1>2. file_handles' \in FHandlers /\ work' \in Work /\ WorkInv' /\ SaysInv'
  <2>1. ASSUME NEW st \in {"ok", "error"}, NEW eof \in BOOLEAN, EndIo(st, eof),
               st = "ok" => work.done = work.len \/ (work.op = "read" /\ eof)
        PROVE  file_handles' \in FHandlers /\ work' \in Work /\ WorkInv' /\ SaysInv'
    <3>1. work' = Idle /\ UNCHANGED file_handles
      BY <2>1 DEF EndIo
    <3>2. QED BY <1>1, <2>1, <3>1, EndIoFacts, EndsAtRest
  <2>2. CASE work.done = work.len /\ EndIo("ok", FALSE)
    BY <2>1, <2>2
  <2>3. CASE EndIo("error", FALSE)
    BY <2>1, <2>3
  <2>4. CASE work.op = "read" /\ EndIo("ok", TRUE)
    BY <2>1, <2>4
  <2>5. CASE \/ work.done < work.len /\ Transfer(0)
             \/ \E n \in 1..(work.len - work.done) : Transfer(n)
    <3>1. work.len \in Nat /\ work.done \in Nat
      BY InodesAssumption DEF NInv, TypeOK, ClientTypeOK, Work
    <3>2. PICK n \in 0..(work.len - work.done) : Transfer(n)
      BY <2>5, <3>1
    <3>3. QED BY <1>1, <3>2, TransferFacts
  <2>6. QED BY <2>2, <2>3, <2>4, <2>5 DEF IoStep
<1>3. QED BY <1>1, <1>2, NamesKept
-----------------------------------------------------------------------------
(* The theorems.                                                           *)

LEMMA InitNInv == Init => NInv
<1> SUFFICES ASSUME Init PROVE NInv
  OBVIOUS
<1> DEFINE t == NoInodes
<1>1. PICK root \in Paths : inodes = Add(t, root).table
  BY ClientAssumption DEF Init
<1>2. /\ 1 \in Inos /\ NoPath \notin Paths /\ Inos \subseteq Nat
      /\ t.list \in [Inos -> {NoPath}] /\ t.max_inode = 0
  BY PathFacts DEF NoInodes
<1>3. ~Known(t, root) /\ NextInode(t) = 1
  BY <1>1, <1>2 DEF Known, NextInode
<1>4. inodes = [list |-> [t.list EXCEPT ![1] = root], max_inode |-> 1]
  BY <1>1, <1>3 DEF Add, Bound
<1> HIDE DEF t
<1>5. /\ inodes \in Inodes /\ inodes.list[1] = root /\ inodes.max_inode = 1
      /\ \A i \in Inos : i # 1 => inodes.list[i] = NoPath
  <2> DEFINE l == [t.list EXCEPT ![1] = root]
  <2>1. /\ l \in [Inos -> Paths \cup {NoPath}] /\ l[1] = root
        /\ \A i \in Inos : i # 1 => l[i] = NoPath
    BY <1>1, <1>2
  <2>2. inodes = [list |-> l, max_inode |-> 1] /\ 1 \in 0..MaxInode
    BY <1>4, InodesAssumption
  <2> HIDE DEF l
  <2>3. QED BY <2>1, <2>2 DEF Inodes
<1>6. TableInv(inodes)
  <2>1. root \in Seq(Names)
    BY <1>1, PathFacts
  <2>2. \A i \in Inos : i > 1 => i # 1
    BY <1>2
  <2>3. Len(root) \in Nat /\ root # NoPath
    BY <1>1, <1>2, <2>1
  <2>4. \A i \in Inos : inodes.list[i] # NoPath => i = 1
    BY <1>5
  <2>5. \A i \in Inos : inodes.list[i] # NoPath => Below(inodes, inodes.list[i])
    BY <1>5, <2>3, <2>4 DEF Below
  <2>6. \A i, j \in Inos : inodes.list[i] # NoPath /\ inodes.list[i] = inodes.list[j] => i = j
    <3>1. TAKE i, j \in Inos
    <3>2. HAVE inodes.list[i] # NoPath /\ inodes.list[i] = inodes.list[j]
    <3>3. i = 1 /\ j = 1
      BY <2>4, <3>2
    <3>4. QED BY <3>3
  <2>7. \A i \in Inos : i > inodes.max_inode => inodes.list[i] = NoPath
    BY <1>5, <2>2
  <2>8. inodes.list[1] # NoPath /\ inodes.max_inode >= 1
    BY <1>5, <2>3
  <2>9. QED BY <2>5, <2>6, <2>7, <2>8 DEF TableInv
<1>7. WorkInv /\ work \in Work
  BY AtRest DEF Init
<1>8. reply \in Reply /\ GetattrAnswersForAsked /\ MovesWhatWasAsked
  <2>1. 0 \in 0..MaxInode /\ 0 \in 0..MaxOffset
    BY InodesAssumption
  <2>2. NoReply \in Reply /\ NoReply.op = "none"
    BY <2>1 DEF NoReply, Reply
  <2>3. QED BY <2>2 DEF Init, GetattrAnswersForAsked, MovesWhatWasAsked
<1>9. file_handles \in FHandlers
  BY FileFacts DEF Init, NoFHandlers, FHandlers
<1>10. stream \in Stream
  <2>1. <<>> \in Seq(Entries)
    OBVIOUS
  <2>2. QED BY <1>2, <2>1 DEF Init, NoStream, Stream
<1>11. /\ remote \in [Paths -> {"none", "file", "dir"}] /\ held = {} /\ dentries = {}
       /\ opened = {} /\ alive = TRUE
  BY ClientAssumption DEF Init
<1>12. DentriesAgree
  BY <1>11 DEF DentriesAgree
<1>13. QED BY <1>1, <1>5, <1>6, <1>7, <1>8, <1>9, <1>10, <1>11, <1>12
           DEF NInv, TypeOK, ClientTypeOK, KernelTypeOK, ServerTypeOK

LEMMA StepNInv == NInv /\ [Next]_vars => NInv' /\ Steps(inodes, inodes')
<1> SUFFICES ASSUME NInv, [Next]_vars PROVE NInv' /\ Steps(inodes, inodes')
  OBVIOUS
<1>1. CASE NameRequest
  BY <1>1, LookupKeeps, MakeKeeps, RemoveKeeps, ForgetKeeps, GetattrKeeps
     DEF NameRequest, Unlink, Rmdir, Mknod, Mkdir
<1>2. CASE MakeStat
  BY <1>2, MakeStatKeeps
<1>3. CASE FileRequest
  BY <1>3, OpenKeeps, ReleaseKeeps, StartIoKeeps, IoStepKeeps DEF FileRequest, Read, Write
<1>4. CASE DirRequest
  BY <1>4, StartStreamKeeps, ReaddirKeeps, ReaddirEntryKeeps DEF DirRequest
<1>5. CASE Others
  BY <1>5, OthersKeep
<1>6. CASE UNCHANGED vars
  <2>1. UNCHANGED <<alive, inodes, file_handles, work, reply, remote, held, dentries, opened, stream>>
    BY <1>6 DEF vars, client, server, kernel
  <2>2. WorkInv' /\ GetattrAnswersForAsked' /\ MovesWhatWasAsked'
    BY <2>1 DEF NInv, WorkInv, MakeInv, DirInv, IoInv, Appends, HasPath, Child, Below,
                GetattrAnswersForAsked, MovesWhatWasAsked
  <2>3. TableInv(inodes)' /\ DentriesAgree' /\ Steps(inodes, inodes')
    BY <2>1, FewerDentries
  <2>4. QED BY <2>1, <2>2, <2>3 DEF NInv, TypeOK, ClientTypeOK, KernelTypeOK, ServerTypeOK
<1>7. QED BY <1>1, <1>2, <1>3, <1>4, <1>5, <1>6 DEF Next

(* Every variable of the client, the kernel and the server has its type.   *)
THEOREM TypeCorrect == Spec => []TypeOK
<1>1. NInv => TypeOK
  BY DEF NInv
<1>2. QED BY <1>1, InitNInv, StepNInv, PTL DEF Spec

(* A name the kernel holds stands for the path its number has in the       *)
(* tables: lookup, mknod and mkdir bind it so (filesystem.rs 193-213,      *)
(* 408-508), and unlink and rmdir retire no number that is still in use.   *)
THEOREM DentriesAgreeTheorem == Spec => []DentriesAgree
<1>1. NInv => DentriesAgree
  BY DEF NInv
<1>2. QED BY <1>1, InitNInv, StepNInv, PTL DEF Spec

(* The unwrap of get_inode in unlink and rmdir (filesystem.rs 460, 520)    *)
(* never fails.                                                            *)
THEOREM NeverPanicsTheorem == Spec => []NeverPanics
<1>1. NInv => NeverPanics
  BY DEF NInv, NeverPanics
<1>2. QED BY <1>1, InitNInv, StepNInv, PTL DEF Spec

(* getattr answers for the number it was asked for (filesystem.rs 214).    *)
THEOREM GetattrAnswersForAskedTheorem == Spec => []GetattrAnswersForAsked
<1>1. NInv => GetattrAnswersForAsked
  BY DEF NInv
<1>2. QED BY <1>1, InitNInv, StepNInv, PTL DEF Spec

(* The loops of read and write (filesystem.rs 335-356, 384-399) move the   *)
(* bytes the kernel asked for, whatever File::read and File::write return. *)
THEOREM MovesWhatWasAskedTheorem == Spec => []MovesWhatWasAsked
<1>1. NInv => MovesWhatWasAsked
  BY DEF NInv
<1>2. QED BY <1>1, InitNInv, StepNInv, PTL DEF Spec
-----------------------------------------------------------------------------
(* The table of numbers implements the abstract one.                       *)

\* The abstract table a table of numbers stands for.
Bindings(t) ==
  [i \in Inos |-> IF t.list[i] # NoPath THEN t.list[i]
                  ELSE IF i <= t.max_inode THEN Retired ELSE Fresh]

\* An abstract step, told by the tables before and after.
Abstractly(b, c) ==
  \/ c = b
  \/ \E i \in Inos, p \in Paths :
       b[i] = Fresh /\ (\A j \in Inos : b[j] # p) /\ c = [b EXCEPT ![i] = p]
  \/ \E i \in Inos : i # 1 /\ b[i] \in Paths /\ c = [b EXCEPT ![i] = Retired]

LEMMA StepsAbstractly ==
  ASSUME NEW t \in Inodes, TableInv(t), NEW u, Steps(t, u)
  PROVE  Abstractly(Bindings(t), Bindings(u))
<1> DEFINE b == Bindings(t)
           c == Bindings(u)
<1>1. /\ t.list \in [Inos -> Paths \cup {NoPath}] /\ t.max_inode \in Nat /\ NoPath \notin Paths
      /\ Inos \subseteq Nat
  BY PathFacts, InodesAssumption DEF Inodes
<1>2. ASSUME NEW p \in Paths, NextInode(t) \in Inos, ~Known(t, p), u = Bound(t, p)
      PROVE  Abstractly(b, c)
  <2> DEFINE n == NextInode(t)
  <2>1. n \in Inos /\ n = t.max_inode + 1
    BY <1>2 DEF NextInode
  <2>2. /\ u.max_inode = n /\ u.list[n] = p
        /\ \A i \in Inos : i # n => u.list[i] = t.list[i]
    BY <1>1, <1>2, <2>1 DEF Bound
  <2> HIDE DEF n
  <2>3. t.list[n] = NoPath
    BY <1>1, <2>1 DEF TableInv
  <2>4. b[n] = Fresh
    BY <1>1, <2>1, <2>3 DEF Bindings
  <2>5. \A j \in Inos : b[j] # p
    BY <1>2, ClientAssumption DEF Bindings, Known
  <2>6. ASSUME NEW i \in Inos PROVE c[i] = [b EXCEPT ![n] = p][i]
    <3>1. CASE i = n
      BY <1>1, <2>1, <2>2, <3>1 DEF Bindings
    <3>2. CASE i # n
      <4>1. i <= n <=> i <= t.max_inode
        BY <1>1, <2>1, <3>2
      <4>2. QED BY <2>1, <2>2, <3>2, <4>1 DEF Bindings
    <3>3. QED BY <3>1, <3>2
  <2>7. c = [b EXCEPT ![n] = p]
    BY <2>6 DEF Bindings
  <2>8. QED BY <2>1, <2>4, <2>5, <2>7 DEF Abstractly
<1>3. ASSUME NEW i \in Inos \ {1}, t.list[i] # NoPath, u = DelInode(t, i)
      PROVE  Abstractly(b, c)
  <2>1. /\ u.max_inode = t.max_inode /\ u.list[i] = NoPath
        /\ \A j \in Inos : j # i => u.list[j] = t.list[j]
    BY <1>1, <1>3 DEF DelInode, Inodes
  <2>2. b[i] \in Paths /\ i <= t.max_inode
    BY <1>1, <1>3 DEF Bindings, TableInv
  <2>3. ASSUME NEW j \in Inos PROVE c[j] = [b EXCEPT ![i] = Retired][j]
    BY <1>3, <2>1, <2>2 DEF Bindings
  <2>4. c = [b EXCEPT ![i] = Retired]
    BY <2>3 DEF Bindings
  <2>5. QED BY <2>2, <2>4 DEF Abstractly
<1>4. CASE u = t
  BY <1>4 DEF Abstractly
<1>5. QED BY <1>2, <1>3, <1>4 DEF Steps

LEMMA AbstractInit == Init => Table!Init
<1> SUFFICES ASSUME Init PROVE Table!Init
  OBVIOUS
<1>1. PICK root \in Paths : inodes = Add(NoInodes, root).table
  BY ClientAssumption DEF Init
<1>2. /\ 1 \in Inos /\ NoPath \notin Paths /\ Inos \subseteq Nat
      /\ NoInodes.list \in [Inos -> {NoPath}] /\ NoInodes.max_inode = 0
  BY PathFacts DEF NoInodes
<1>3. ~Known(NoInodes, root) /\ NextInode(NoInodes) = 1
  BY <1>1, <1>2 DEF Known, NextInode
<1> DEFINE l == [NoInodes.list EXCEPT ![1] = root]
<1>4. inodes.list = l /\ inodes.max_inode = 1
  BY <1>1, <1>3 DEF Add, Bound
<1>5. l[1] = root /\ \A i \in Inos : i # 1 => l[i] = NoPath
  BY <1>1, <1>2
<1> HIDE DEF l
<1>6. ASSUME NEW i \in Inos PROVE Binding(i) = IF i = 1 THEN root ELSE Fresh
  <2>1. CASE i = 1
    BY <1>1, <1>2, <1>4, <1>5, <2>1 DEF Binding, HasPath
  <2>2. CASE i # 1
    <3>1. ~(i <= 1)
      BY <2>2, InodesAssumption DEF Inos
    <3>2. QED BY <1>4, <1>5, <2>2, <3>1 DEF Binding, HasPath
  <2>3. QED BY <2>1, <2>2
<1>7. [i \in Inos |-> Binding(i)] = [i \in Inos |-> IF i = 1 THEN root ELSE Fresh]
  BY <1>6
<1>8. QED BY <1>1, <1>7 DEF Table!Init, Table!Root

LEMMA AbstractStep == NInv /\ [Next]_vars => [Table!Next]_([i \in Inos |-> Binding(i)])
<1> SUFFICES ASSUME NInv, [Next]_vars
             PROVE  [Table!Next]_([i \in Inos |-> Binding(i)])
  OBVIOUS
<1> DEFINE b == [i \in Inos |-> Binding(i)]
<1>1. b = Bindings(inodes) /\ b' = Bindings(inodes')
  BY DEF Bindings, Binding, HasPath
<1>2. Abstractly(b, b')
  BY <1>1, StepNInv, StepsAbstractly DEF NInv, TypeOK, ClientTypeOK
<1>3. QED BY <1>2 DEF Abstractly, Table!Next, Table!Bind, Table!Retire, Table!Root

(* Inodes::add and del_inode (filesystem.rs 92-110), as the requests use   *)
(* them, are an InodeTable: numbers are never used again and never shared. *)
THEOREM ImplementsInodeTableTheorem == Spec => ImplementsInodeTable
<1>1. Spec => Table!Spec
  BY InitNInv, StepNInv, AbstractInit, AbstractStep, PTL DEF Spec, Table!Spec
<1>2. QED BY <1>1 DEF ImplementsInodeTable
-----------------------------------------------------------------------------
(* Handles.  OpenedDenote is not inductive: it needs that numbers not yet  *)
(* given are free, and that the kernel's files have numbers of their own.  *)

HInv ==
  /\ OpenedDenote
  /\ \A fh \in Fhs : fh >= file_handles.next_fh => file_handles.list[fh] = NoFile
  /\ \A o \in opened : o.fh < file_handles.next_fh
  /\ \A o, q \in opened : o.fh = q.fh => o = q

LEMMA HandlesKept ==
  ASSUME NInv, HInv, UNCHANGED opened,
         file_handles'.next_fh = file_handles.next_fh,
         \A fh \in Fhs : /\ file_handles'.list[fh].path = file_handles.list[fh].path
                         /\ file_handles.list[fh] = NoFile => file_handles'.list[fh] = NoFile
  PROVE  HInv'
<1>1. \A o \in opened : o.fh \in Fhs
  BY DEF NInv, TypeOK, KernelTypeOK, Opened
<1>2. QED BY <1>1 DEF HInv, OpenedDenote

LEMMA StepHInv == NInv /\ HInv /\ [Next]_vars => HInv'
<1> SUFFICES ASSUME NInv, HInv, [Next]_vars PROVE HInv'
  OBVIOUS
<1>0. /\ file_handles \in FHandlers /\ opened \subseteq Opened
      /\ file_handles.list \in [Fhs -> File \cup {NoFile}]
      /\ \A o \in opened : o.fh \in Fhs
  BY DEF NInv, TypeOK, ClientTypeOK, KernelTypeOK, Opened, FHandlers
<1>1. CASE UNCHANGED <<file_handles, opened>>
  BY <1>1, HandlesKept
<1>2. ASSUME NEW i \in Inos, NEW append \in BOOLEAN, Open(i, append) PROVE HInv'
  <2> DEFINE p == inodes.list[i]
             n == NextFh(file_handles)
             f(h) == [h |-> h, path |-> p, pos |-> 0, append |-> append]
  <2>1. CASE UNCHANGED <<file_handles, opened>>
    BY <2>1, HandlesKept
  <2>2. CASE /\ file_handles.next_fh < MaxFh
             /\ \E h \in SftpHandles \ held :
                  file_handles' = AddFile(file_handles, f(h))
             /\ opened' = opened \cup {[fh |-> n, ino |-> i, path |-> p]}
    <3>1. PICK h : file_handles' = AddFile(file_handles, f(h))
      BY <2>2
    <3>2. n = file_handles.next_fh /\ n \in Fhs /\ n \in Nat /\ \A fh \in Fhs : fh \in Nat
      BY <1>0 DEF NextFh, FHandlers, Fhs
    <3>3. /\ file_handles'.next_fh = n + 1
          /\ file_handles'.list = [file_handles.list EXCEPT ![n] = f(h)]
      BY <3>1 DEF AddFile
    <3> HIDE DEF n, p
    <3>4. /\ file_handles'.list[n].path = p
          /\ \A fh \in Fhs : fh # n => file_handles'.list[fh] = file_handles.list[fh]
      BY <1>0, <3>2, <3>3
    <3>5. ASSUME NEW o \in opened'
          PROVE  file_handles'.list[o.fh].path = o.path /\ o.fh < n + 1 /\ (o.fh = n => o \notin opened)
      <4>1. CASE o \in opened
        <5>1. o.fh < n /\ o.fh \in Fhs /\ o.fh \in Nat
          BY <1>0, <3>2, <4>1 DEF HInv
        <5>2. o.fh # n /\ o.fh < n + 1
          BY <3>2, <5>1
        <5>3. file_handles.list[o.fh].path = o.path
          BY <4>1 DEF HInv, OpenedDenote
        <5>4. QED BY <3>4, <5>1, <5>2, <5>3
      <4>2. CASE o = [fh |-> n, ino |-> i, path |-> p]
        <5>1. o.fh = n /\ o.path = p
          BY <4>2
        <5>2. \A q \in opened : q.fh # n
          BY <1>0, <3>2 DEF HInv
        <5>3. QED BY <3>2, <3>4, <5>1, <5>2
      <4>3. QED BY <2>2, <4>1, <4>2
    <3>6. \A fh \in Fhs : fh >= n + 1 => file_handles'.list[fh] = NoFile
      BY <3>2, <3>4 DEF HInv
    <3>7. ASSUME NEW o \in opened', NEW q \in opened', o.fh = q.fh PROVE o = q
      <4>1. CASE o \in opened /\ q \in opened
        BY <3>7, <4>1 DEF HInv
      <4>2. CASE ~(o \in opened /\ q \in opened)
        <5>1. o.fh = n
          BY <2>2, <3>7, <4>2
        <5>2. o \notin opened /\ q \notin opened
          BY <3>5, <3>7, <5>1
        <5>3. QED BY <2>2, <5>2
      <4>3. QED BY <4>1, <4>2
    <3>8. QED BY <3>3, <3>5, <3>6, <3>7 DEF HInv, OpenedDenote
  <2>3. QED BY <1>2, <2>1, <2>2 DEF Open
<1>3. ASSUME NEW o \in opened, Release(o) PROVE HInv'
  <2>1. opened' = opened \ {o} /\ file_handles' = DelFile(file_handles, o.fh)
    BY <1>3 DEF Release
  <2>2. /\ file_handles'.next_fh = file_handles.next_fh
        /\ file_handles'.list[o.fh] = NoFile
        /\ \A fh \in Fhs : fh # o.fh => file_handles'.list[fh] = file_handles.list[fh]
    BY <1>0, <2>1 DEF DelFile, FHandlers
  <2>3. \A q \in opened' : q \in opened /\ q.fh # o.fh
    BY <2>1 DEF HInv
  <2>4. QED BY <1>0, <2>2, <2>3 DEF HInv, OpenedDenote
<1>4. ASSUME NEW o \in opened, NEW op \in {"read", "write"},
             NEW off \in 0..MaxOffset, NEW len, StartIo(op, o, off, len)
      PROVE  HInv'
  <2> DEFINE fh == o.fh
             f == file_handles.list[fh]
  <2>1. UNCHANGED opened
    BY <1>4 DEF StartIo, kernel
  <2>2. CASE UNCHANGED file_handles
    BY <2>1, <2>2, HandlesKept
  <2>3. CASE f # NoFile /\ file_handles' = [file_handles EXCEPT !.list[fh] = SeekTo(@, off)]
    <3>1. f \in File /\ fh \in Fhs
      BY <1>0, <2>3
    <3>2. SeekTo(f, off).path = f.path
      BY <3>1 DEF SeekTo, File
    <3>3. /\ file_handles'.next_fh = file_handles.next_fh
          /\ file_handles'.list = [file_handles.list EXCEPT ![fh] = SeekTo(f, off)]
      BY <1>0, <2>3 DEF FHandlers
    <3> HIDE DEF fh, f
    <3>4. /\ file_handles'.list[fh] = SeekTo(f, off)
          /\ \A g \in Fhs : g # fh => file_handles'.list[g] = file_handles.list[g]
      BY <1>0, <3>1, <3>3
    <3>5. QED BY <2>1, <2>3, <3>2, <3>3, <3>4, HandlesKept DEF f
  <2>4. QED BY <1>4, <2>2, <2>3 DEF StartIo
<1>5. ASSUME NEW n, work.op \in {"read", "write"}, Transfer(n), UNCHANGED opened
      PROVE  HInv'
  <2> DEFINE fh == work.fh
             f == file_handles.list[fh]
             g == [f EXCEPT !.pos = f.pos + n]
  <2>1. f \in File /\ fh \in Fhs
    BY <1>5 DEF NInv, WorkInv, IoInv, TypeOK, ClientTypeOK, Work
  <2>2. g.path = f.path /\ f # NoFile
    BY <2>1, FileFacts DEF File
  <2>3. /\ file_handles'.next_fh = file_handles.next_fh
        /\ file_handles'.list = [file_handles.list EXCEPT ![fh] = g]
    BY <1>0, <1>5, <2>1 DEF Transfer, FHandlers
  <2> HIDE DEF fh, f, g
  <2>4. /\ file_handles'.list[fh] = g
        /\ \A h \in Fhs : h # fh => file_handles'.list[h] = file_handles.list[h]
    BY <1>0, <2>1, <2>3
  <2>5. QED BY <1>5, <2>2, <2>3, <2>4, HandlesKept DEF f
<1>6. CASE FileRequest
  <2>1. CASE IoStep
    <3>1. work.op \in {"read", "write"} /\ UNCHANGED opened
      BY <2>1 DEF IoStep, kernel
    <3>2. CASE UNCHANGED file_handles
      BY <1>1, <3>1, <3>2
    <3>3. CASE \E n : Transfer(n)
      BY <1>5, <3>1, <3>3
    <3>4. QED BY <2>1, <3>2, <3>3 DEF IoStep, EndIo
  <2>2. QED BY <1>2, <1>3, <1>4, <1>6, <2>1 DEF FileRequest, Read, Write
<1>7. CASE NameRequest \/ MakeStat \/ DirRequest \/ Others \/ UNCHANGED vars
  <2>1. NameRequest => UNCHANGED <<file_handles, opened>>
    <3>1. \A i, name : Lookup(i, name) => UNCHANGED <<file_handles, opened>>
      BY DEF Lookup
    <3>2. \A i, name : Mknod(i, name) \/ Mkdir(i, name) => UNCHANGED <<file_handles, opened>>
      BY DEF Mknod, Mkdir, Make, client
    <3>3. \A d : Unlink(d) \/ Rmdir(d) => UNCHANGED <<file_handles, opened>>
      BY DEF Unlink, Rmdir, Remove
    <3>4. \A d : Forget(d) => UNCHANGED <<file_handles, opened>>
      BY DEF Forget, client
    <3>5. \A i : Getattr(i) => UNCHANGED <<file_handles, opened>>
      BY DEF Getattr, kernel
    <3>6. QED BY <3>1, <3>2, <3>3, <3>4, <3>5 DEF NameRequest
  <2>2. MakeStat \/ DirRequest => UNCHANGED <<file_handles, opened>>
    BY DEF MakeStat, DirRequest, StartStream, Readdir, ReaddirEntry, client
  <2>3. Others \/ UNCHANGED vars => UNCHANGED <<file_handles, opened>>
    BY DEF Others, vars, client, kernel
  <2>4. UNCHANGED <<file_handles, opened>>
    BY <1>7, <2>1, <2>2, <2>3
  <2>5. QED BY <1>1, <2>4
<1>8. QED BY <1>6, <1>7 DEF Next

LEMMA InitHInv == Init => HInv
BY DEF Init, HInv, OpenedDenote, NoFHandlers, Fhs

(* An open file of the kernel is served from the file it opened            *)
(* (filesystem.rs 128-140, 282-315).                                       *)
THEOREM OpenedDenoteTheorem == Spec => []OpenedDenote
<1>1. HInv => OpenedDenote
  BY DEF HInv
<1>2. QED BY <1>1, InitNInv, StepNInv, InitHInv, StepHInv, PTL DEF Spec
-----------------------------------------------------------------------------
(* Handles of the server.  Each is held for one file or for the mknod under *)
(* way, so that closing the one never closes the other.                    *)

HeldInv ==
  /\ held = {file_handles.list[fh].h : fh \in Files(file_handles)} \cup ({work.h} \ {NoHandle})
  /\ Files(file_handles) = {o.fh : o \in opened}
  /\ \A f, g \in Files(file_handles) : file_handles.list[f].h = file_handles.list[g].h => f = g
  /\ \A f \in Files(file_handles) : file_handles.list[f].h # work.h
  /\ work.op \notin {"mknod", "mkdir"} => work.h = NoHandle

LEMMA HeldKept ==
  ASSUME HeldInv, UNCHANGED <<held, opened>>,
         Files(file_handles') = Files(file_handles),
         \A fh \in Files(file_handles) : file_handles'.list[fh].h = file_handles.list[fh].h,
         UNCHANGED work \/ (work'.h = work.h /\ work.h = NoHandle)
  PROVE  HeldInv'
BY DEF HeldInv

\* A file that is there stands in the table, and a number without one does not.
LEMMA FilesFacts ==
  ASSUME NInv
  PROVE  /\ file_handles.list \in [Fhs -> File \cup {NoFile}]
         /\ \A fh \in Files(file_handles) : file_handles.list[fh] \in File
         /\ \A f \in File : f # NoFile /\ f.h \in SftpHandles /\ f.h # NoHandle
<1>1. file_handles.list \in [Fhs -> File \cup {NoFile}]
  BY DEF NInv, TypeOK, ClientTypeOK, FHandlers
<1>2. \A f \in File : f # NoFile /\ f.h \in SftpHandles /\ f.h # NoHandle
  BY PathFacts, InodesAssumption DEF File, NoFile
<1>3. QED BY <1>1, <1>2 DEF Files

LEMMA OpenHeld ==
  ASSUME NInv, HInv, HeldInv, NEW i \in Inos, NEW append \in BOOLEAN, Open(i, append)
  PROVE  HeldInv'
<1> DEFINE p == inodes.list[i]
           n == NextFh(file_handles)
           l == file_handles.list
<1>1. UNCHANGED work /\ work = Idle
  BY DEF Open, Ask
<1>2. CASE UNCHANGED <<held, file_handles, opened>>
  BY <1>1, <1>2, HeldKept
<1>3. ASSUME NEW h \in SftpHandles \ held, held' = held \cup {h}, file_handles.next_fh < MaxFh,
             file_handles' = AddFile(file_handles,
                                     [h |-> h, path |-> p, pos |-> 0, append |-> append]),
             opened' = opened \cup {[fh |-> n, ino |-> i, path |-> p]}
      PROVE  HeldInv'
  <2> DEFINE f == [h |-> h, path |-> p, pos |-> 0, append |-> append]
  <2>1. n = file_handles.next_fh /\ n \in Fhs
    BY <1>3 DEF NextFh, NInv, TypeOK, ClientTypeOK, FHandlers
  <2>2. l[n] = NoFile
    BY <2>1 DEF HInv, Fhs
  <2>3. f.h = h /\ h # NoHandle /\ f # NoFile
    BY InodesAssumption DEF NoFile
  <2>4. file_handles'.list = [l EXCEPT ![n] = f]
    BY <1>3 DEF AddFile
  <2>5. /\ file_handles'.list[n] = f
        /\ \A fh \in Fhs : fh # n => file_handles'.list[fh] = l[fh]
    BY <2>1, <2>4, FilesFacts
  <2> HIDE DEF n, f, l, p
  <2>6. {o.fh : o \in opened'} = {o.fh : o \in opened} \cup {n}
    <3> DEFINE q == [fh |-> n, ino |-> i, path |-> p]
    <3>1. q.fh = n /\ opened' = opened \cup {q}
      BY <1>3
    <3> HIDE DEF q
    <3>2. QED BY <3>1
  <2>7. Files(file_handles') = Files(file_handles) \cup {n} /\ n \notin Files(file_handles)
    BY <2>1, <2>2, <2>3, <2>5 DEF Files, l
  <2>8. /\ \A fh \in Files(file_handles) : file_handles'.list[fh].h = l[fh].h /\ l[fh].h # h
        /\ file_handles'.list[n].h = h
    BY <1>3, <2>3, <2>5, <2>7 DEF HeldInv, Files, l
  <2>9. work.h = NoHandle /\ work'.h = NoHandle /\ work'.op = "idle"
    BY <1>1 DEF Idle
  <2>10. held' = {file_handles'.list[fh].h : fh \in Files(file_handles')}
    BY <1>3, <2>7, <2>8, <2>9 DEF HeldInv, l
  <2>11. \A fh \in Files(file_handles') : file_handles'.list[fh].h # NoHandle
    BY <2>3, <2>7, <2>8, FilesFacts DEF l
  <2>12. \A fh, g \in Files(file_handles') :
           file_handles'.list[fh].h = file_handles'.list[g].h => fh = g
    BY <2>7, <2>8 DEF HeldInv, l
  <2>13. QED BY <2>6, <2>7, <2>9, <2>10, <2>11, <2>12 DEF HeldInv
<1>4. QED BY <1>2, <1>3 DEF Open

LEMMA ReleaseHeld ==
  ASSUME NInv, HInv, HeldInv, NEW o \in opened, Release(o)
  PROVE  HeldInv'
<1> DEFINE fh == o.fh
           l == file_handles.list
<1>1. /\ work = Idle /\ work' = Idle /\ opened' = opened \ {o}
      /\ file_handles' = DelFile(file_handles, fh) /\ held' = held \ {l[fh].h}
  BY DEF Release, Ask, Closed
<1>2. fh \in Files(file_handles) /\ fh \in Fhs
  BY DEF HeldInv, Files
<1>3. /\ file_handles'.list[fh] = NoFile
      /\ \A g \in Fhs : g # fh => file_handles'.list[g] = l[g]
  BY <1>1, <1>2, FilesFacts DEF DelFile, NInv, TypeOK, ClientTypeOK, FHandlers
<1>4. {q.fh : q \in opened'} = {q.fh : q \in opened} \ {fh}
  BY <1>1 DEF HInv
<1>5. Files(file_handles') = Files(file_handles) \ {fh}
  BY <1>2, <1>3 DEF Files
<1>6. \A g \in Files(file_handles') : file_handles'.list[g].h = l[g].h /\ l[g].h # l[fh].h
  BY <1>2, <1>3, <1>5 DEF HeldInv, Files
<1>7. Idle.h = NoHandle /\ Idle.op = "idle"
  BY DEF Idle
<1> HIDE DEF fh, l
<1>8. held' = {file_handles'.list[g].h : g \in Files(file_handles')}
  BY <1>1, <1>2, <1>5, <1>6, <1>7 DEF HeldInv, l
<1>9. Files(file_handles') = {q.fh : q \in opened'}
  BY <1>4, <1>5 DEF HeldInv
<1>10. \A g, e \in Files(file_handles') : file_handles'.list[g].h = file_handles'.list[e].h => g = e
  BY <1>5, <1>6 DEF HeldInv, l
<1>11. \A g \in Files(file_handles') : file_handles'.list[g].h # NoHandle
  BY <1>5, <1>6, FilesFacts DEF l
<1>12. QED BY <1>1, <1>7, <1>8, <1>9, <1>10, <1>11 DEF HeldInv

LEMMA MakeHeld ==
  ASSUME NInv, HeldInv, NEW op \in {"mknod", "mkdir"}, NEW k, NEW i, NEW name, Make(op, k, i, name)
  PROVE  HeldInv'
<1>1. UNCHANGED <<file_handles, opened>> /\ work = Idle
  BY DEF Make, Ask, client
<1>2. CASE UNCHANGED <<held, work>>
  BY <1>1, <1>2, HeldKept
<1>3. ASSUME NEW h \in IF op = "mknod" THEN SftpHandles \ held ELSE {NoHandle},
             held' = held \cup ({h} \ {NoHandle}), work'.h = h, work'.op = op
      PROVE  HeldInv'
  <2>1. h \notin held /\ work.h = NoHandle
    BY <1>1, <1>3, InodesAssumption DEF Idle, NInv, TypeOK, ServerTypeOK
  <2>2. \A f \in Files(file_handles) : file_handles.list[f].h # h
    BY <2>1 DEF HeldInv
  <2>3. QED BY <1>1, <1>3, <2>1, <2>2 DEF HeldInv
<1>4. QED BY <1>2, <1>3 DEF Make, Idle

LEMMA MakeStatHeld ==
  ASSUME NInv, HeldInv, MakeStat
  PROVE  HeldInv'
<1>1. /\ UNCHANGED <<file_handles, opened>> /\ held' = held \ {work.h}
      /\ work'.h = NoHandle /\ work'.op = "idle"
  BY DEF MakeStat, Idle
<1>2. held' = {file_handles.list[fh].h : fh \in Files(file_handles)}
  BY <1>1, FilesFacts DEF HeldInv
<1>3. \A f \in Files(file_handles) : file_handles.list[f].h # NoHandle
  BY FilesFacts
<1>4. QED BY <1>1, <1>2, <1>3 DEF HeldInv

\* What a seek or a transfer changes of a file is where it stands.
LEMMA MovedHeld ==
  ASSUME NInv, HeldInv, NEW fh \in Fhs, NEW n, file_handles.list[fh] # NoFile,
         file_handles' = [file_handles EXCEPT !.list[fh] = [@ EXCEPT !.pos = n]],
         UNCHANGED <<held, opened>>, work'.h = work.h, work.h = NoHandle
  PROVE  HeldInv'
<1> DEFINE f == file_handles.list[fh]
           g == [f EXCEPT !.pos = n]
<1>1. f \in File
  BY FilesFacts
<1>2. g.h = f.h /\ g.path = f.path /\ f.path \in Paths
  BY <1>1 DEF File
<1>3. g # NoFile
  BY <1>2, PathFacts DEF NoFile
<1>4. file_handles'.list = [file_handles.list EXCEPT ![fh] = g]
  BY DEF NInv, TypeOK, ClientTypeOK, FHandlers
<1> HIDE DEF f, g
<1>5. /\ file_handles'.list[fh] = g
      /\ \A e \in Fhs : e # fh => file_handles'.list[e] = file_handles.list[e]
  BY <1>4, FilesFacts
<1>6. Files(file_handles') = Files(file_handles)
  BY <1>3, <1>5 DEF Files
<1>7. \A e \in Files(file_handles) : file_handles'.list[e].h = file_handles.list[e].h
  BY <1>2, <1>5 DEF Files, f
<1>8. QED BY <1>6, <1>7, HeldKept

LEMMA StepHeldInv == NInv /\ HInv /\ HeldInv /\ [Next]_vars => HeldInv'
<1> SUFFICES ASSUME NInv, HInv, HeldInv, [Next]_vars PROVE HeldInv'
  OBVIOUS
<1>1. ASSUME UNCHANGED <<file_handles, held, opened>>, UNCHANGED work \/ work'.h = work.h,
             UNCHANGED work \/ work.h = NoHandle
      PROVE  HeldInv'
  BY <1>1, HeldKept
<1>2. work \in Work /\ Idle.h = NoHandle /\ Idle.op = "idle"
  BY DEF NInv, TypeOK, ClientTypeOK, Idle
<1>3. CASE NameRequest
  <2>1. ASSUME NEW i, NEW name, Mknod(i, name) \/ Mkdir(i, name) PROVE HeldInv'
    BY <2>1, MakeHeld DEF Mknod, Mkdir
  <2>2. \A i, name : Lookup(i, name) \/ Getattr(i) => UNCHANGED <<file_handles, held, opened, work>>
    BY DEF Lookup, Getattr, server, kernel
  <2>3. \A d : Unlink(d) \/ Rmdir(d) \/ Forget(d) => UNCHANGED <<file_handles, held, opened, work>>
    BY DEF Unlink, Rmdir, Remove, Forget, client, server
  <2>4. QED BY <1>1, <1>3, <2>1, <2>2, <2>3 DEF NameRequest
<1>4. CASE DirRequest
  <2>1. UNCHANGED <<file_handles, held, opened>>
    BY <1>4 DEF DirRequest, StartStream, Readdir, ReaddirEntry, client, server
  <2>2. UNCHANGED work \/ (work'.h = work.h /\ work.h = NoHandle)
    <3>1. ASSUME ReaddirEntry PROVE work'.h = work.h /\ work.h = NoHandle
      <4>1. work.h = NoHandle
        BY <3>1 DEF ReaddirEntry, HeldInv
      <4>2. QED BY <1>2, <3>1, <4>1 DEF ReaddirEntry, SendPage, Work
    <3>2. Readdir => UNCHANGED work \/ (work'.h = work.h /\ work.h = NoHandle)
      <4>1. SUFFICES ASSUME Readdir, ~UNCHANGED work
                     PROVE  work'.h = work.h /\ work.h = NoHandle
        OBVIOUS
      <4> DEFINE p == inodes.list[stream.ino]
                 d == <<DotDot, Dot>> \o Listing(p)
      <4>2. work' = [Idle EXCEPT !.op = "readdir", !.path = p, !.off = stream.off, !.dir = d]
        BY <4>1 DEF Readdir
      <4> HIDE DEF p, d
      <4>3. work'.h = NoHandle
        BY <4>2 DEF Idle
      <4>4. QED BY <1>2, <4>1, <4>3 DEF Readdir, Ask
    <3>3. QED BY <1>4, <3>1, <3>2 DEF DirRequest, StartStream, client
  <2>3. QED BY <1>1, <2>1, <2>2
<1>5. CASE FileRequest
  <2>1. ASSUME NEW op \in {"read", "write"}, NEW o \in opened, NEW off, NEW len,
               StartIo(op, o, off, len)
        PROVE  HeldInv'
    <3>1. /\ UNCHANGED <<held, opened>> /\ work.h = NoHandle /\ work'.h = NoHandle
      <4>1. [Idle EXCEPT !.op = op, !.fh = o.fh, !.off = off, !.len = len].h = NoHandle
        BY DEF Idle
      <4>2. work = Idle /\ UNCHANGED <<held, opened>>
        BY <2>1 DEF StartIo, Ask, server, kernel
      <4>3. \/ work' = work
            \/ work' = [Idle EXCEPT !.op = op, !.fh = o.fh, !.off = off, !.len = len]
        BY <2>1 DEF StartIo
      <4>4. QED BY <1>2, <4>1, <4>2, <4>3
    <3>2. CASE UNCHANGED file_handles
      BY <1>1, <3>1, <3>2
    <3>3. CASE /\ file_handles.list[o.fh] # NoFile
               /\ file_handles' = [file_handles EXCEPT !.list[o.fh] = SeekTo(@, off)]
      <4>1. o.fh \in Fhs
        BY DEF NInv, TypeOK, KernelTypeOK, Opened
      <4>2. QED BY <3>1, <3>3, <4>1, MovedHeld DEF SeekTo
    <3>4. QED BY <2>1, <3>2, <3>3 DEF StartIo
  <2>2. CASE IoStep
    <3>1. /\ UNCHANGED <<held, opened>> /\ work.h = NoHandle /\ work.fh \in Fhs
          /\ file_handles.list[work.fh] \in File
      BY <1>2, <2>2 DEF IoStep, server, kernel, HeldInv, NInv, WorkInv, IoInv, Work
    <3>2. ASSUME NEW n, Transfer(n) PROVE HeldInv'
      <4>1. work'.h = work.h
        BY <1>2, <3>2 DEF Transfer, Work
      <4>2. file_handles.list[work.fh] # NoFile
        BY <3>1, FilesFacts
      <4>3. QED BY <3>1, <3>2, <4>1, <4>2, MovedHeld DEF Transfer
    <3>3. ASSUME NEW st, NEW eof, EndIo(st, eof) PROVE HeldInv'
      BY <1>1, <1>2, <3>1, <3>3 DEF EndIo
    <3>4. QED BY <2>2, <3>2, <3>3 DEF IoStep
  <2>3. QED BY <1>5, <2>1, <2>2, OpenHeld, ReleaseHeld DEF FileRequest, Read, Write
<1>6. CASE MakeStat
  BY <1>6, MakeStatHeld
<1>7. CASE Others \/ UNCHANGED vars
  <2>1. UNCHANGED <<file_handles, held, opened, work>>
    BY <1>7 DEF Others, vars, client, server, kernel
  <2>2. QED BY <1>1, <2>1
<1>8. QED BY <1>3, <1>4, <1>5, <1>6, <1>7 DEF Next

LEMMA InitHeldInv == Init => HeldInv
BY DEF Init, HeldInv, Files, NoFHandlers, Idle

(* Between two requests the client holds the handles of its open files and *)
(* no other, and every file it keeps is one the kernel has open            *)
(* (filesystem.rs 128-140, 366-460).                                       *)
THEOREM HoldsWhatIsOpenTheorem == Spec => []HoldsWhatIsOpen
<1>1. HeldInv => HoldsWhatIsOpen
  BY DEF HeldInv, HoldsWhatIsOpen, Idle
<1>2. QED BY <1>1, InitNInv, StepNInv, InitHInv, StepHInv, InitHeldInv, StepHeldInv, PTL DEF Spec
=============================================================================
