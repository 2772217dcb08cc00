------------------------- MODULE SshfsStreamProofs -------------------------
(***************************************************************************)
(* Reading a directory page by page (StableListing), for any names, any    *)
(* order of the server, and whatever happens between two pages.            *)
(***************************************************************************)
EXTENDS SshfsClientProofs

Full == <<DotDot, Dot>> \o Listing(stream.path)

Begins(s, t) == Len(s) <= Len(t) /\ \A k \in 1..Len(s) : s[k] = t[k]

\* The number a directory is read by keeps its path or loses it: it was given out
\* before, and a number is never used again.
NumberInv ==
  /\ \A o \in opened : o.ino <= inodes.max_inode
  /\ stream.st # "none" =>
       /\ stream.ino <= inodes.max_inode
       /\ inodes.list[stream.ino] \in {stream.path, NoPath}

\* What the kernel got so far begins the listing, and its offset is its length.
GotInv ==
  /\ stream.st \in {"open", "done"} /\ stream.clean /\ stream.path # NoPath
       => Begins(stream.got, Full)
  /\ stream.st = "done" => stream.path # NoPath /\ (stream.clean => stream.got = Full)
  /\ stream.st = "open" => stream.off = Len(stream.got)

\* The page being filled goes on in the listing where the kernel stands.
PageInv ==
  work.op = "readdir" =>
    /\ stream.st = "open" /\ work.path = stream.path /\ work.off = stream.off
    /\ stream.clean => work.dir = Full
    /\ Len(work.page) = work.done
    /\ work.done # 0 => work.off + work.done <= Len(work.dir)
    /\ \A k \in 1..work.done : work.page[k] = work.dir[work.off + k]

StreamInv == NumberInv /\ GotInv /\ PageInv

LEMMA BeginsAll ==
  ASSUME NEW s \in Seq(Entries), NEW t \in Seq(Entries), Begins(s, t), Len(s) = Len(t)
  PROVE  s = t
BY DEF Begins

LEMMA ListingType ==
  ASSUME NEW p
  PROVE  Listing(p) \in Seq(Names) /\ <<DotDot, Dot>> \o Listing(p) \in Seq(Entries)
<1>1. {name \in Names : Has(p, name)} \in SUBSET Names
  OBVIOUS
<1>2. Listing(p) \in Seq(Names)
  BY <1>1, ClientAssumption DEF Listing
<1>3. Listing(p) \in Seq(Entries)
  BY <1>2 DEF Entries
<1>4. <<DotDot, Dot>> \in Seq(Entries)
  BY DEF Entries
<1>5. QED BY <1>2, <1>3, <1>4

\* A number given out keeps its path or loses it.
LEMMA NumbersKeep ==
  ASSUME NEW t \in Inodes, NEW u, TableInv(t), Steps(t, u), NEW i \in Inos, i <= t.max_inode
  PROVE  i <= u.max_inode /\ u.list[i] \in {t.list[i], NoPath}
<1>1. t.list \in [Inos -> Paths \cup {NoPath}] /\ t.max_inode \in Nat /\ i \in Nat
  BY PathFacts, InodesAssumption DEF Inodes
<1>2. ASSUME NEW p \in Paths, NextInode(t) \in Inos, u = Bound(t, p)
      PROVE  i <= u.max_inode /\ u.list[i] = t.list[i]
  BY <1>1, <1>2 DEF Bound, NextInode
<1>3. ASSUME NEW j \in Inos \ {1}, u = DelInode(t, j)
      PROVE  i <= u.max_inode /\ u.list[i] \in {t.list[i], NoPath}
  BY <1>1, <1>3 DEF DelInode, Inodes
<1>4. QED BY <1>2, <1>3 DEF Steps

\* Every number a request may carry was given out.
LEMMA NodesGiven ==
  ASSUME NInv, StreamInv, NEW i \in Nodes
  PROVE  i \in Inos /\ i <= inodes.max_inode
<1>1. inodes \in Inodes /\ TableInv(inodes) /\ dentries \subseteq Dentry /\ opened \subseteq Opened
  BY DEF NInv, TypeOK, ClientTypeOK, KernelTypeOK
<1>2. inodes.max_inode \in Nat /\ Inos \subseteq Nat /\ 1 \in Inos
  BY <1>1, PathFacts, InodesAssumption DEF Inodes
<1>3. CASE i = 1
  BY <1>1, <1>2, <1>3 DEF TableInv
<1>4. ASSUME NEW d \in dentries, i = d.ino PROVE i \in Inos /\ i <= inodes.max_inode
  <2>1. i \in Inos /\ inodes.list[i] # NoPath
    BY <1>1, <1>4 DEF Dentry, NInv, DentriesAgree, HasPath
  <2>2. QED BY <1>1, <1>2, <2>1 DEF TableInv
<1>5. ASSUME NEW o \in opened, i = o.ino PROVE i \in Inos /\ i <= inodes.max_inode
  BY <1>1, <1>5 DEF Opened, StreamInv, NumberInv
<1>6. QED BY <1>3, <1>4, <1>5 DEF Nodes

\* While the directory stays clean its listing stays what it is.
LEMMA CleanListing ==
  ASSUME NInv, NEW p \in Paths, NEW k \in {"none", "file", "dir"}, Puts(p, k),
         stream.path \in Paths, stream'.clean
  PROVE  stream.clean /\ Listing(stream.path)' = Listing(stream.path)
<1>1. remote \in [Paths -> {"none", "file", "dir"}] /\ stream \in Stream
  BY DEF NInv, TypeOK, ServerTypeOK, KernelTypeOK
<1>2. /\ remote' = [remote EXCEPT ![p] = k]
      /\ stream'.path = stream.path
      /\ stream.clean
      /\ p # <<>> /\ Parent(p) = stream.path => (remote[p] = "none" <=> k = "none")
  BY <1>1 DEF Puts, Stream
<1>3. ASSUME NEW name \in Names
      PROVE  Has(stream.path, name)' <=> Has(stream.path, name)
  <2> DEFINE q == Append(stream.path, name)
  <2>1. CASE q \notin Paths
    BY <1>2, <2>1 DEF Has, Exists
  <2>2. CASE q \in Paths /\ q # p
    BY <1>1, <1>2, <2>2 DEF Has, Exists
  <2>3. CASE q = p
    <3>1. stream.path \in Seq(Names)
      BY PathFacts
    <3>2. q # <<>> /\ Parent(q) = stream.path
      <4>1. /\ q \in Seq(Names) /\ q # <<>> /\ Len(q) = Len(stream.path) + 1
            /\ \A i \in 1..Len(stream.path) : q[i] = stream.path[i]
        BY <3>1, AppendProperties
      <4>2. /\ Parent(q) = [i \in 1..Len(stream.path) |-> q[i]]
        BY <3>1, <4>1 DEF Parent
      <4>3. stream.path = [i \in 1..Len(stream.path) |-> stream.path[i]]
        BY <3>1
      <4>4. QED BY <4>1, <4>2, <4>3
    <3>3. QED BY <1>1, <1>2, <2>3, <3>2 DEF Has, Exists
  <2>4. QED BY <2>1, <2>2, <2>3
<1>4. QED BY <1>2, <1>3 DEF Listing

\* What no request on the directory itself can disturb.
LEMMA Elsewhere ==
  ASSUME NInv, StreamInv, NInv', Steps(inodes, inodes'),
         UNCHANGED <<remote, stream>>
           \/ \E p \in Paths, k \in {"none", "file", "dir"} : Puts(p, k),
         \A o \in opened' : o \in opened \/ o.ino \in Nodes,
         UNCHANGED work \/ work'.op # "readdir"
  PROVE  StreamInv'
<1>1. /\ inodes \in Inodes /\ TableInv(inodes) /\ stream \in Stream /\ work \in Work
      /\ \A o \in opened' : o.ino \in Inos
      /\ inodes.max_inode \in Nat
  BY DEF NInv, TypeOK, ClientTypeOK, KernelTypeOK, Opened, Inodes
<1>2. \A i \in Inos : i <= inodes.max_inode =>
        i <= inodes'.max_inode /\ inodes'.list[i] \in {inodes.list[i], NoPath}
  BY <1>1, NumbersKeep
<1>3. /\ stream'.st = stream.st /\ stream'.ino = stream.ino /\ stream'.path = stream.path
      /\ stream'.off = stream.off /\ stream'.got = stream.got
  BY <1>1 DEF Puts, Stream
<1>4. stream'.clean /\ stream.path # NoPath => stream.clean /\ Full' = Full
  <2>1. stream.path \in Paths \cup {NoPath}
    BY <1>1 DEF Stream
  <2>2. CASE UNCHANGED <<remote, stream>>
    BY <2>2 DEF Full, Listing, Has, Exists
  <2>3. ASSUME NEW p \in Paths, NEW k \in {"none", "file", "dir"}, Puts(p, k),
               stream'.clean, stream.path # NoPath
        PROVE  stream.clean /\ Full' = Full
    <3>1. stream.clean /\ Listing(stream.path)' = Listing(stream.path)
      BY <2>1, <2>3, CleanListing
    <3>2. QED BY <3>1 DEF Full
  <2>4. QED BY <2>2, <2>3
<1>5. NumberInv'
  <2>1. \A o \in opened' : o.ino <= inodes.max_inode
    BY NodesGiven DEF StreamInv, NumberInv
  <2>2. stream.ino \in Inos
    BY <1>1 DEF Stream
  <2>3. QED BY <1>1, <1>2, <1>3, <2>1, <2>2 DEF StreamInv, NumberInv
<1>6. GotInv'
  BY <1>3, <1>4 DEF StreamInv, GotInv
<1>7. PageInv'
  <2>1. CASE work'.op # "readdir"
    BY <2>1 DEF PageInv
  <2>2. CASE UNCHANGED work /\ work.op = "readdir"
    <3>1. stream.path # NoPath
      BY <2>2, PathFacts DEF NInv, WorkInv, DirInv, StreamInv, PageInv
    <3>2. QED BY <1>3, <1>4, <2>2, <3>1 DEF StreamInv, PageInv
  <2>3. QED BY <2>1, <2>2
<1>8. QED BY <1>5, <1>6, <1>7 DEF StreamInv
-----------------------------------------------------------------------------
(* The requests that read.                                                 *)

LEMMA StartStreamInv ==
  ASSUME NInv, StreamInv, NEW i \in Inos, StartStream(i)
  PROVE  StreamInv'
<1>1. /\ stream' = [st |-> "open", ino |-> i, path |-> inodes.list[i], off |-> 0,
                    got |-> <<>>, clean |-> TRUE]
      /\ UNCHANGED <<inodes, work, remote, opened>>
      /\ work = Idle /\ i \in Nodes
  BY DEF StartStream, NoStream, Ask, client, server
<1>2. NumberInv'
  BY <1>1, NodesGiven DEF StreamInv, NumberInv
<1>3. Len(Full') \in Nat /\ Len(<<>>) = 0
  BY ListingType DEF Full
<1>4. GotInv'
  <2>1. Begins(<<>>, Full')
    BY <1>3, ListingType DEF Begins, Full
  <2>2. QED BY <1>1, <2>1 DEF GotInv
<1>5. PageInv'
  BY <1>1 DEF PageInv, Idle
<1>6. QED BY <1>2, <1>4, <1>5 DEF StreamInv

LEMMA ReaddirInv ==
  ASSUME NInv, StreamInv, Readdir
  PROVE  StreamInv'
<1> DEFINE p == inodes.list[stream.ino]
<1>1. /\ stream \in Stream /\ stream.st = "open" /\ work = Idle
      /\ UNCHANGED <<inodes, opened, remote>>
  BY DEF NInv, TypeOK, KernelTypeOK, Readdir, Ask, client, server
<1>2. CASE /\ HasPath(stream.ino) /\ UNCHANGED stream
           /\ work' = [Idle EXCEPT !.op = "readdir", !.path = p, !.off = stream.off,
                                   !.dir = <<DotDot, Dot>> \o Listing(p)]
  <2>1. p = stream.path
    BY <1>1, <1>2 DEF HasPath, StreamInv, NumberInv
  <2>2. Full' = Full /\ Full = <<DotDot, Dot>> \o Listing(p)
    BY <1>1, <1>2, <2>1 DEF Full, Listing, Has, Exists
  <2>3. /\ work'.path = stream.path /\ work'.off = stream.off /\ work'.dir = Full
        /\ work'.page = <<>> /\ work'.done = 0
    BY <1>2, <2>1, <2>2 DEF Idle
  <2>4. PageInv'
    BY <1>1, <1>2, <2>2, <2>3 DEF PageInv
  <2>5. NumberInv' /\ GotInv'
    BY <1>1, <1>2, <2>2 DEF StreamInv, NumberInv, GotInv
  <2>6. QED BY <2>4, <2>5 DEF StreamInv
<1>3. CASE stream' = [stream EXCEPT !.st = "failed"] /\ UNCHANGED work
  <2>1. /\ stream'.st = "failed" /\ stream'.ino = stream.ino /\ stream'.path = stream.path
    BY <1>1, <1>3 DEF Stream
  <2>2. QED BY <1>1, <1>3, <2>1 DEF StreamInv, NumberInv, GotInv, PageInv, Idle
<1>4. QED BY <1>2, <1>3 DEF Readdir

\* The page the kernel gets goes on where it stood, or ends the listing.
LEMMA SendPageInv ==
  ASSUME NInv, StreamInv, work.op = "readdir", SendPage,
         work.page # <<>> \/ work.off + work.done + 1 > Len(work.dir),
         NEW u \in Inodes, inodes' = u, Steps(inodes, u), UNCHANGED <<opened, remote>>
  PROVE  StreamInv'
<1>1. /\ stream \in Stream /\ work \in Work /\ inodes \in Inodes /\ TableInv(inodes)
      /\ \A o \in opened : o.ino \in Inos
  BY DEF NInv, TypeOK, KernelTypeOK, ClientTypeOK, Opened
<1>2. /\ stream.st = "open" /\ stream.path = work.path /\ stream.path \in Paths
      /\ work.off = stream.off /\ stream.off = Len(stream.got)
      /\ Len(work.page) = work.done /\ stream.path # NoPath
      /\ stream.clean => work.dir = Full /\ Begins(stream.got, Full)
      /\ work.done # 0 => work.off + work.done <= Len(work.dir)
      /\ \A k \in 1..work.done : work.page[k] = work.dir[work.off + k]
  BY PathFacts DEF StreamInv, PageInv, GotInv, NInv, WorkInv, DirInv
<1>3. /\ stream.got \in Seq(Entries) /\ work.page \in Seq(Entries) /\ work.dir \in Seq(Entries)
      /\ work.off \in Nat /\ work.done \in Nat /\ stream.ino \in Inos
  BY <1>1 DEF Stream, Work
<1>4. NumberInv' /\ work' = Idle
  <2>1. stream'.st # "none" /\ stream'.ino = stream.ino /\ stream'.path = stream.path
    BY <1>1, <1>2 DEF SendPage, Stream
  <2>2. \A i \in Inos : i <= inodes.max_inode =>
          i <= inodes'.max_inode /\ inodes'.list[i] \in {inodes.list[i], NoPath}
    BY <1>1, NumbersKeep
  <2>3. QED BY <1>1, <1>2, <1>3, <2>1, <2>2 DEF StreamInv, NumberInv, SendPage
<1>5. PageInv'
  BY <1>4 DEF PageInv, Idle
<1>6. CASE work.page = <<>>
  <2>1. /\ stream'.st = "done" /\ stream'.path = stream.path /\ stream'.got = stream.got
        /\ stream'.clean = stream.clean
    BY <1>1, <1>6 DEF SendPage, Stream
  <2>2. Full' = Full
    BY <2>1 DEF Full, Listing, Has, Exists
  <2>3. stream.clean => stream.got = Full
    <3>1. work.done = 0
      BY <1>2, <1>6
    <3>2. Full \in Seq(Entries)
      BY ListingType DEF Full
    <3>3. stream.clean => Len(stream.got) = Len(Full)
      <4>1. SUFFICES ASSUME stream.clean PROVE Len(stream.got) = Len(Full)
        OBVIOUS
      <4>2. work.off + 1 > Len(Full)
        BY <1>2, <1>3, <1>6, <3>1, <4>1
      <4>3. Len(stream.got) = work.off /\ Len(stream.got) <= Len(Full) /\ Len(Full) \in Nat
        BY <1>2, <3>2, <4>1 DEF Begins
      <4>4. work.off \in Nat
        BY <1>3
      <4>5. work.off = Len(Full)
        BY <4>2, <4>3, <4>4, SMT
      <4>6. QED BY <4>3, <4>5
    <3>4. QED BY <1>2, <1>3, <3>2, <3>3, BeginsAll
  <2>4. QED BY <1>2, <1>4, <1>5, <2>1, <2>2, <2>3 DEF StreamInv, GotInv
<1>7. CASE work.page # <<>>
  <2> DEFINE got == stream.got \o work.page
  <2>1. /\ stream'.st = "open" /\ stream'.path = stream.path /\ stream'.got = got
        /\ stream'.clean = stream.clean
        /\ stream'.off = EntryOffset(work.off, work.done - 1)
    BY <1>1, <1>2, <1>7 DEF SendPage, Stream
  <2>2. Full' = Full
    BY <2>1 DEF Full, Listing, Has, Exists
  <2>3. /\ got \in Seq(Entries) /\ Len(got) = work.off + work.done
        /\ \A k \in 1..(work.off + work.done) :
             got[k] = IF k <= work.off THEN stream.got[k] ELSE work.page[k - work.off]
    <3>1. /\ got \in Seq(Entries) /\ Len(got) = Len(stream.got) + Len(work.page)
          /\ \A k \in 1..(Len(stream.got) + Len(work.page)) :
               got[k] = IF k <= Len(stream.got) THEN stream.got[k]
                        ELSE work.page[k - Len(stream.got)]
      BY <1>3, ConcatProperties
    <3>2. Len(stream.got) = work.off /\ Len(work.page) = work.done
      BY <1>2
    <3> HIDE DEF got
    <3>3. QED BY <3>1, <3>2
  <2>4. work.done # 0
    BY <1>2, <1>3, <1>7
  <2>5. stream'.off = Len(got)
    BY <1>3, <2>1, <2>3, <2>4 DEF EntryOffset
  <2> HIDE DEF got
  <2>6. stream.clean => Begins(got, Full)
    <3>1. SUFFICES ASSUME stream.clean PROVE Begins(got, Full)
      OBVIOUS
    <3>2. Len(got) <= Len(Full)
      BY <1>2, <2>3, <2>4, <3>1
    <3>3. ASSUME NEW k \in 1..Len(got) PROVE got[k] = Full[k]
      <4>1. CASE k <= work.off
        BY <1>2, <1>3, <2>3, <3>1, <3>3, <4>1 DEF Begins
      <4>2. CASE ~(k <= work.off)
        <5>1. k - work.off \in 1..work.done /\ work.off + (k - work.off) = k
          BY <1>3, <2>3, <3>3, <4>2
        <5>2. QED BY <1>2, <2>3, <3>1, <3>3, <4>2, <5>1
      <4>3. QED BY <4>1, <4>2
    <3>4. QED BY <3>2, <3>3 DEF Begins
  <2>7. QED BY <1>4, <1>5, <2>1, <2>2, <2>5, <2>6 DEF StreamInv, GotInv
<1>8. QED BY <1>6, <1>7

LEMMA ReaddirEntryInv ==
  ASSUME NInv, StreamInv, ReaddirEntry, NInv', Steps(inodes, inodes')
  PROVE  StreamInv'
<1> DEFINE k == work.off + work.done + 1
           e == work.dir[k]
<1>1. /\ work.op = "readdir" /\ work \in Work /\ inodes' \in Inodes
      /\ UNCHANGED <<remote, opened>>
  BY DEF NInv, TypeOK, ClientTypeOK, ReaddirEntry, server
<1>2. CASE k > Len(work.dir) /\ SendPage
  BY <1>1, <1>2, SendPageInv
<1>3. CASE work.page # <<>> /\ SendPage
  BY <1>1, <1>3, SendPageInv
<1>4. CASE /\ k <= Len(work.dir) /\ UNCHANGED stream
           /\ work' = [work EXCEPT !.done = @ + 1, !.page = Append(@, e)]
  <2>1. /\ work.off \in Nat /\ work.done \in Nat /\ work.page \in Seq(Entries)
        /\ work.dir \in Seq(Entries)
    BY <1>1 DEF Work
  <2>2. /\ work'.op = "readdir" /\ work'.path = work.path /\ work'.off = work.off
        /\ work'.dir = work.dir /\ work'.done = work.done + 1
        /\ work'.page = Append(work.page, e)
    BY <1>1, <1>4 DEF Work
  <2>3. e \in Entries
    BY <1>4, <2>1
  <2>4. Len(work.page) = work.done
    BY <1>1 DEF StreamInv, PageInv
  <2>5. /\ Len(work'.page) = work.done + 1 /\ work'.page[work.done + 1] = e
        /\ \A j \in 1..work.done : work'.page[j] = work.page[j]
    BY <2>1, <2>2, <2>3, <2>4, AppendProperties
  <2>6. \A j \in 1..(work.done + 1) : work'.page[j] = work.dir[work.off + j]
    <3>1. \A j \in 1..work.done : work.page[j] = work.dir[work.off + j]
      BY <1>1 DEF StreamInv, PageInv
    <3>2. \A j \in 1..(work.done + 1) : j \in 1..work.done \/ j = work.done + 1
      BY <2>1
    <3>3. work.off + (work.done + 1) = k
      BY <2>1
    <3>4. QED BY <2>5, <3>1, <3>2, <3>3
  <2>7. work.off + (work.done + 1) <= Len(work.dir)
    BY <1>4, <2>1
  <2>8. Full' = Full
    BY <1>1, <1>4 DEF Full, Listing, Has, Exists
  <2> HIDE DEF k, e
  <2>9. PageInv'
    BY <1>1, <1>4, <2>2, <2>5, <2>6, <2>7, <2>8 DEF StreamInv, PageInv
  <2>10. NumberInv' /\ GotInv'
    <3>1. /\ inodes \in Inodes /\ TableInv(inodes) /\ stream.ino \in Inos
          /\ \A o \in opened : o.ino \in Inos
      BY DEF NInv, TypeOK, ClientTypeOK, KernelTypeOK, Stream, Opened
    <3>2. \A i \in Inos : i <= inodes.max_inode =>
            i <= inodes'.max_inode /\ inodes'.list[i] \in {inodes.list[i], NoPath}
      BY <3>1, NumbersKeep
    <3>3. QED BY <1>1, <1>4, <2>8, <3>1, <3>2 DEF StreamInv, NumberInv, GotInv
  <2>11. QED BY <2>9, <2>10 DEF StreamInv
<1>5. QED BY <1>2, <1>3, <1>4 DEF ReaddirEntry
-----------------------------------------------------------------------------
LEMMA InitStreamInv == Init => StreamInv
BY DEF Init, StreamInv, NumberInv, GotInv, PageInv, NoStream, Idle

\* A number opened is one the kernel had.
LEMMA OpensNodes ==
  ASSUME NInv, [Next]_vars, NEW o \in opened'
  PROVE  o \in opened \/ o.ino \in Nodes
<1>1. CASE UNCHANGED opened
  BY <1>1
<1>2. ASSUME NEW i \in Inos, NEW append, Open(i, append) PROVE o \in opened \/ o.ino \in Nodes
  BY <1>2 DEF Open
<1>3. ASSUME NEW q \in opened, Release(q) PROVE o \in opened
  BY <1>3 DEF Release
<1>4. NameRequest \/ MakeStat \/ DirRequest \/ Others \/ UNCHANGED vars => UNCHANGED opened
  BY DEF NameRequest, Lookup, Mknod, Mkdir, Make, Unlink, Rmdir, Remove, Forget, Getattr, MakeStat,
         DirRequest, StartStream, Readdir, ReaddirEntry, Others, vars, kernel
<1>5. IoStep \/ (\E q, off, len : Read(q, off, len) \/ Write(q, off, len)) => UNCHANGED opened
  BY DEF IoStep, Read, Write, StartIo, kernel
<1>6. QED BY <1>1, <1>2, <1>3, <1>4, <1>5 DEF Next, FileRequest

\* A request that works on in steps is another one, or starts as another.
LEMMA OtherWork ==
  ASSUME NInv, NameRequest \/ MakeStat \/ FileRequest \/ Others \/ UNCHANGED vars
  PROVE  UNCHANGED work \/ work'.op # "readdir"
<1>1. NameRequest => UNCHANGED work \/ work'.op # "readdir"
  <2>1. ASSUME NEW i, NEW name, Mknod(i, name) \/ Mkdir(i, name)
        PROVE  UNCHANGED work \/ work'.op # "readdir"
    BY <2>1 DEF Mknod, Mkdir, Make, Idle
  <2>2. QED BY <2>1 DEF NameRequest, Lookup, Unlink, Rmdir, Remove, Forget, Getattr
<1>2. MakeStat \/ Others \/ UNCHANGED vars => UNCHANGED work \/ work'.op # "readdir"
  BY DEF MakeStat, Others, vars, Idle
<1>3. FileRequest => UNCHANGED work \/ work'.op # "readdir"
  <2>1. ASSUME NEW op \in {"read", "write"}, NEW q, NEW off, NEW len, StartIo(op, q, off, len)
        PROVE  UNCHANGED work \/ work'.op # "readdir"
    BY <2>1 DEF StartIo, Idle
  <2>2. IoStep => work'.op # "readdir"
    <3>1. work \in Work
      BY DEF NInv, TypeOK, ClientTypeOK
    <3>2. ASSUME NEW n, Transfer(n) PROVE work'.op = work.op
      BY <3>1, <3>2 DEF Transfer, Work
    <3>3. QED BY <3>2 DEF IoStep, EndIo, Idle
  <2>3. QED BY <2>1, <2>2 DEF FileRequest, Open, Release, Read, Write
<1>4. QED BY <1>1, <1>2, <1>3

LEMMA StepStreamInv == NInv /\ StreamInv /\ [Next]_vars => StreamInv'
<1> SUFFICES ASSUME NInv, StreamInv, [Next]_vars PROVE StreamInv'
  OBVIOUS
<1>1. NInv' /\ Steps(inodes, inodes')
  BY StepNInv
<1>2. CASE DirRequest
  BY <1>1, <1>2, StartStreamInv, ReaddirInv, ReaddirEntryInv DEF DirRequest
<1>3. CASE NameRequest \/ MakeStat \/ FileRequest \/ Others \/ UNCHANGED vars
  <2>1. \/ UNCHANGED <<remote, stream>>
        \/ \E p \in Paths, k \in {"none", "file", "dir"} : Puts(p, k)
    <3>1. ASSUME NEW op, NEW k \in {"file", "dir"}, NEW d \in dentries, Remove(op, k, d)
          PROVE  UNCHANGED <<remote, stream>> \/ \E p \in Paths : Puts(p, "none")
      BY <3>1 DEF Remove, CanRemove
    <3>2. ASSUME NEW op, NEW k \in {"file", "dir"}, NEW i, NEW name, Make(op, k, i, name)
          PROVE  UNCHANGED <<remote, stream>> \/ \E p \in Paths : Puts(p, k)
      BY <3>2 DEF Make, CanCreate
    <3>3. NameRequest => \/ UNCHANGED <<remote, stream>>
                         \/ \E p \in Paths, k \in {"none", "file", "dir"} : Puts(p, k)
      BY <3>1, <3>2
         DEF NameRequest, Lookup, Mknod, Mkdir, Unlink, Rmdir, Forget, Getattr, server, kernel
    <3>4. MakeStat \/ FileRequest \/ UNCHANGED vars => UNCHANGED <<remote, stream>>
      BY DEF MakeStat, FileRequest, Open, Release, Read, Write, StartIo, IoStep, vars, server, kernel
    <3>5. Others => \E p \in Paths, k \in {"none", "file", "dir"} : Puts(p, k)
      BY DEF Others, CanCreate, CanRemove
    <3>6. QED BY <1>3, <3>3, <3>4, <3>5
  <2>2. \A o \in opened' : o \in opened \/ o.ino \in Nodes
    BY OpensNodes
  <2>3. UNCHANGED work \/ work'.op # "readdir"
    BY <1>3, OtherWork
  <2>4. QED BY <1>1, <2>1, <2>2, <2>3, Elsewhere
<1>4. QED BY <1>2, <1>3 DEF Next

(* While no name of the directory changes, the pages one gets by asking on *)
(* from the last offset (filesystem.rs 214-270) are the listing, in order, *)
(* nothing lost and nothing twice.                                         *)
THEOREM StableListingTheorem == Spec => []StableListing
<1>1. NInv /\ StreamInv => StableListing
  <2>1. SUFFICES ASSUME NInv, StreamInv PROVE StableListing
    OBVIOUS
  <2>2. Full \in Seq(Entries) /\ stream.got \in Seq(Entries)
    BY <2>1, ListingType DEF Full, NInv, TypeOK, KernelTypeOK, Stream
  <2>3. Begins(stream.got, Full) => stream.got = SubSeq(Full, 1, Len(stream.got))
    BY <2>2 DEF Begins
  <2>4. QED BY <2>1, <2>3 DEF StableListing, StreamInv, GotInv, Full
<1>2. QED BY <1>1, InitNInv, StepNInv, InitStreamInv, StepStreamInv, PTL DEF Spec
=============================================================================
