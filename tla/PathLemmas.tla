---------------------------- MODULE PathLemmas ----------------------------
(***************************************************************************)
(* What the path algebra does, for every set of names, every root and      *)
(* every path of a client.                                                 *)
(***************************************************************************)
EXTENDS VirtualRoot, SequenceTheorems, TLAPS

Component == Part \cup {RootDir, CurDir}

\* A path without its leading "/" or ".": names and "..".
Body(p) == IF p # <<>> /\ Head(p) \in {RootDir, CurDir} THEN Tail(p) ELSE p

LEMMA EmptyIffLenZero ==
  ASSUME NEW S, NEW s \in Seq(S)
  PROVE  s = <<>> <=> Len(s) = 0
  BY EmptySeq, LenProperties

(* A concatenation starts with its first part and leaves its second.       *)
LEMMA ConcatStartsWith ==
  ASSUME NEW S, NEW s \in Seq(S), NEW t \in Seq(S)
  PROVE  /\ StartsWith(s \o t, s)
         /\ StripPrefix(s \o t, s) = t
<1>1. /\ s \o t \in Seq(S) /\ Len(s \o t) = Len(s) + Len(t)
      /\ Len(s) \in Nat /\ Len(t) \in Nat
      /\ \A i \in 1..Len(s) : (s \o t)[i] = s[i]
      /\ \A i \in 1..Len(t) : (s \o t)[Len(s) + i] = t[i]
  BY ConcatProperties, LenProperties
<1>2. SubSeq(s \o t, 1, Len(s)) = s
  <2>1. /\ SubSeq(s \o t, 1, Len(s)) \in Seq(S)
        /\ Len(SubSeq(s \o t, 1, Len(s))) = Len(s)
        /\ \A i \in 1..Len(s) : SubSeq(s \o t, 1, Len(s))[i] = (s \o t)[i]
    <3>1. \A i \in 1..Len(s) : (s \o t)[i] \in S
      BY <1>1, ElementOfSeq
    <3>2. QED BY <1>1, <3>1, SubSeqProperties
  <2>2. QED BY <1>1, <2>1, SeqEqual
<1>3. SubSeq(s, 1, Len(s)) = s
  BY SubSeqFull
<1>4. SubSeq(s \o t, Len(s) + 1, Len(s) + Len(t)) = t
  <2>1. \A i \in (Len(s) + 1)..(Len(s) + Len(t)) : (s \o t)[i] \in S
    BY <1>1, ElementOfSeq
  <2> DEFINE u == SubSeq(s \o t, Len(s) + 1, Len(s) + Len(t))
  <2>2. /\ u \in Seq(S)
        /\ Len(u) = IF Len(s) + 1 <= Len(s) + Len(t)
                    THEN (Len(s) + Len(t)) - (Len(s) + 1) + 1 ELSE 0
        /\ \A i \in 1..((Len(s) + Len(t)) - (Len(s) + 1) + 1) :
             u[i] = (s \o t)[(Len(s) + 1) + i - 1]
    <3>1. Len(s) + 1 \in Int /\ Len(s) + Len(t) \in Int
      BY <1>1
    <3> HIDE DEF u
    <3>2. QED BY <2>1, <3>1, SubSeqProperties DEF u
  <2> HIDE DEF u
  <2>3. Len(u) = Len(t)
    BY <1>1, <2>2
  <2>6. \A i \in 1..Len(u) : u[i] = t[i]
    <3> SUFFICES ASSUME NEW i \in 1..Len(t) PROVE u[i] = t[i]
      BY <2>3
    <3>1. i \in 1..((Len(s) + Len(t)) - (Len(s) + 1) + 1)
      BY <1>1
    <3>2. (Len(s) + 1) + i - 1 = Len(s) + i
      BY <1>1
    <3>3. u[i] = (s \o t)[Len(s) + i]
      BY <2>2, <3>1, <3>2
    <3>4. QED BY <1>1, <3>3
  <2>4. u = t
    BY <2>2, <2>3, <2>6, SeqEqual
  <2>5. QED BY <2>4 DEF u
<1>5. QED BY <1>1, <1>2, <1>3, <1>4 DEF StartsWith, StripPrefix, IsPrefix

LEMMA PartsAreNoPrefix == RootDir \notin Part /\ CurDir \notin Part
  BY NameAssumption DEF Part, RootDir, CurDir, ParentDir

(* Joined to "/", every path of a request is "/" followed by what it has    *)
(* after its own "/" or ".".                                               *)
LEMMA JoinIsAbsolute ==
  ASSUME NEW p \in Path
  PROVE  /\ Body(p) \in Seq(Part)
         /\ Join(CwdOffset, p) = <<RootDir>> \o Body(p)
<1>1. p \in Seq(Component) /\ \A i \in 2..Len(p) : p[i] \in Part
  BY DEF Path, Component
<1>2. <<RootDir>> # <<>> /\ ~(CwdOffset = <<>>)
  BY DEF CwdOffset
<1>3. CASE p = <<>>
  <2>1. Join(CwdOffset, p) = <<RootDir>> \o <<>>
    BY <1>2, <1>3 DEF Join, IsAbs, DropCurDir, CwdOffset
  <2>2. <<>> \in Seq(Part)
    BY EmptySeq
  <2>3. QED BY <1>3, <2>1, <2>2 DEF Body
<1>4. CASE p # <<>> /\ Head(p) \in {RootDir, CurDir}
  <2>1. /\ Tail(p) \in Seq(Component) /\ Len(Tail(p)) = Len(p) - 1
        /\ \A i \in 1..Len(Tail(p)) : Tail(p)[i] = p[i + 1]
    BY <1>1, <1>4, HeadTailProperties
  <2>2. Len(p) \in Nat \ {0} /\ p[1] = Head(p)
    BY <1>1, <1>4, EmptySeq
  <2>3. Tail(p) \in Seq(Part)
    <3>1. Tail(p) = SubSeq(p, 2, Len(p))
      BY <1>1, <1>4, TailIsSubSeq
    <3>2. \A i \in 2..Len(p) : p[i] \in Part
      BY <1>1
    <3>3. SubSeq(p, 2, Len(p)) \in Seq(Part)
      BY <2>2, <3>2, SubSeqProperties
    <3>4. QED BY <3>1, <3>3
  <2>4. Join(CwdOffset, p) = <<RootDir>> \o Tail(p)
    <3>1. CASE Head(p) = RootDir
      <4>1. p = <<RootDir>> \o Tail(p)
        BY <1>1, <2>1, <2>2, <3>1
      <4>2. QED BY <1>4, <3>1, <4>1 DEF Join, IsAbs
    <3>2. CASE Head(p) = CurDir
      BY <1>2, <1>4, <3>2 DEF Join, IsAbs, DropCurDir, CwdOffset, RootDir, CurDir
    <3>3. QED BY <1>4, <3>1, <3>2
  <2>5. QED BY <1>4, <2>3, <2>4 DEF Body
<1>5. CASE p # <<>> /\ Head(p) \notin {RootDir, CurDir}
  <2>1. Len(p) \in Nat \ {0} /\ p[1] = Head(p) /\ Head(p) \in Component
    BY <1>1, <1>5, EmptySeq, HeadTailProperties
  <2>2. p[1] \in Part
    BY <1>5, <2>1 DEF Component
  <2>3. p \in Seq(Part)
    <3>1. \A i \in 1..Len(p) : p[i] \in Part
      BY <1>1, <2>1, <2>2
    <3>2. p = SubSeq(p, 1, Len(p))
      BY <1>1, SubSeqFull
    <3>3. p \in Seq(Part)
      BY <2>1, <3>1, <3>2, SubSeqProperties
    <3>4. QED BY <2>1, <3>1, <3>3
  <2>4. Join(CwdOffset, p) = <<RootDir>> \o p
    BY <1>2, <1>5 DEF Join, IsAbs, DropCurDir, CwdOffset
  <2>5. QED BY <1>5, <2>3, <2>4 DEF Body
<1>6. QED BY <1>3, <1>4, <1>5

(* Without "..", a path has a file name if anything follows its "/" or ".". *)
LEMMA FileNameIsLast ==
  ASSUME NEW p \in Path, p # <<>>, NoParent(p)
  PROVE  HasFileName(p) <=> Body(p) # <<>>
<1>1. p \in Seq(Component) /\ \A i \in 2..Len(p) : p[i] \in Part
  BY DEF Path, Component
<1>2. Len(p) \in Nat \ {0} /\ p[1] = Head(p) /\ p[Len(p)] # ParentDir
  <2>1. Len(p) \in Nat \ {0} /\ p[1] = Head(p)
    BY <1>1, EmptySeq
  <2>2. QED BY <2>1 DEF NoParent
<1>3. CASE Head(p) \in {RootDir, CurDir}
  <2>1. Tail(p) \in Seq(Component) /\ Len(Tail(p)) = Len(p) - 1
    BY <1>1, HeadTailProperties
  <2>2. CASE Len(p) = 1
    <3>1. Len(Tail(p)) = 0
      BY <2>1, <2>2
    <3>2. Tail(p) = <<>>
      BY <2>1, <3>1, EmptyIffLenZero, Zenon
    <3>3. QED BY <1>2, <1>3, <2>2, <3>2 DEF HasFileName, Last, Body
  <2>3. CASE Len(p) > 1
    <3>1. p[Len(p)] \in Part
      BY <1>1, <1>2, <2>3
    <3>2. Len(Tail(p)) # 0
      BY <1>2, <2>1, <2>3
    <3>3. Tail(p) # <<>>
      BY <2>1, <3>2, EmptyIffLenZero, Zenon
    <3>4. Last(p) \notin {RootDir, CurDir, ParentDir}
      BY <1>2, <3>1, PartsAreNoPrefix DEF Last
    <3>5. Body(p) # <<>>
      BY <1>3, <3>3 DEF Body
    <3>6. QED BY <3>4, <3>5 DEF HasFileName
  <2>4. Len(p) = 1 \/ Len(p) > 1
    <3>1. Len(p) \in Nat \ {0}
      BY <1>2
    <3>2. QED BY <3>1
  <2>5. QED BY <2>2, <2>3, <2>4
<1>4. CASE Head(p) \notin {RootDir, CurDir}
  <2>1. p[1] \in Part
    <3>1. p[1] \in Component
      BY <1>1, <1>2
    <3>2. QED BY <1>2, <1>4, <3>1 DEF Component
  <2>2. p[Len(p)] \in Part
    BY <1>1, <1>2, <2>1
  <2>3. QED BY <1>2, <1>4, <2>2, PartsAreNoPrefix DEF HasFileName, Last, Body
<1>5. QED BY <1>3, <1>4

(* Resolving a path appends its names to the root; the result is a legal   *)
(* root itself, starts with the root, and has the names left over.         *)
LEMMA ResolveAppends ==
  ASSUME NEW root \in Roots, NEW p \in Path
  PROVE  /\ Resolve(root, p) = root \o Body(p)
         /\ root \o Body(p) \in Roots
         /\ StartsWith(root \o Body(p), root)
         /\ StripPrefix(root \o Body(p), root) = Body(p)
<1> DEFINE t == Body(p)
<1>1. t \in Seq(Part) /\ Join(CwdOffset, p) = <<RootDir>> \o t
  BY JoinIsAbsolute
<1>2. t \in Seq(Component) /\ <<RootDir>> \in Seq(Component)
  <2>1. Part \subseteq Component /\ RootDir \in Component
    BY DEF Component
  <2> HIDE DEF t
  <2>2. t \in Seq(Component)
    BY <1>1, <2>1, SeqMonotonic
  <2>3. QED BY <2>1, <2>2
<1>3. root \in Seq(Component) /\ root # <<>> /\ \A i \in 2..Len(root) : root[i] \in Part
  BY DEF Roots, Path, Component
<1> HIDE DEF t
<1>4. StartsWith(<<RootDir>> \o t, <<RootDir>>) /\ StripPrefix(<<RootDir>> \o t, <<RootDir>>) = t
  BY <1>2, ConcatStartsWith
<1>5. StartsWith(root \o t, root) /\ StripPrefix(root \o t, root) = t
  BY <1>2, <1>3, ConcatStartsWith
<1>6. Join(root, t) = root \o t
  <2>1. t # <<>> => Head(t) \in Part
    BY <1>1, HeadTailProperties
  <2>2. ~IsAbs(t) /\ DropCurDir(t) = t
    BY <2>1, PartsAreNoPrefix DEF IsAbs, DropCurDir, RootDir, CurDir
  <2>3. QED BY <1>3, <2>2 DEF Join
<1>7. Resolve(root, p) = root \o t
  BY <1>1, <1>4, <1>5, <1>6 DEF Resolve, ToReal
<1>8. root \o t \in Roots
  <2>1. /\ root \o t \in Seq(Component) /\ Len(root \o t) = Len(root) + Len(t)
        /\ Len(root) \in Nat \ {0} /\ Len(t) \in Nat
        /\ \A i \in 1..(Len(root) + Len(t)) :
             (root \o t)[i] = IF i <= Len(root) THEN root[i] ELSE t[i - Len(root)]
    BY <1>2, <1>3, ConcatProperties, LenProperties, EmptySeq
  <2>2. \A j \in 1..Len(t) : t[j] \in Part
    BY <1>1, ElementOfSeq
  <2>3. ASSUME NEW i \in 2..Len(root \o t) PROVE (root \o t)[i] \in Part
    <3>1. CASE i <= Len(root)
      BY <1>3, <2>1, <3>1
    <3>2. CASE ~(i <= Len(root))
      <4>1. i - Len(root) \in 1..Len(t)
        BY <2>1, <3>2
      <4>2. QED BY <2>1, <2>2, <3>2, <4>1
    <3>3. QED BY <3>1, <3>2
  <2>4. root \o t # <<>>
    <3>1. Len(root \o t) # 0
      BY <2>1
    <3>2. QED BY <2>1, <3>1, EmptyIffLenZero, Zenon
  <2>5. QED BY <2>1, <2>3, <2>4 DEF Roots, Path, Component
<1>9. QED BY <1>5, <1>7, <1>8 DEF t

(* The names of a root followed by more names.                             *)
LEMMA BodyAppends ==
  ASSUME NEW root \in Roots, NEW t \in Seq(Part)
  PROVE  Body(root \o t) = Body(root) \o t
<1>1. root \in Seq(Component) /\ root # <<>> /\ Len(root) \in Nat \ {0}
  BY EmptySeq DEF Roots, Path, Component
<1>2. t \in Seq(Component)
  BY SeqMonotonic DEF Component
<1>3. /\ root \o t \in Seq(Component) /\ Len(root \o t) = Len(root) + Len(t)
      /\ Len(t) \in Nat
      /\ \A i \in 1..(Len(root) + Len(t)) :
           (root \o t)[i] = IF i <= Len(root) THEN root[i] ELSE t[i - Len(root)]
  BY <1>1, <1>2, ConcatProperties, LenProperties
<1>4. root \o t # <<>>
  <2>1. Len(root \o t) # 0
    BY <1>1, <1>3
  <2>2. QED BY <1>3, <2>1, EmptyIffLenZero, Zenon
<1>5. Head(root \o t) = Head(root)
  BY <1>1, <1>3, <1>4
<1>6. Tail(root \o t) = Tail(root) \o t
  BY <1>1, <1>2, <1>3, <1>4
<1>7. QED BY <1>1, <1>4, <1>5, <1>6 DEF Body
-----------------------------------------------------------------------------
(* to_virtual_path undoes to_real_path.                                    *)
LEMMA BackAndForth ==
  ASSUME NEW root \in Roots, NEW p \in Path
  PROVE  ToVirtual(root, Resolve(root, p)) = Join(CwdOffset, p)
<1>1. Body(p) \in Seq(Part) /\ Join(CwdOffset, p) = <<RootDir>> \o Body(p)
  BY JoinIsAbsolute
<1>2. ~IsAbs(Body(p)) /\ DropCurDir(Body(p)) = Body(p)
  <2>1. Body(p) # <<>> => Head(Body(p)) \in Part
    BY <1>1, HeadTailProperties
  <2>2. QED BY <2>1, PartsAreNoPrefix DEF IsAbs, DropCurDir, RootDir, CurDir
<1>3. Join(<<RootDir>>, Body(p)) = <<RootDir>> \o Body(p)
  BY <1>2 DEF Join
<1>4. QED BY <1>1, <1>3, ResolveAppends DEF ToVirtual

(* The root itself is what "/" is resolved to.                             *)
LEMMA ResolveSlash ==
  ASSUME NEW root \in Roots
  PROVE  Resolve(root, <<RootDir>>) = root
<1>1. root \in Seq(Component) /\ <<RootDir>> \in Path
  BY DEF Roots, Path, Component
<1>2. Body(<<RootDir>>) = <<>>
  BY DEF Body
<1>3. Resolve(root, <<RootDir>>) = root \o <<>>
  BY <1>1, <1>2, ResolveAppends
<1>4. QED BY <1>1, <1>3, ConcatEmptySeq

(* Resolving once more yields another path as soon as the root is more     *)
(* than "/" or ".".                                                        *)
LEMMA ResolveTwice ==
  ASSUME NEW root \in Roots, NEW p \in Path
  PROVE  (Resolve(root, Resolve(root, p)) = Resolve(root, p)) <=> Body(root) = <<>>
<1>1. root \in Path /\ root \in Seq(Component)
  BY DEF Roots, Path, Component
<1>2. Body(p) \in Seq(Part) /\ Body(root) \in Seq(Part)
  BY <1>1, JoinIsAbsolute
<1>3. Resolve(root, p) = root \o Body(p) /\ root \o Body(p) \in Path
  BY ResolveAppends DEF Roots
<1>4. Resolve(root, root \o Body(p)) = root \o (Body(root) \o Body(p))
  BY <1>2, <1>3, ResolveAppends, BodyAppends
<1>5. (root \o (Body(root) \o Body(p)) = root \o Body(p)) <=> Body(root) = <<>>
  <2>1. /\ Body(p) \in Seq(Component) /\ Body(root) \in Seq(Component)
        /\ Body(root) \o Body(p) \in Seq(Component)
    <3>1. Part \subseteq Component
      BY DEF Component
    <3>2. Body(p) \in Seq(Component) /\ Body(root) \in Seq(Component)
      BY <1>2, <3>1, SeqMonotonic
    <3>3. QED BY <3>2, ConcatProperties
  <2>2. (root \o (Body(root) \o Body(p)) = root \o Body(p))
          => Body(root) \o Body(p) = Body(p)
    BY <1>1, <2>1, ConcatSimplifications
  <2>3. (Body(root) \o Body(p) = Body(p)) <=> Body(root) = <<>>
    BY <2>1, ConcatEqualIffEmpty
  <2>4. QED BY <2>2, <2>3
<1>6. QED BY <1>3, <1>4, <1>5

(* For a root without "..": exactly if it has no file name.                *)
LEMMA ResolveTwicePlain ==
  ASSUME NEW root \in Roots, NEW p \in Path, NoParent(root)
  PROVE  (Resolve(root, Resolve(root, p)) = Resolve(root, p))
           <=> ~HasFileName(Resolve(root, <<RootDir>>))
<1>1. root \in Path /\ root # <<>>
  BY DEF Roots
<1>2. HasFileName(root) <=> Body(root) # <<>>
  BY <1>1, FileNameIsLast
<1>3. QED BY <1>2, ResolveSlash, ResolveTwice

(* Every path to_real_path accepts is mapped to a path.                    *)
LEMMA ToRealType ==
  ASSUME NEW root \in Roots, NEW v \in Path
  PROVE  ToReal(root, v) \in Path
<1>1. CASE StartsWith(v, <<RootDir>>)
  <2>1. v \in Seq(Component) /\ Len(v) \in Nat /\ Len(<<RootDir>>) = 1
    BY LenProperties DEF Path, Component
  <2>2. v # <<>> /\ v[1] = RootDir
    <3>1. Len(v) >= 1 /\ SubSeq(<<RootDir>>, 1, 1) = SubSeq(v, 1, 1)
      BY <1>1, <2>1 DEF StartsWith, IsPrefix
    <3>2. v[1] = RootDir
      BY <2>1, <3>1
    <3>3. Len(v) # 0
      BY <2>1, <3>1
    <3>4. QED BY <2>1, <3>2, <3>3, EmptyIffLenZero, Zenon
  <2>3. Join(CwdOffset, v) = v
    BY <2>1, <2>2 DEF Join, IsAbs
  <2>4. Resolve(root, v) \in Path
    BY ResolveAppends DEF Roots
  <2>5. QED BY <2>3, <2>4 DEF Resolve
<1>2. CASE ~StartsWith(v, <<RootDir>>)
  <2>1. <<>> \in Seq(Part \cup {RootDir, CurDir}) /\ Len(<<>>) = 0
    BY EmptySeq
  <2>2. Err \in Path
    BY <2>1 DEF Path, Err
  <2>3. QED BY <1>2, <2>2 DEF ToReal
<1>3. QED BY <1>1, <1>2
=============================================================================
