---------------------------- MODULE VirtualRoot ----------------------------
(***************************************************************************)
(* The path algebra of server/src/fs.rs: how a path a client names becomes *)
(* a path of the server's file system and back.                            *)
(*                                                                         *)
(* std::path compares, joins and strips paths component by component, so a *)
(* path is the sequence of its components, in the normal form              *)
(* Path::components() yields: "/" and "." occur only as first component.   *)
(* All other components are names or "..", which std::path keeps: what it  *)
(* leads to, like what a link leads to, is for the operating system.       *)
(***************************************************************************)
EXTENDS Naturals, Sequences, SequencesExt

CONSTANT Name       \* the file names that occur

ASSUME NameAssumption == "/" \notin Name /\ "." \notin Name /\ ".." \notin Name

RootDir   == "/"
CurDir    == "."
ParentDir == ".."

Part == Name \cup {ParentDir}

Path == {p \in Seq(Part \cup {RootDir, CurDir}) :
            \A i \in 2..Len(p) : p[i] \in Part}

NoParent(p) == \A i \in 1..Len(p) : p[i] # ParentDir

\* The roots VirtualRoot::new and ::default accept exist, so none is empty.
Roots == Path \ {<<>>}

\* No mapped path is empty when the root is not: the empty path is the Err.
Err == <<>>
-----------------------------------------------------------------------------
(* std::path::Path, from its use in server/src/fs.rs                       *)

IsAbs(p) == p # <<>> /\ Head(p) = RootDir

StartsWith(p, base) == IsPrefix(base, p)

\* What is left of p after base; meaningful when StartsWith(p, base).
StripPrefix(p, base) == SubSeq(p, Len(base) + 1, Len(p))

\* "a/./b" is "a/b": a "." survives only at the front of a path.
DropCurDir(q) == IF q # <<>> /\ Head(q) = CurDir THEN Tail(q) ELSE q

\* PathBuf::join: an absolute argument replaces the path it is joined to.
Join(p, q) == IF IsAbs(q) \/ p = <<>> THEN q ELSE p \o DropCurDir(q)

\* Path::file_name() is None for the empty path and for one that ends in "/",
\* "." or "..".
HasFileName(p) == p # <<>> /\ Last(p) \notin {RootDir, CurDir, ParentDir}
-----------------------------------------------------------------------------
(* struct VirtualRoot                                                      *)

Bug_ToVirtual_keeps_root(root, real) ==
  IF StartsWith(real, root) THEN Join(<<RootDir>>, real) ELSE Err

\* VirtualRoot::to_virtual_path
ToVirtual(root, real) ==
  IF StartsWith(real, root)
  THEN Join(<<RootDir>>, StripPrefix(real, root))
  ELSE Err

Bug_ToReal_strips_root_first(root, v) ==
  IF StartsWith(v, root) THEN v
  ELSE IF StartsWith(v, <<RootDir>>)
       THEN Join(root, StripPrefix(v, <<RootDir>>)) ELSE Err

\* VirtualRoot::to_real_path: both early returns are the Err.
ToReal(root, v) ==
  IF ~StartsWith(v, <<RootDir>>) THEN Err
  ELSE LET real == Join(root, StripPrefix(v, <<RootDir>>))
       IN  IF StartsWith(real, root) THEN real ELSE Err

\* VirtualRoot::verify_real_path
VerifyRealPath(root, real) == StartsWith(real, root)

\* cwd_offset of every session: set to "/" and never changed.
CwdOffset == <<RootDir>>

Bug_Resolve_unjoined(root, p) == ToReal(root, p)

\* What every handler but readdir does with a path of a request.
Resolve(root, p) == ToReal(root, Join(CwdOffset, p))
=============================================================================
