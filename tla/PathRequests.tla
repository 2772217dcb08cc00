---------------------------- MODULE PathRequests ----------------------------
(***************************************************************************)
(* The conversions the handlers of server/src/sftp_server.rs chain on one  *)
(* path of a request: resolve it (every handler), map the result back      *)
(* (realpath), or resolve the stored result once more (fstat of a file     *)
(* handle).  A server has one root; its clients ask for any path.          *)
(***************************************************************************)
EXTENDS VirtualRoot

CONSTANTS ClientPaths,  \* the paths requests carry
          ServerRoots,  \* the values VIRTUAL_ROOT_PATH may have
          Cwd           \* the names of the directory the server runs in

ASSUME PathsAssumption ==
  /\ ClientPaths \subseteq Path /\ ServerRoots \subseteq Roots /\ Cwd \in Seq(Name)

VARIABLES virtual_root,  \* VIRTUAL_ROOT_PATH of this server
          asked,         \* the path in the request
          stage,         \* how far the request has come
          real,          \* what Resolve made of it
          back,          \* what realpath answers
          again          \* what fstat makes of the stored real path

vars == <<virtual_root, asked, stage, real, back, again>>

Init ==
  /\ virtual_root \in ServerRoots
  /\ asked \in ClientPaths
  /\ stage = "asked"
  /\ real = Err /\ back = Err /\ again = Err

DoResolve ==
  /\ stage = "asked" /\ stage' = "resolved"
  /\ real' = Resolve(virtual_root, asked)
  /\ UNCHANGED <<virtual_root, asked, back, again>>

DoRealpath ==
  /\ stage = "resolved" /\ stage' = "realpath"
  /\ back' = ToVirtual(virtual_root, real)
  /\ UNCHANGED <<virtual_root, asked, real, again>>

DoFstat ==
  /\ stage = "resolved" /\ stage' = "fstat"
  /\ again' = Resolve(virtual_root, real)
  /\ UNCHANGED <<virtual_root, asked, real, back>>

NextRequest ==
  /\ stage \in {"realpath", "fstat"} /\ stage' = "asked"
  /\ asked' \in ClientPaths
  /\ real' = Err /\ back' = Err /\ again' = Err
  /\ UNCHANGED virtual_root

Next == DoResolve \/ DoRealpath \/ DoFstat \/ NextRequest
Spec == Init /\ [][Next]_vars
-----------------------------------------------------------------------------
(* Where a path leads, short of links: outside the repository.             *)

Enter(dir, c) ==
  IF c = ParentDir THEN IF dir = <<>> THEN dir ELSE Front(dir)
  ELSE IF c \in {RootDir, CurDir} THEN dir ELSE Append(dir, c)

Lands(p) == FoldLeft(Enter, IF IsAbs(p) THEN <<>> ELSE Cwd, p)

\* At some component the path has gone up more often than down.
Climbs(p) ==
  \E i \in 1..Len(p) :
    LET upTo(S) == Len(SelectSeq(SubSeq(p, 1, i), LAMBDA c : c \in S))
    IN  upTo({ParentDir}) > upTo(Name)
-----------------------------------------------------------------------------
\* The unwrap() of to_real_path in the handlers never panics (sftp_server.rs:192,
\* 210, 227, 314, 335, 382, 413, 436, 459): whatever path is asked for, what it
\* is joined to begins with the components of the root, which is all the check
\* of fs.rs:50 compares.  It says nothing of where the path leads: ".." is a
\* component like another to it, so the check refuses no path of any client.
ResolveNeverFails ==
  stage # "asked" => real # Err /\ VerifyRealPath(virtual_root, real)

\* What a path leads to lies below what the root leads to, as Report.md:24 and
\* README.md:3 have it, if the path does not climb; nothing in fs.rs:39-57 sees
\* to that for one that does.
BelowUnlessClimbing ==
  stage # "asked" /\ ~Climbs(asked) => StartsWith(Lands(real), Lands(virtual_root))

\* realpath tells the client the absolute form of the very path it asked for
\* (sftp_server.rs:411-415), whatever the root is.
RoundTrip == stage = "realpath" => back = Join(CwdOffset, asked)

\* fstat resolves the real path that open stored once more
\* (sftp_server.rs:195-196, 224-227).  Under a root without ".." that is the same
\* path exactly if the root has no file name, and exactly then realpath("/") has
\* none to print (fs.rs:120): no such VIRTUAL_ROOT_PATH makes both handlers work.
\* (Under "../data" both may, under ".." neither does.)
FstatOrRealpath ==
  stage = "fstat" /\ NoParent(virtual_root) =>
    ((again = real) <=> ~HasFileName(Resolve(virtual_root, <<RootDir>>)))
=============================================================================
