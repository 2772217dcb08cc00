------------------------- MODULE VirtualRootProofs -------------------------
(***************************************************************************)
(* What the handlers' path conversions guarantee for every set of names,   *)
(* every root and every client path.                                       *)
(***************************************************************************)
EXTENDS PathRequests, PathLemmas

\* Every conversion of a request is the one its stage says.
PInv ==
  /\ virtual_root \in ServerRoots /\ asked \in ClientPaths
  /\ stage # "asked" => real = Resolve(virtual_root, asked)
  /\ stage = "realpath" => back = ToVirtual(virtual_root, real)
  /\ stage = "fstat" => again = Resolve(virtual_root, real)

(* A handler converts the path of its own request: neither the root of the *)
(* server nor the path asked for changes while a request is under way.     *)
LEMMA OneRequest ==
  ASSUME DoResolve \/ DoRealpath \/ DoFstat
  PROVE  UNCHANGED <<virtual_root, asked>>
  BY DEF DoResolve, DoRealpath, DoFstat

(* What the handlers have converted so far stays right with each further   *)
(* conversion: realpath and fstat both start from what resolving returned. *)
LEMMA ConversionKeeps ==
  ASSUME PInv, DoResolve \/ DoRealpath \/ DoFstat
  PROVE  PInv'
<1>1. virtual_root' \in ServerRoots /\ asked' \in ClientPaths
  BY OneRequest DEF PInv
<1>2. real' = Resolve(virtual_root', asked')
  BY OneRequest DEF PInv, DoResolve, DoRealpath, DoFstat
<1>3. ASSUME stage' = "realpath" PROVE back' = ToVirtual(virtual_root', real')
  BY <1>3, OneRequest DEF DoResolve, DoRealpath, DoFstat
<1>4. ASSUME stage' = "fstat" PROVE again' = Resolve(virtual_root', real')
  BY <1>4, OneRequest DEF DoResolve, DoRealpath, DoFstat
<1>. QED  BY <1>1, <1>2, <1>3, <1>4 DEF PInv

LEMMA PInvInvariant == Spec => []PInv
<1>1. ASSUME Init PROVE PInv
  BY <1>1 DEF Init, PInv
<1>2. ASSUME PInv, [Next]_vars PROVE PInv'
  <2>1. ASSUME NextRequest \/ UNCHANGED vars PROVE PInv'
    BY <1>2, <2>1 DEF NextRequest, PInv, vars
  <2>. QED  BY <1>2, <2>1, ConversionKeeps DEF Next
<1>. QED  BY <1>1, <1>2, PTL DEF Spec

(* No unwrap() of to_real_path in a handler panics, for all names, roots   *)
(* and client paths, those with ".." included: the check that a path is    *)
(* under the root compares components and so accepts every path; it is no  *)
(* promise of where the path leads (sftp_server.rs:192 and the other       *)
(* handlers, fs.rs:39-57).                                                 *)
THEOREM ResolveNeverFailsTheorem == Spec => []ResolveNeverFails
<1>1. PInv => ResolveNeverFails
  <2> SUFFICES ASSUME PInv, stage # "asked"
               PROVE  real # Err /\ VerifyRealPath(virtual_root, real)
    BY DEF ResolveNeverFails
  <2>1. virtual_root \in Roots /\ asked \in Path /\ real = Resolve(virtual_root, asked)
    BY PathsAssumption DEF PInv
  <2>2. QED BY <2>1, ResolveAppends DEF Roots, Err, VerifyRealPath
<1>2. QED BY <1>1, PInvInvariant, PTL

(* realpath answers the absolute form of the path it was asked for, under  *)
(* every root (sftp_server.rs:411-415, fs.rs:32-37).                       *)
THEOREM RoundTripTheorem == Spec => []RoundTrip
<1>1. PInv => RoundTrip
  BY PathsAssumption, BackAndForth DEF PInv, RoundTrip
<1>2. QED BY <1>1, PInvInvariant, PTL

(* Under no root without ".." do both fstat of a file handle and           *)
(* realpath("/") work, whatever path of a client the handle is of, ".." in *)
(* it or not (sftp_server.rs:195-196, 224-228 against fs.rs:120).          *)
THEOREM FstatOrRealpathTheorem == Spec => []FstatOrRealpath
<1>1. PInv => FstatOrRealpath
  BY PathsAssumption, ResolveTwicePlain DEF PInv, FstatOrRealpath
<1>2. QED BY <1>1, PInvInvariant, PTL
=============================================================================
