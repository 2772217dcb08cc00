--------------------------- MODULE MCSftpSession ---------------------------
(* Small disks for TLC: a directory sub, a file doc, a free name spare.    *)
EXTENDS SftpSession

\* No session differs from another but by its name.
SessionSymmetry == Permutations(Sessions)

\* No action reads what was said last: where only steps are asked about, states
\* that differ in it alone are one.
SessionView == <<disk, session>>

CONSTANTS sub, doc, spare, o0, o1, o2, o3, n1

MCPlaces == {<<>>, <<sub>>, <<sub, doc>>, <<spare>>, <<spare, doc>>}
MCInitTree == (<<>> :> o0) @@ (<<sub>> :> o1) @@ (<<sub, doc>> :> o2)
              @@ (<<spare>> :> NoObj) @@ (<<spare, doc>> :> NoObj)
MCInitKind == (o0 :> "dir") @@ (o1 :> "dir") @@ (o2 :> "file") @@ (o3 :> "file")

\* One directory and one file in it: what sessions do to handles and data.
FilePlaces   == {<<>>, <<doc>>}
FileInitTree == (<<>> :> o0) @@ (<<doc>> :> o1)
FileInitKind == (o0 :> "dir") @@ (o1 :> "file") @@ (o2 :> "file")

\* Two names for directories.
ListPlaces   == {<<>>, <<sub>>, <<spare>>}
ListInitTree == (<<>> :> o0) @@ (<<sub>> :> o1) @@ (<<spare>> :> NoObj)
ListInitKind == (o0 :> "dir") @@ (o1 :> "dir") @@ (o2 :> "dir")

RootDefault  == <<CurDir>>
RootAbsolute == <<RootDir, n1>>
=============================================================================
