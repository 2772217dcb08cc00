--------------------------- MODULE MCSshfsClient ---------------------------
(* Small servers for TLC: a directory sub with a file doc in it.           *)
EXTENDS SshfsClient, TLC

SE == INSTANCE SequencesExt

CONSTANTS sub, doc, spare

DeepPaths   == {<<>>, <<sub>>, <<sub, doc>>}
DeepInit    == (<<>> :> "dir") @@ (<<sub>> :> "dir") @@ (<<sub, doc>> :> "file")
DeepMounts == {<<>>, <<sub>>}

MCListings  == [S \in SUBSET Names |-> SE!SetToSeq(S)]

\* Two names for files.
FilePaths   == {<<>>, <<doc>>, <<spare>>}
FileInit    == (<<>> :> "dir") @@ (<<doc>> :> "file") @@ (<<spare>> :> "file")

\* Without readdir, which lists the names in an order, no name and no handle of
\* the server differs from another but by what is at it.
FileSymmetry == Permutations(SftpHandles) \cup Permutations(Names)

FlatMounts == {<<>>}
=============================================================================
