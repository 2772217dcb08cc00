--------------------------- MODULE MCVirtualRoot ---------------------------
(* Every root and every client path of at most MaxLen names and "..".      *)
EXTENDS PathRequests

CONSTANT MaxLen

Short == UNION {[1..n -> Part] : n \in 0..MaxLen}

MCPaths == {pre \o q : pre \in {<<>>, <<RootDir>>, <<CurDir>>}, q \in Short}
MCRoots == MCPaths \ {<<>>}
MCCwd   == [i \in {1} |-> CHOOSE n \in Name : TRUE]
=============================================================================
