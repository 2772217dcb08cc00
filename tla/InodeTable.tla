----------------------------- MODULE InodeTable -----------------------------
(***************************************************************************)
(* What a FUSE file system that answers every entry with generation 0 owes *)
(* the kernel of its inode numbers: a number is bound to a path once, two  *)
(* numbers are never bound to the same path at a time, a number that was   *)
(* retired is never used again, and the root keeps the number 1.           *)
(***************************************************************************)
EXTENDS Naturals

CONSTANTS Inos, Paths, Fresh, Retired

VARIABLE bound      \* bound[i]: the path of number i, or Fresh, or Retired

Root == 1

Init == \E p \in Paths : bound = [i \in Inos |-> IF i = Root THEN p ELSE Fresh]

Bind(i, p) ==
  /\ bound[i] = Fresh
  /\ \A j \in Inos : bound[j] # p
  /\ bound' = [bound EXCEPT ![i] = p]

Retire(i) ==
  /\ i # Root /\ bound[i] \in Paths
  /\ bound' = [bound EXCEPT ![i] = Retired]

Next == \E i \in Inos : Retire(i) \/ \E p \in Paths : Bind(i, p)

Spec == Init /\ [][Next]_bound
=============================================================================
