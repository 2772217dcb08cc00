----------------------------- MODULE AuditTrail -----------------------------
(***************************************************************************)
(* What an audit log owes its readers: every deed that is to be logged is  *)
(* entered at most once, by the name of the user it was done for, or is    *)
(* reported as not entered; nobody is told that it is done before it is    *)
(* one or the other; and an entry is never changed, whatever becomes of    *)
(* the server afterwards.  A deed may be lost: then nobody is told of it.  *)
(***************************************************************************)
EXTENDS Naturals, Sequences

CONSTANT Users

VARIABLES
  deeds,      \* deeds[i]: the user for whom deed i was done, and if it is to be logged
  rows,       \* the entries
  printed,    \* the deeds reported as not entered
  answered    \* the deeds their client was told Ok for

Init == deeds = <<>> /\ rows = {} /\ printed = {} /\ answered = {}

\* To be logged, and neither entered nor reported yet.
Pending == {i \in DOMAIN deeds : deeds[i].logged} \ (printed \cup {r.deed : r \in rows})

Do(u, logged) ==
  /\ deeds' = Append(deeds, [user |-> u, logged |-> logged])
  /\ UNCHANGED <<rows, printed, answered>>

Enter(i) ==
  /\ i \in Pending
  /\ rows' = rows \cup {[username |-> deeds[i].user, deed |-> i]}
  /\ UNCHANGED <<deeds, printed, answered>>

Report(i) ==
  /\ i \in Pending
  /\ printed' = printed \cup {i}
  /\ UNCHANGED <<deeds, rows, answered>>

Tell(i) ==
  /\ i \notin Pending
  /\ answered' = answered \cup {i}
  /\ UNCHANGED <<deeds, rows, printed>>

Next ==
  \/ \E u \in Users, logged \in BOOLEAN : Do(u, logged)
  \/ \E i \in DOMAIN deeds : Enter(i) \/ Report(i) \/ Tell(i)

Spec == Init /\ [][Next]_<<deeds, rows, printed, answered>>
=============================================================================
