---------------------------- MODULE HandleTable ----------------------------
(***************************************************************************)
(* What a file server owes the clients that hold its handles: a handle is  *)
(* given out for one thing at a time; until the client gives it back, what *)
(* is served through it is that thing; afterwards nothing is, until it is  *)
(* given out again; and what one session does to its handles no other      *)
(* session sees.                                                           *)
(***************************************************************************)
CONSTANTS Sessions, Handles, Things, Unused, Nothing

VARIABLES
  table,    \* table[s][h]: the thing handle h of session s is for, or Unused
  served    \* what the last step served, and through which handle, or Nothing

Init ==
  /\ table = [s \in Sessions |-> [h \in Handles |-> Unused]]
  /\ served = Nothing

Grant(s, h, thing) ==
  /\ table[s][h] = Unused
  /\ table' = [table EXCEPT ![s][h] = thing]
  /\ served' = Nothing

Revoke(s, h) ==
  /\ table[s][h] # Unused
  /\ table' = [table EXCEPT ![s][h] = Unused]
  /\ served' = Nothing

Serve(s, h) ==
  /\ table[s][h] \in Things
  /\ served' = [to |-> s, h |-> h, thing |-> table[s][h]]
  /\ UNCHANGED table

\* Something that is not about handles.
Refrain == served' = Nothing /\ UNCHANGED table

\* The session ends, and may be begun anew.
Drop(s) ==
  /\ table' = [table EXCEPT ![s] = [h \in Handles |-> Unused]]
  /\ served' = Nothing

Next ==
  \/ \E s \in Sessions, h \in Handles :
       Revoke(s, h) \/ Serve(s, h) \/ \E thing \in Things : Grant(s, h, thing)
  \/ \E s \in Sessions : Drop(s)
  \/ Refrain

Spec == Init /\ [][Next]_<<table, served>>
=============================================================================
