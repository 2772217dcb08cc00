------------------------------ MODULE AuditLog ------------------------------
(***************************************************************************)
(* The audit log of the server, server/src/audit.rs, and the pool of       *)
(* database connections (r2d2, outside the repository) it shares with      *)
(* server/src/auth.rs.  DatabaseLogger gets every tracing event of every   *)
(* thread of the server and takes a pooled connection for each, also for   *)
(* those that make no record.  Pool::get blocks its thread while all       *)
(* connections are out, for thirty seconds, and then fails.                *)
(***************************************************************************)
EXTENDS Naturals, FiniteSets

CONSTANTS PoolSize,  \* the connections of the pool: 10 by default
          Users,     \* the rows of Users
          AsColumn,  \* a user name as the column AuditLogs.username keeps it
          Locks      \* other processes may hold the database's lock for longer
                     \* than an insert waits

ASSUME AuditAssumption ==
  /\ PoolSize \in Nat \ {0}
  /\ Locks \in BOOLEAN

VARIABLES
  holds,    \* the threads that have a connection of the pool
  rows,     \* the table AuditLogs
  printed   \* history: the deeds whose record was not inserted but printed

audit == <<holds, rows, printed>>

Exhausted == Cardinality(holds) >= PoolSize

\* Pool::get, and the drop of what it returned.
Takes(t)   == ~Exhausted /\ holds' = holds \cup {t}
Returns(t) == holds' = holds \ {t}

Bug_Refers_unchecked(u) == TRUE

\* username INTEGER NOT NULL references Users(username): integer affinity turns
\* a name that reads as a number into the number, and the key is compared as text.
Refers(u) == AsColumn[u] \in Users

Bug_Insert_ignores_errors(u, deed) ==
  \/ Refers(u) /\ rows' = rows \cup {[username |-> AsColumn[u], deed |-> deed]} /\ UNCHANGED printed
  \/ (Refers(u) => Locks) /\ UNCHANGED <<rows, printed>>

\* log_action_to_audit_logs, whose error is printed.
Insert(u, deed) ==
  \/ /\ Refers(u)
     /\ rows' = rows \cup {[username |-> AsColumn[u], deed |-> deed]}
     /\ UNCHANGED printed
  \/ /\ Refers(u) => Locks
     /\ printed' = printed \cup {deed}
     /\ UNCHANGED rows
=============================================================================
