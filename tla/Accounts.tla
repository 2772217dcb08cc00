------------------------------ MODULE Accounts ------------------------------
(***************************************************************************)
(* The user database of the server: server/src/database.rs creates it,     *)
(* server/src/auth.rs reads and writes it.  Every invocation of the binary *)
(* is an operating-system process of its own: `run` is the Server, each    *)
(* `auth register` and `auth update-password` is a Cli (server/src/main.rs *)
(* 93-148).  All of them open the same SQLite file and initialise it on    *)
(* their own; one SQL statement is atomic, no two are in a transaction.    *)
(* A process ends at the first unwrap() or expect() of an error, and may   *)
(* be killed between two statements.  A password stands for its hash too.  *)
(***************************************************************************)
EXTENDS Naturals

CONSTANTS Server, Clis,     \* the processes
          Conns,            \* the SSH connections the server handles
          Users, Admin,     \* user names; the one initialize_database inserts
          Passwords, AdminPassword,
          NoUser, NoPw,     \* no such user, no such row
          CliUsers          \* the names the CLI is called with

ASSUME AccountsAssumption ==
  /\ Admin \in Users /\ CliUsers \subseteq Users /\ NoUser \notin Users
  /\ AdminPassword \in Passwords /\ NoPw \notin Passwords
  /\ Server \notin Clis /\ Conns \cap (Clis \cup {Server}) = {}

VARIABLES
  tables,    \* the tables of the database file
  accounts,  \* accounts[u]: the password of u's row in Users, or NoPw
  pc,        \* pc[p]: the next statement of process p
  query,     \* query[a]: the row a has read and not yet acted upon
  logged     \* logged[c]: User.username of connection c, once it is authed

vars == <<tables, accounts, pc, query, logged>>

Procs  == Clis \cup {Server}
Tables == {"Users", "AuditLogs"}
Pcs    == {"down", "killed", "check_users", "create_users", "insert_admin", "check_logs",
           "create_logs", "ready", "write"}
Up(p)  == pc[p] \notin {"down", "killed"}

\* valid is history: the passwords user has had since the row was read.
Query   == [user : Users, offered : Passwords, new : Passwords, hash : Passwords,
            valid : SUBSET Passwords]
NoQuery == [user |-> NoUser, offered |-> NoPw, new |-> NoPw, hash |-> NoPw, valid |-> {}]

TypeOK ==
  /\ tables \subseteq Tables
  /\ accounts \in [Users -> Passwords \cup {NoPw}]
  /\ pc \in [Procs -> Pcs]
  /\ query \in [Procs \cup Conns -> Query \cup {NoQuery}]
  /\ logged \in [Conns -> Users \cup {NoUser}]
-----------------------------------------------------------------------------
Goes(p, next) == pc' = [pc EXCEPT ![p] = next]

\* The process ends, and with the server its connections.
Ends(p, as) ==
  LET gone == IF p = Server THEN {p} \cup Conns ELSE {p}
  IN  /\ Goes(p, as)
      /\ query' = [a \in Procs \cup Conns |-> IF a \in gone THEN NoQuery ELSE query[a]]
      /\ logged' = [c \in Conns |-> IF c \in gone THEN NoUser ELSE logged[c]]

Exit(p) == Ends(p, "down") /\ UNCHANGED <<tables, accounts>>

\* A row of Users is written; whoever has read the row of u acts on an old one.
Store(u, w) == accounts' = [accounts EXCEPT ![u] = w]
Seen(q)     == IF q.user = NoUser THEN q ELSE [q EXCEPT !.valid = @ \cup {accounts'[q.user]}]
Witnessed   == query' = [a \in Procs \cup Conns |-> Seen(query[a])]

Start(p) ==
  /\ ~Up(p)
  /\ Goes(p, "check_users")
  /\ UNCHANGED <<tables, accounts, query, logged>>

Kill(p) == Up(p) /\ Ends(p, "killed") /\ UNCHANGED <<tables, accounts>>
-----------------------------------------------------------------------------
(* initialize_database, one statement a step                               *)

CheckUsers(p) ==
  /\ pc[p] = "check_users"
  /\ Goes(p, IF "Users" \in tables THEN "ready" ELSE "create_users")
  /\ UNCHANGED <<tables, accounts, query, logged>>

Create(p, table, next) ==
  IF table \in tables
  THEN Exit(p)                                       \* table already exists
  ELSE /\ tables' = tables \cup {table}
       /\ Goes(p, next)
       /\ UNCHANGED <<accounts, query, logged>>

Bug_CreateUsers_if_not_exists(p) ==
  /\ pc[p] = "create_users"
  /\ tables' = tables \cup {"Users"}
  /\ Goes(p, "insert_admin")
  /\ UNCHANGED <<accounts, query, logged>>

CreateUsers(p) == pc[p] = "create_users" /\ Create(p, "Users", "insert_admin")

Bug_CanInsert_replaces(u) == TRUE

\* UNIQUE of Users.username
CanInsert(u) == accounts[u] = NoPw

InsertAdmin(p) ==
  /\ pc[p] = "insert_admin"
  /\ IF CanInsert(Admin)
     THEN /\ Store(Admin, AdminPassword) /\ Witnessed
          /\ Goes(p, "check_logs")
          /\ UNCHANGED <<tables, logged>>
     ELSE Exit(p)

CheckLogs(p) ==
  /\ pc[p] = "check_logs"
  /\ Goes(p, IF "AuditLogs" \in tables THEN "ready" ELSE "create_logs")
  /\ UNCHANGED <<tables, accounts, query, logged>>

Bug_CreateLogs_returns_early(p) == pc[p] = "create_logs" /\ Create(p, "Users", "ready")

CreateLogs(p) == pc[p] = "create_logs" /\ Create(p, "AuditLogs", "ready")
-----------------------------------------------------------------------------
(* trait Auther                                                            *)

Register(p, u, w) ==
  /\ p \in Clis /\ pc[p] = "ready"
  /\ \/ /\ CanInsert(u)
        /\ Store(u, w)
        /\ pc' = [pc EXCEPT ![p] = "down"] /\ Witnessed
        /\ UNCHANGED <<tables, logged>>
     \/ ~CanInsert(u) /\ Exit(p)

Reads(a, u, offered, new) ==
  query' = [query EXCEPT ![a] = [user |-> u, offered |-> offered, new |-> new,
                                 hash |-> accounts[u], valid |-> {accounts[u]}]]

\* bcrypt::verify
Bug_Verify_any(offered, hash) == hash # NoPw

Verify(offered, hash) == offered = hash

\* update_user_password: SELECT, then, verified and hashed, UPDATE.
UpdateRead(p, u, old, new) ==
  /\ p \in Clis /\ pc[p] = "ready"
  /\ \/ /\ accounts[u] # NoPw
        /\ Reads(p, u, old, new) /\ Goes(p, "write")
        /\ UNCHANGED <<tables, accounts, logged>>
     \/ accounts[u] = NoPw /\ Exit(p)

UpdateWrite(p) ==
  LET q == query[p]
  IN  /\ pc[p] = "write"
      /\ \/ /\ Verify(q.offered, q.hash)
            /\ Store(q.user, q.new)
            /\ query' = [a \in Procs \cup Conns |-> IF a = p THEN NoQuery ELSE Seen(query[a])]
            /\ Goes(p, "down")
            /\ UNCHANGED <<tables, logged>>
         \/ ~Verify(q.offered, q.hash) /\ Exit(p)

Bug_Login_defaults_hash(c, u, offered) ==
  /\ pc[Server] = "ready" /\ logged[c] = NoUser /\ query[c] = NoQuery
  /\ Reads(c, u, offered, offered)
  /\ UNCHANGED <<tables, accounts, pc, logged>>

\* auth_password and authenticate: no row and a wrong password are both a Reject,
\* after which the client may try again.
Login(c, u, offered) ==
  /\ pc[Server] = "ready" /\ logged[c] = NoUser /\ query[c] = NoQuery
  /\ accounts[u] # NoPw
  /\ Reads(c, u, offered, offered)
  /\ UNCHANGED <<tables, accounts, pc, logged>>

LoginVerify(c) ==
  LET q == query[c]
  IN  /\ q # NoQuery
      /\ query' = [query EXCEPT ![c] = NoQuery]
      /\ logged' = [logged EXCEPT ![c] = IF Verify(q.offered, q.hash) THEN q.user ELSE NoUser]
      /\ UNCHANGED <<tables, accounts, pc>>

Leave(c) ==
  /\ logged[c] # NoUser
  /\ logged' = [logged EXCEPT ![c] = NoUser]
  /\ UNCHANGED <<tables, accounts, pc, query>>
-----------------------------------------------------------------------------
\* No database file yet, or one an earlier run completed.
Init ==
  /\ \/ tables = {} /\ accounts = [u \in Users |-> NoPw]
     \/ /\ tables = Tables
        /\ accounts \in [Users -> Passwords \cup {NoPw}] /\ accounts[Admin] # NoPw
  /\ pc = [p \in Procs |-> "down"]
  /\ query = [a \in Procs \cup Conns |-> NoQuery]
  /\ logged = [c \in Conns |-> NoUser]

Initialize(p) == CheckUsers(p) \/ CreateUsers(p) \/ InsertAdmin(p) \/ CheckLogs(p) \/ CreateLogs(p)

Next ==
  \/ \E p \in Procs : Start(p) \/ Kill(p) \/ Initialize(p) \/ UpdateWrite(p)
  \/ \E p \in Clis, u \in CliUsers, w \in Passwords :
       Register(p, u, w) \/ \E old \in Passwords : UpdateRead(p, u, old, w)
  \/ \E c \in Conns : \/ \E u \in Users, w \in Passwords : Login(c, u, w)
                      \/ LoginVerify(c) \/ Leave(c)

Spec == Init /\ [][Next]_vars

\* A process that is not killed runs on until it serves or ends.
LiveSpec == Spec /\ \A p \in Procs : WF_vars(Initialize(p))
-----------------------------------------------------------------------------
\* An account, once it is there, changes only by an update-password that was
\* given a password the account had since the process read its row: no second
\* registration and no initialisation of another process takes it over
\* (auth.rs:51-59, 78-97, database.rs:59-65).
ChangedByKnower ==
  [][\A u \in Users :
       accounts[u] # NoPw /\ accounts'[u] # accounts[u] =>
         \E p \in Clis : /\ query[p].user = u /\ accounts'[u] = query[p].new
                         /\ query[p].offered \in query[p].valid]_vars

\* A connection is authed only as a user whose password it offered while that
\* password was the user's, however many updates come between SELECT and verify
\* (auth.rs:60-71, sftp_server.rs:61-69).
AuthedByPassword ==
  [][\A c \in Conns :
       logged'[c] \notin {logged[c], NoUser} =>
         logged'[c] = query[c].user /\ query[c].offered \in query[c].valid]_vars

\* insert_admin, check_logs and create_logs: what comes after CREATE TABLE Users.
Completing(p) == pc[p] \in {"insert_admin", "check_logs", "create_logs"}

\* Of all the processes that find no database at once, one completes the file: the
\* others end at CREATE TABLE Users or go on as if it were complete, so that no
\* CREATE TABLE AuditLogs ever finds the table there, and a file that has both
\* tables has the account of admin (database.rs:38-91).
OneCompletes ==
  /\ \A p \in Procs : Completing(p) =>
       /\ "Users" \in tables /\ "AuditLogs" \notin tables
       /\ \A q \in Procs : Completing(q) => q = p
       /\ pc[p] # "insert_admin" => accounts[Admin] # NoPw
  /\ "AuditLogs" \in tables => "Users" \in tables /\ accounts[Admin] # NoPw

\* The file has Users and no AuditLogs, and nobody is about to create it.
Abandoned ==
  "Users" \in tables /\ "AuditLogs" \notin tables /\ \A p \in Procs : ~Completing(p)

\* Someone registers the name admin before it is inserted: the insertion fails.
AdminTaken == accounts[Admin] # NoPw /\ \E p \in Procs : pc[p] = "insert_admin"

\* A file is abandoned only when the process that completes it is killed or finds
\* the name admin taken, never by what another process does; and once it is
\* abandoned no later start repairs it (database.rs:44-46, 59-66).
AbandonedForGood ==
  [][/\ Abandoned => Abandoned'
     /\ ~Abandoned /\ Abandoned' =>
          \E p \in Procs : Completing(p) /\ (pc'[p] = "killed" \/ AdminTaken)]_vars

\* However many processes find no database at once, they complete it between
\* them, in every run in which none is killed and none registers the name admin
\* first (database.rs:38-91).
SchemaCompletes ==
  <>(tables # {}) =>
    <>(\/ tables = Tables /\ accounts[Admin] # NoPw
       \/ AdminTaken
       \/ \E p \in Procs : pc[p] = "killed")

\* A server does not serve for ever without the table its audit records go to
\* (server/README.md:56).
ServesWithAuditLogs == []<>(pc[Server] = "ready" => "AuditLogs" \in tables)
=============================================================================
