--------------------------- MODULE AccountsProofs ---------------------------
(***************************************************************************)
(* Theorems about the user database, for any number of processes,          *)
(* connections, users and passwords, and with or without kills.            *)
(***************************************************************************)
EXTENDS Accounts, TLAPS

(* What holds of a row that was read and not acted upon yet: the password  *)
(* it had is among those its user has had since, and it is not gone.       *)
RowInv(q) == q \in Query => q.hash \in q.valid /\ accounts[q.user] # NoPw

QueryInv ==
  /\ \A a \in Procs \cup Conns : RowInv(query[a])
  /\ \A p \in Procs : pc[p] = "write" => p \in Clis /\ query[p] \in Query

AInv == TypeOK /\ QueryInv

LEMMA QueryFacts ==
  /\ NoQuery \notin Query /\ NoQuery.user = NoUser
  /\ \A q \in Query : q.user \in Users /\ q.user # NoUser /\ q # NoQuery
  BY AccountsAssumption DEF Query, NoQuery

LEMMA ActorFacts ==
  /\ Admin \in Users /\ AdminPassword \in Passwords /\ CliUsers \subseteq Users
  /\ Clis \subseteq Procs /\ Server \in Procs /\ NoPw \notin Passwords
  /\ \A c \in Conns : c \notin Procs
  BY AccountsAssumption DEF Procs

(* The history grows by what is stored, and forgets nothing.               *)
LEMMA SeenFacts ==
  ASSUME NEW q \in Query \cup {NoQuery}, accounts' \in [Users -> Passwords \cup {NoPw}],
         q \in Query => accounts'[q.user] \in Passwords
  PROVE  /\ Seen(q) \in Query \cup {NoQuery}
         /\ q \in Query => Seen(q) \in Query
         /\ Seen(q) \in Query /\ (q \in Query => q.hash \in q.valid) => Seen(q).hash \in Seen(q).valid
<1>1. CASE q \in Query
  <2>1. q.user # NoUser
    BY <1>1, QueryFacts
  <2>2. Seen(q) = [q EXCEPT !.valid = @ \cup {accounts'[q.user]}]
    BY <2>1 DEF Seen
  <2>3. /\ Seen(q) \in Query
        /\ Seen(q).hash = q.hash /\ Seen(q).valid = q.valid \cup {accounts'[q.user]}
    BY <1>1, <2>2 DEF Query
  <2>4. QED BY <1>1, <2>3
<1>2. CASE q = NoQuery
  BY <1>2, QueryFacts DEF Seen
<1>3. QED BY <1>1, <1>2
(* A row is written, and the actors in gone drop what they have read.      *)
LEMMA StoreKeeps ==
  ASSUME AInv, NEW u \in Users, NEW w \in Passwords, Store(u, w), NEW gone,
         query' = [a \in Procs \cup Conns |-> IF a \in gone THEN NoQuery ELSE Seen(query[a])]
  PROVE  /\ accounts' \in [Users -> Passwords \cup {NoPw}]
         /\ query' \in [Procs \cup Conns -> Query \cup {NoQuery}]
         /\ \A a \in Procs \cup Conns : /\ (RowInv(query[a]))'
                                        /\ a \notin gone /\ query[a] \in Query => query'[a] \in Query
<1>1. /\ accounts' \in [Users -> Passwords \cup {NoPw}]
      /\ accounts'[u] = w /\ \A t \in Users : t # u => accounts'[t] = accounts[t]
  BY DEF AInv, TypeOK, Store
<1>2. \A t \in Users : accounts[t] # NoPw => accounts'[t] \in Passwords
  BY <1>1
<1>3. ASSUME NEW a \in Procs \cup Conns
      PROVE  /\ query'[a] \in Query \cup {NoQuery}
             /\ (RowInv(query[a]))'
             /\ a \notin gone /\ query[a] \in Query => query'[a] \in Query
  <2>1. CASE a \in gone
    BY <2>1, QueryFacts DEF RowInv
  <2>2. CASE a \notin gone
    <3>1. query'[a] = Seen(query[a]) /\ query[a] \in Query \cup {NoQuery} /\ RowInv(query[a])
      BY <2>2 DEF AInv, TypeOK, QueryInv
    <3>2. query[a] \in Query => accounts'[query[a].user] \in Passwords
      BY <1>2, <3>1, QueryFacts DEF RowInv
    <3>3. /\ Seen(query[a]) \in Query \cup {NoQuery}
          /\ query[a] \in Query => Seen(query[a]) \in Query
          /\ Seen(query[a]) \in Query => Seen(query[a]).hash \in Seen(query[a]).valid
      BY <1>1, <3>1, <3>2, SeenFacts DEF RowInv
    <3>4. CASE query[a] \in Query
      <4>1. Seen(query[a]).user = query[a].user
        BY <3>4 DEF Seen, Query
      <4>2. accounts'[query'[a].user] # NoPw
        BY <3>1, <3>2, <3>4, <4>1, ActorFacts
      <4>3. QED BY <3>1, <3>3, <4>2 DEF RowInv
    <3>5. CASE query[a] = NoQuery
      BY <3>1, <3>5, QueryFacts DEF RowInv, Seen
    <3>6. QED BY <3>1, <3>4, <3>5
  <2>3. QED BY <2>1, <2>2
<1>4. DOMAIN query' = Procs \cup Conns
  OBVIOUS
<1>5. query' \in [Procs \cup Conns -> Query \cup {NoQuery}]
  BY <1>3
<1>6. QED BY <1>1, <1>3, <1>5

LEMMA WitnessedKeeps ==
  ASSUME AInv, NEW u \in Users, NEW w \in Passwords, Store(u, w), Witnessed
  PROVE  /\ accounts' \in [Users -> Passwords \cup {NoPw}]
         /\ query' \in [Procs \cup Conns -> Query \cup {NoQuery}]
         /\ \A a \in Procs \cup Conns : /\ (RowInv(query[a]))'
                                        /\ query[a] \in Query => query'[a] \in Query
<1> DEFINE gone == {}
<1>1. \A a : a \notin gone
  OBVIOUS
<1> HIDE DEF gone
<1>2. query' = [a \in Procs \cup Conns |-> IF a \in gone THEN NoQuery ELSE Seen(query[a])]
  BY <1>1 DEF Witnessed
<1>3. QED BY <1>1, <1>2, StoreKeeps

LEMMA EndsKeeps ==
  ASSUME AInv, NEW p \in Procs, NEW as \in {"down", "killed"}, Ends(p, as),
         UNCHANGED <<tables, accounts>>
  PROVE  AInv' /\ UNCHANGED accounts /\ \A c \in Conns : logged'[c] \in {logged[c], NoUser}
<1> DEFINE gone == IF p = Server THEN {p} \cup Conns ELSE {p}
<1>1. /\ pc' = [pc EXCEPT ![p] = as]
      /\ query' = [a \in Procs \cup Conns |-> IF a \in gone THEN NoQuery ELSE query[a]]
      /\ logged' = [c \in Conns |-> IF c \in gone THEN NoUser ELSE logged[c]]
      /\ UNCHANGED <<tables, accounts>>
  BY DEF Ends, Goes
<1>2. \A c \in Conns : logged'[c] \in {logged[c], NoUser}
  BY <1>1
<1>3. TypeOK'
  BY <1>1 DEF AInv, TypeOK, Pcs
<1>4. \A a \in Procs \cup Conns : (RowInv(query[a]))'
  BY <1>1, QueryFacts DEF AInv, QueryInv, RowInv
<1>5. ASSUME NEW r \in Procs, pc'[r] = "write" PROVE r \in Clis /\ query'[r] \in Query
  <2>1. r # p /\ pc[r] = "write"
    BY <1>1, <1>5 DEF AInv, TypeOK
  <2>2. r \notin gone
    BY <2>1, ActorFacts
  <2>3. QED BY <1>1, <2>1, <2>2 DEF AInv, QueryInv
<1>6. QED BY <1>1, <1>2, <1>3, <1>4, <1>5 DEF AInv, QueryInv
-----------------------------------------------------------------------------
(* The steps.                                                              *)

\* What a step of ChangedByKnower and of AuthedByPassword says.
Knower ==
  \A u \in Users :
    accounts[u] # NoPw /\ accounts'[u] # accounts[u] =>
      \E p \in Clis : /\ query[p].user = u /\ accounts'[u] = query[p].new
                      /\ query[p].offered \in query[p].valid

Authed ==
  \A c \in Conns :
    logged'[c] \notin {logged[c], NoUser} =>
      logged'[c] = query[c].user /\ query[c].offered \in query[c].valid

LEMMA ExitStep ==
  ASSUME AInv, NEW p \in Procs, Exit(p)
  PROVE  AInv' /\ Knower /\ Authed
  BY EndsKeeps DEF Exit, Knower, Authed

(* A statement of initialize_database that touches no row.                 *)
LEMMA GoesStep ==
  ASSUME AInv, NEW p \in Procs, NEW next \in Pcs \ {"write"}, Goes(p, next),
         tables' \subseteq Tables, UNCHANGED <<accounts, query, logged>>
  PROVE  AInv' /\ Knower /\ Authed
<1>1. TypeOK'
  BY DEF AInv, TypeOK, Goes
<1>2. QueryInv'
  BY DEF AInv, TypeOK, QueryInv, RowInv, Goes
<1>3. QED BY <1>1, <1>2 DEF AInv, Knower, Authed

LEMMA InitializeStep ==
  ASSUME AInv, NEW p \in Procs, Initialize(p)
  PROVE  AInv' /\ Knower /\ Authed
<1> USE DEF Pcs, Tables
<1>1. tables \subseteq Tables
  BY DEF AInv, TypeOK
<1>2. CASE CheckUsers(p)
  BY <1>1, <1>2, GoesStep DEF CheckUsers
<1>3. CASE CheckLogs(p)
  BY <1>1, <1>3, GoesStep DEF CheckLogs
<1>4. CASE CreateUsers(p)
  BY <1>1, <1>4, GoesStep, ExitStep DEF CreateUsers, Create
<1>5. CASE CreateLogs(p)
  BY <1>1, <1>5, GoesStep, ExitStep DEF CreateLogs, Create
<1>6. CASE InsertAdmin(p)
  <2>1. CASE ~CanInsert(Admin)
    BY <1>6, <2>1, ExitStep DEF InsertAdmin
  <2>2. CASE CanInsert(Admin)
    <3>1. /\ Store(Admin, AdminPassword) /\ Witnessed
          /\ pc' = [pc EXCEPT ![p] = "check_logs"] /\ UNCHANGED <<tables, logged>>
      BY <1>6, <2>2 DEF InsertAdmin, Goes
    <3>2. /\ accounts' \in [Users -> Passwords \cup {NoPw}]
          /\ query' \in [Procs \cup Conns -> Query \cup {NoQuery}]
          /\ \A a \in Procs \cup Conns : /\ (RowInv(query[a]))'
                                         /\ query[a] \in Query => query'[a] \in Query
      BY <3>1, WitnessedKeeps, ActorFacts
    <3>3. TypeOK' /\ \A r \in Procs : pc'[r] = "write" => r \in Clis /\ query'[r] \in Query
      BY <3>1, <3>2 DEF AInv, TypeOK, QueryInv
    <3>4. Knower
      BY <2>2, <3>1 DEF Knower, Store, CanInsert, AInv, TypeOK
    <3>5. QED BY <3>1, <3>2, <3>3, <3>4 DEF AInv, QueryInv, Authed
  <2>3. QED BY <2>1, <2>2
<1>7. QED BY <1>2, <1>3, <1>4, <1>5, <1>6 DEF Initialize

LEMMA RegisterStep ==
  ASSUME AInv, NEW p \in Clis, NEW u \in CliUsers, NEW w \in Passwords, Register(p, u, w)
  PROVE  AInv' /\ Knower /\ Authed
<1>1. p \in Procs /\ u \in Users
  BY ActorFacts
<1>2. CASE Exit(p)
  BY <1>1, <1>2, ExitStep
<1>3. CASE ~Exit(p)
  <2>1. /\ CanInsert(u) /\ Store(u, w) /\ Witnessed
        /\ pc' = [pc EXCEPT ![p] = "down"] /\ UNCHANGED <<tables, logged>>
    BY <1>3 DEF Register
  <2>2. /\ accounts' \in [Users -> Passwords \cup {NoPw}]
        /\ query' \in [Procs \cup Conns -> Query \cup {NoQuery}]
        /\ \A a \in Procs \cup Conns : /\ (RowInv(query[a]))'
                                       /\ query[a] \in Query => query'[a] \in Query
    BY <1>1, <2>1, WitnessedKeeps
  <2>3. TypeOK' /\ \A r \in Procs : pc'[r] = "write" => r \in Clis /\ query'[r] \in Query
    BY <1>1, <2>1, <2>2 DEF AInv, TypeOK, QueryInv, Pcs
  <2>4. Knower
    BY <1>1, <2>1 DEF Knower, Store, CanInsert, AInv, TypeOK
  <2>5. QED BY <2>1, <2>2, <2>3, <2>4 DEF AInv, QueryInv, Authed
<1>4. QED BY <1>2, <1>3

(* SELECT finds a row and remembers it.                                    *)
LEMMA ReadsKeeps ==
  ASSUME AInv, NEW a \in Procs \cup Conns, NEW u \in Users, NEW offered \in Passwords,
         NEW new \in Passwords, accounts[u] # NoPw, Reads(a, u, offered, new),
         UNCHANGED accounts
  PROVE  /\ query' \in [Procs \cup Conns -> Query \cup {NoQuery}]
         /\ \A b \in Procs \cup Conns : (RowInv(query[b]))'
         /\ query'[a] \in Query
         /\ \A b \in Procs \cup Conns : b # a => query'[b] = query[b]
<1> DEFINE q == [user |-> u, offered |-> offered, new |-> new,
                 hash |-> accounts[u], valid |-> {accounts[u]}]
<1>1. q \in Query /\ q.hash \in q.valid /\ q.user = u
  BY DEF AInv, TypeOK, Query
<1>2. query' = [query EXCEPT ![a] = q]
  BY DEF Reads
<1> HIDE DEF q
<1>3. QED BY <1>1, <1>2 DEF AInv, TypeOK, QueryInv, RowInv
LEMMA UpdateReadStep ==
  ASSUME AInv, NEW p \in Clis, NEW u \in CliUsers, NEW old \in Passwords, NEW new \in Passwords,
         UpdateRead(p, u, old, new)
  PROVE  AInv' /\ Knower /\ Authed
<1>1. p \in Procs /\ u \in Users
  BY ActorFacts
<1>2. CASE Exit(p)
  BY <1>1, <1>2, ExitStep
<1>3. CASE ~Exit(p)
  <2>1. /\ accounts[u] # NoPw /\ Reads(p, u, old, new)
        /\ pc' = [pc EXCEPT ![p] = "write"] /\ UNCHANGED <<tables, accounts, logged>>
    BY <1>3 DEF UpdateRead, Goes
  <2>2. /\ query' \in [Procs \cup Conns -> Query \cup {NoQuery}]
        /\ \A b \in Procs \cup Conns : (RowInv(query[b]))'
        /\ query'[p] \in Query
        /\ \A b \in Procs \cup Conns : b # p => query'[b] = query[b]
    <3>1. p \in Procs \cup Conns /\ UNCHANGED accounts
      BY <1>1, <2>1
    <3>2. QED BY <1>1, <2>1, <3>1, ReadsKeeps
  <2>3. TypeOK'
    BY <1>1, <2>1, <2>2 DEF AInv, TypeOK, Pcs
  <2>4. \A r \in Procs : pc'[r] = "write" => r \in Clis /\ query'[r] \in Query
    BY <1>1, <2>1, <2>2 DEF AInv, TypeOK, QueryInv
  <2>5. QED BY <2>1, <2>2, <2>3, <2>4 DEF AInv, QueryInv, Knower, Authed
<1>4. QED BY <1>2, <1>3

LEMMA UpdateWriteStep ==
  ASSUME AInv, NEW p \in Procs, UpdateWrite(p)
  PROVE  AInv' /\ Knower /\ Authed
<1> DEFINE q == query[p]
<1>1. p \in Clis /\ q \in Query /\ q.hash \in q.valid
  BY DEF UpdateWrite, AInv, QueryInv, RowInv
<1>2. q.user \in Users /\ q.new \in Passwords
  BY <1>1 DEF Query
<1>3. CASE Exit(p)
  BY <1>3, ExitStep
<1>4. CASE ~Exit(p)
  <2>1. /\ q.offered = q.hash /\ Store(q.user, q.new)
        /\ query' = [a \in Procs \cup Conns |-> IF a = p THEN NoQuery ELSE Seen(query[a])]
        /\ pc' = [pc EXCEPT ![p] = "down"] /\ UNCHANGED <<tables, logged>>
    BY <1>4 DEF UpdateWrite, Verify, Goes
  <2>2. /\ accounts' \in [Users -> Passwords \cup {NoPw}]
        /\ query' \in [Procs \cup Conns -> Query \cup {NoQuery}]
        /\ \A a \in Procs \cup Conns : /\ (RowInv(query[a]))'
                                       /\ a # p /\ query[a] \in Query => query'[a] \in Query
    <3> DEFINE gone == {p}
    <3>1. \A a : a \in gone <=> a = p
      OBVIOUS
    <3> HIDE DEF gone
    <3>2. query' = [a \in Procs \cup Conns |-> IF a \in gone THEN NoQuery ELSE Seen(query[a])]
      BY <2>1, <3>1
    <3> HIDE DEF q
    <3>3. QED BY <1>2, <2>1, <3>1, <3>2, StoreKeeps
  <2>3. TypeOK' /\ \A r \in Procs : pc'[r] = "write" => r \in Clis /\ query'[r] \in Query
    BY <2>1, <2>2 DEF AInv, TypeOK, QueryInv, Pcs
  <2>4. Knower
    BY <1>1, <1>2, <2>1 DEF Knower, Store, AInv, TypeOK
  <2>5. QED BY <2>1, <2>2, <2>3, <2>4 DEF AInv, QueryInv, Authed
<1>5. QED BY <1>3, <1>4

LEMMA ConnStep ==
  ASSUME AInv, NEW c \in Conns,
         LoginVerify(c) \/ Leave(c) \/ \E u \in Users, w \in Passwords : Login(c, u, w)
  PROVE  AInv' /\ Knower /\ Authed
<1>1. c \notin Procs /\ query[c] \in Query \cup {NoQuery} /\ RowInv(query[c])
  BY ActorFacts DEF AInv, TypeOK, QueryInv
<1>2. UNCHANGED <<tables, accounts, pc>>
  BY DEF LoginVerify, Leave, Login
<1>3. CASE LoginVerify(c)
  <2>1. /\ query' = [query EXCEPT ![c] = NoQuery]
        /\ logged' = [logged EXCEPT ![c] = IF query[c].offered = query[c].hash
                                           THEN query[c].user ELSE NoUser]
        /\ query[c] \in Query
    BY <1>1, <1>3 DEF LoginVerify, Verify
  <2>2. query[c].user \in Users /\ query[c].hash \in query[c].valid
    BY <1>1, <2>1 DEF RowInv, Query
  <2>3. TypeOK'
    BY <1>2, <2>1, <2>2 DEF AInv, TypeOK
  <2>4. QueryInv'
    BY <1>1, <1>2, <2>1, QueryFacts DEF AInv, TypeOK, QueryInv, RowInv
  <2>5. Authed
    BY <2>1, <2>2 DEF Authed, AInv, TypeOK
  <2>6. QED BY <1>2, <2>3, <2>4, <2>5 DEF AInv, Knower
<1>4. CASE Leave(c)
  <2>1. UNCHANGED query /\ logged' = [logged EXCEPT ![c] = NoUser]
    BY <1>4 DEF Leave
  <2>2. AInv'
    BY <1>2, <2>1 DEF AInv, TypeOK, QueryInv, RowInv
  <2>3. QED BY <1>2, <2>1, <2>2 DEF AInv, TypeOK, Knower, Authed
<1>5. ASSUME NEW u \in Users, NEW w \in Passwords, Login(c, u, w)
      PROVE  AInv' /\ Knower /\ Authed
  <2>1. accounts[u] # NoPw /\ Reads(c, u, w, w) /\ UNCHANGED logged
    BY <1>5 DEF Login
  <2>2. /\ query' \in [Procs \cup Conns -> Query \cup {NoQuery}]
        /\ \A b \in Procs \cup Conns : (RowInv(query[b]))'
        /\ \A b \in Procs \cup Conns : b # c => query'[b] = query[b]
    <3>1. c \in Procs \cup Conns /\ UNCHANGED accounts
      BY <1>2
    <3>2. QED BY <2>1, <3>1, ReadsKeeps
  <2>3. TypeOK' /\ QueryInv'
    BY <1>1, <1>2, <2>1, <2>2 DEF AInv, TypeOK, QueryInv
  <2>4. QED BY <1>2, <2>1, <2>3 DEF AInv, Knower, Authed
<1>6. QED BY <1>3, <1>4, <1>5

LEMMA AStep ==
  ASSUME AInv, [Next]_vars
  PROVE  AInv' /\ [Knower /\ Authed]_vars
<1>1. CASE UNCHANGED vars
  BY <1>1 DEF vars, AInv, TypeOK, QueryInv, RowInv
<1>2. ASSUME NEW p \in Procs, Start(p) \/ Kill(p) \/ Initialize(p) \/ UpdateWrite(p)
      PROVE  AInv' /\ Knower /\ Authed
  <2>1. CASE Start(p)
    <3>1. tables' \subseteq Tables /\ "check_users" \in Pcs \ {"write"}
      BY <2>1 DEF Start, AInv, TypeOK, Pcs
    <3>2. QED BY <2>1, <3>1, GoesStep DEF Start
  <2>2. CASE Kill(p)
    BY <2>2, EndsKeeps DEF Kill, Knower, Authed
  <2>3. QED BY <1>2, <2>1, <2>2, InitializeStep, UpdateWriteStep
<1>3. CASE Next
  BY <1>2, <1>3, RegisterStep, UpdateReadStep, ConnStep DEF Next
<1>4. QED BY <1>1, <1>3

LEMMA AInvInvariant == Spec => []AInv
<1>1. Init => AInv
  BY QueryFacts, ActorFacts DEF Init, AInv, TypeOK, QueryInv, RowInv, Pcs, Tables
<1>2. AInv /\ [Next]_vars => AInv'
  BY AStep
<1>3. QED BY <1>1, <1>2, PTL DEF Spec

(* The database file and the processes on it keep their types, and what a  *)
(* process has read is a row (database.rs:38-91, auth.rs:50-98).           *)
THEOREM TypeCorrect == Spec => []TypeOK
<1>1. AInv => TypeOK
  BY DEF AInv
<1>2. QED BY <1>1, AInvInvariant, PTL

(* No number of registrations, initialisations, updates and kills changes  *)
(* the password of an account but an update-password that offered one of   *)
(* the passwords it had since its row was read (auth.rs:51-59, 78-97).     *)
THEOREM ChangedByKnowerTheorem == Spec => ChangedByKnower
<1>1. AInv /\ [Next]_vars =>
        [\A u \in Users :
           accounts[u] # NoPw /\ accounts'[u] # accounts[u] =>
             \E p \in Clis : /\ query[p].user = u /\ accounts'[u] = query[p].new
                             /\ query[p].offered \in query[p].valid]_vars
  BY AStep DEF Knower
<1>2. QED BY <1>1, AInvInvariant, PTL DEF Spec, ChangedByKnower

(* A connection is authed only by a password that was its user's between   *)
(* the SELECT and the verify (auth.rs:60-71).                              *)
THEOREM AuthedByPasswordTheorem == Spec => AuthedByPassword
<1>1. AInv /\ [Next]_vars =>
        [\A c \in Conns :
           logged'[c] \notin {logged[c], NoUser} =>
             logged'[c] = query[c].user /\ query[c].offered \in query[c].valid]_vars
  BY AStep DEF Authed
<1>2. QED BY <1>1, AInvInvariant, PTL DEF Spec, AuthedByPassword
-----------------------------------------------------------------------------
(* Who completes the file.                                                 *)

\* What a step of AbandonedForGood says.
Deserted ==
  /\ Abandoned => Abandoned'
  /\ ~Abandoned /\ Abandoned' =>
       \E p \in Procs : Completing(p) /\ (pc'[p] = "killed" \/ AdminTaken)

(* Who knows a password leaves another one: no account goes away.          *)
LEMMA AccountsStay ==
  ASSUME AInv, Knower
  PROVE  \A u \in Users : accounts[u] # NoPw => accounts'[u] # NoPw
<1>1. ASSUME NEW p \in Clis, query[p].user \in Users PROVE query[p].new \in Passwords
  <2>1. query[p] \in Query \cup {NoQuery}
    BY ActorFacts DEF AInv, TypeOK
  <2>2. query[p] # NoQuery
    BY <1>1, QueryFacts, AccountsAssumption
  <2>3. QED BY <2>1, <2>2 DEF Query
<1>2. QED BY <1>1, ActorFacts DEF Knower

(* One process goes on from where it was.                                  *)
LEMMA CompletingMoves ==
  ASSUME TypeOK, NEW p \in Procs, NEW next, pc' = [pc EXCEPT ![p] = next]
  PROVE  /\ pc'[p] = next
         /\ Completing(p)' <=> next \in {"insert_admin", "check_logs", "create_logs"}
         /\ \A q \in Procs : q # p => (Completing(q)' <=> Completing(q)) /\ pc'[q] = pc[q]
  BY DEF TypeOK, Completing

(* A step that creates no table and after which no other process completes *)
(* the file than before.                                                   *)
LEMMA QuietStep ==
  ASSUME OneCompletes, UNCHANGED tables, accounts[Admin] # NoPw => accounts'[Admin] # NoPw,
         \A q \in Procs :
           Completing(q)' => Completing(q) /\ (pc'[q] = pc[q] \/ accounts'[Admin] # NoPw)
  PROVE  OneCompletes' /\ (Abandoned => Abandoned')
<1>1. OneCompletes'
  BY DEF OneCompletes
<1>2. Abandoned => Abandoned'
  BY DEF Abandoned
<1>3. QED BY <1>1, <1>2

(* If moreover every process that completed it does so still.              *)
LEMMA OnwardStep ==
  ASSUME OneCompletes, UNCHANGED tables, accounts[Admin] # NoPw => accounts'[Admin] # NoPw,
         \A q \in Procs :
           /\ Completing(q)' <=> Completing(q)
           /\ Completing(q) => pc'[q] = pc[q] \/ accounts'[Admin] # NoPw
  PROVE  OneCompletes' /\ Deserted
<1>1. OneCompletes' /\ (Abandoned => Abandoned')
  BY QuietStep
<1>2. Abandoned' => Abandoned
  BY DEF Abandoned
<1>3. QED BY <1>1, <1>2 DEF Deserted

(* One process goes on, at the same statements as the others and itself    *)
(* before, or past the insertion.                                          *)
LEMMA GoesOnStep ==
  ASSUME OneCompletes, TypeOK, UNCHANGED tables, NEW p \in Procs, NEW next,
         accounts[Admin] # NoPw => accounts'[Admin] # NoPw,
         pc' = [pc EXCEPT ![p] = next],
         Completing(p) <=> next \in {"insert_admin", "check_logs", "create_logs"},
         Completing(p) => accounts'[Admin] # NoPw
  PROVE  OneCompletes' /\ Deserted
<1>1. /\ Completing(p)' <=> Completing(p)
      /\ \A q \in Procs : q # p => (Completing(q)' <=> Completing(q)) /\ pc'[q] = pc[q]
  BY CompletingMoves
<1>2. QED BY <1>1, OnwardStep

(* A process ends that is not completing the file, or is killed, or finds  *)
(* the name admin taken.                                                   *)
LEMMA EndStep ==
  ASSUME OneCompletes, TypeOK, NEW p \in Procs, NEW as \in {"down", "killed"}, Ends(p, as),
         UNCHANGED <<tables, accounts>>, Completing(p) => as = "killed" \/ AdminTaken
  PROVE  OneCompletes' /\ Deserted
<1>1. pc' = [pc EXCEPT ![p] = as]
  BY DEF Ends, Goes
<1>2. /\ pc'[p] = as /\ ~Completing(p)'
      /\ \A q \in Procs : q # p => (Completing(q)' <=> Completing(q)) /\ pc'[q] = pc[q]
  BY <1>1, CompletingMoves
<1>3. OneCompletes' /\ (Abandoned => Abandoned')
  BY <1>2, QuietStep
<1>4. CASE Completing(p)
  BY <1>2, <1>3, <1>4 DEF Deserted
<1>5. CASE ~Completing(p)
  BY <1>1, <1>5, GoesOnStep
<1>6. QED BY <1>4, <1>5

(* CREATE TABLE Users succeeds for one process, and nobody was at work.    *)
LEMMA CreateUsersStep ==
  ASSUME OneCompletes, TypeOK, NEW p \in Procs, CreateUsers(p)
  PROVE  OneCompletes' /\ Deserted
<1>1. ~Completing(p)
  BY DEF CreateUsers, Completing
<1>2. CASE "Users" \in tables
  BY <1>1, <1>2, EndStep DEF CreateUsers, Create, Exit
<1>3. CASE "Users" \notin tables
  <2>1. /\ tables' = tables \cup {"Users"} /\ pc' = [pc EXCEPT ![p] = "insert_admin"]
        /\ UNCHANGED accounts
    BY <1>3 DEF CreateUsers, Create, Goes
  <2>2. "AuditLogs" \notin tables /\ \A q \in Procs : ~Completing(q)
    BY <1>3 DEF OneCompletes
  <2>3. /\ Completing(p)' /\ pc'[p] = "insert_admin"
        /\ \A q \in Procs : Completing(q)' => q = p
    BY <2>1, <2>2, CompletingMoves
  <2>4. OneCompletes'
    BY <2>1, <2>2, <2>3 DEF OneCompletes
  <2>5. ~Abandoned /\ ~Abandoned'
    BY <1>3, <2>3 DEF Abandoned
  <2>6. QED BY <2>4, <2>5 DEF Deserted
<1>4. QED BY <1>2, <1>3

(* The one that completes the file finds no AuditLogs.                     *)
LEMMA CreateLogsStep ==
  ASSUME OneCompletes, TypeOK, NEW p \in Procs, CreateLogs(p)
  PROVE  OneCompletes' /\ Deserted
<1>1. /\ Completing(p) /\ "Users" \in tables /\ "AuditLogs" \notin tables
      /\ accounts[Admin] # NoPw /\ \A q \in Procs : Completing(q) => q = p
  BY DEF CreateLogs, Completing, OneCompletes
<1>2. /\ tables' = tables \cup {"AuditLogs"} /\ pc' = [pc EXCEPT ![p] = "ready"]
      /\ UNCHANGED accounts
  BY <1>1 DEF CreateLogs, Create, Goes
<1>3. \A q \in Procs : ~Completing(q)'
  BY <1>1, <1>2, CompletingMoves
<1>4. OneCompletes'
  BY <1>1, <1>2, <1>3 DEF OneCompletes
<1>5. ~Abandoned /\ ~Abandoned'
  BY <1>1, <1>2 DEF Abandoned
<1>6. QED BY <1>4, <1>5 DEF Deserted

LEMMA CompletionStep ==
  ASSUME OneCompletes, TypeOK, NEW p \in Procs, Initialize(p),
         accounts[Admin] # NoPw => accounts'[Admin] # NoPw
  PROVE  OneCompletes' /\ Deserted
<1>1. CASE CheckUsers(p)
  BY <1>1, GoesOnStep DEF CheckUsers, Goes, Completing
<1>2. CASE InsertAdmin(p)
  <2>1. Completing(p)
    BY <1>2 DEF InsertAdmin, Completing
  <2>2. CASE CanInsert(Admin)
    <3>1. /\ Store(Admin, AdminPassword) /\ UNCHANGED tables
          /\ pc' = [pc EXCEPT ![p] = "check_logs"]
      BY <1>2, <2>2 DEF InsertAdmin, Goes
    <3>2. accounts'[Admin] # NoPw
      BY <3>1, ActorFacts DEF TypeOK, Store
    <3>3. QED BY <2>1, <3>1, <3>2, GoesOnStep
  <2>3. CASE ~CanInsert(Admin)
    <3>1. Exit(p) /\ AdminTaken
      BY <1>2, <2>3 DEF InsertAdmin, CanInsert, AdminTaken
    <3>2. QED BY <3>1, EndStep DEF Exit
  <2>4. QED BY <2>2, <2>3
<1>3. CASE CheckLogs(p)
  <2>1. Completing(p) /\ "AuditLogs" \notin tables /\ accounts[Admin] # NoPw
    BY <1>3 DEF CheckLogs, Completing, OneCompletes
  <2>2. UNCHANGED tables /\ pc' = [pc EXCEPT ![p] = "create_logs"]
    BY <1>3, <2>1 DEF CheckLogs, Goes
  <2>3. QED BY <2>1, <2>2, GoesOnStep
<1>4. QED BY <1>1, <1>2, <1>3, CreateUsersStep, CreateLogsStep DEF Initialize

(* Processes past initialize_database, and connections.                    *)
LEMMA AuthStep ==
  ASSUME OneCompletes, TypeOK, NEW p \in Procs, accounts[Admin] # NoPw => accounts'[Admin] # NoPw,
         \/ UpdateWrite(p)
         \/ \E u \in CliUsers, w \in Passwords :
              Register(p, u, w) \/ \E old \in Passwords : UpdateRead(p, u, old, w)
  PROVE  OneCompletes' /\ Deserted
<1>1. ~Completing(p)
  BY DEF UpdateWrite, Register, UpdateRead, Completing
<1>2. CASE Exit(p)
  BY <1>1, <1>2, EndStep DEF Exit
<1>3. CASE ~Exit(p)
  <2>1. UNCHANGED tables /\ \E next \in {"down", "write"} : pc' = [pc EXCEPT ![p] = next]
    BY <1>3 DEF UpdateWrite, Register, UpdateRead, Goes
  <2>2. QED BY <1>1, <2>1, GoesOnStep
<1>4. QED BY <1>2, <1>3

LEMMA OneCompletesStep ==
  ASSUME AInv, OneCompletes, [Next]_vars
  PROVE  OneCompletes' /\ [Deserted]_vars
<1>1. CASE UNCHANGED vars
  BY <1>1 DEF vars, OneCompletes, Completing
<1>2. CASE Next /\ ~UNCHANGED vars
  <2>1. Knower
    BY <1>2, AStep
  <2>2. TypeOK /\ (accounts[Admin] # NoPw => accounts'[Admin] # NoPw)
    BY <2>1, AccountsStay, ActorFacts DEF AInv
  <2>3. ASSUME NEW p \in Procs, Start(p) \/ Kill(p) PROVE OneCompletes' /\ Deserted
    <3>1. CASE Start(p)
      BY <2>2, <3>1, GoesOnStep DEF Start, Up, Goes, Completing
    <3>2. CASE Kill(p)
      BY <2>2, <3>2, EndStep DEF Kill
    <3>3. QED BY <2>3, <3>1, <3>2
  <2>4. ASSUME NEW c \in Conns,
               LoginVerify(c) \/ Leave(c) \/ \E u \in Users, w \in Passwords : Login(c, u, w)
        PROVE  OneCompletes' /\ Deserted
    <3>1. UNCHANGED <<tables, accounts, pc>>
      BY <2>4 DEF LoginVerify, Leave, Login
    <3>2. QED BY <2>2, <3>1, OnwardStep DEF Completing
  <2>5. QED BY <1>2, <2>2, <2>3, <2>4, CompletionStep, AuthStep, ActorFacts DEF Next
<1>3. QED BY <1>1, <1>2

LEMMA OneCompletesInvariant == Spec => [](AInv /\ OneCompletes)
<1>1. Init => OneCompletes
  BY ActorFacts DEF Init, OneCompletes, Completing, Tables
<1>2. AInv /\ OneCompletes /\ [Next]_vars => OneCompletes'
  BY OneCompletesStep
<1>3. QED BY <1>1, <1>2, AInvInvariant, PTL DEF Spec

(* Of any number of processes that find no database at once, one completes *)
(* the file, and no CREATE TABLE AuditLogs fails (database.rs:38-91).      *)
THEOREM OneCompletesTheorem == Spec => []OneCompletes
  BY OneCompletesInvariant, PTL

(* A file is abandoned only by the process that completes it, killed or    *)
(* finding the name admin taken, and then for good (database.rs:44-46).    *)
THEOREM AbandonedForGoodTheorem == Spec => AbandonedForGood
<1>1. AInv /\ OneCompletes /\ [Next]_vars =>
        [/\ Abandoned => Abandoned'
         /\ ~Abandoned /\ Abandoned' =>
              \E p \in Procs : Completing(p) /\ (pc'[p] = "killed" \/ AdminTaken)]_vars
  BY OneCompletesStep DEF Deserted
<1>2. QED BY <1>1, OneCompletesInvariant, PTL DEF Spec, AbandonedForGood
=============================================================================
