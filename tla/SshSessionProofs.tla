-------------------------- MODULE SshSessionProofs --------------------------
(* Theorems about the server's connections and tasks, for any number of    *)
(* them, any pool and any users.                                           *)
EXTENDS SshSession, FiniteSetTheorems, TLAPS

\* A connection is in a handler while it is open, at authenticate before and at
\* subsystem_request after it is authed, and has tasks only after.
ConnInv(c) ==
  /\ ssh[c].authed => ssh[c].open /\ ssh[c].username \in Users
  /\ ssh[c].open /\ ~ssh[c].authed => \A ch \in Chans : sftp[<<c, ch>>] = NoUser
  /\ call[c].at \notin {"wait_record", "record", "answer"}
  /\ call[c].at # "idle" => ssh[c].open
  /\ call[c].at \in {"wait_note", "note"} =>
       IF call[c].chan = NoChan THEN ~ssh[c].authed /\ call[c].user \in Users
                                ELSE ssh[c].authed
  /\ call[c].at \in {"wait_select", "select"} => ~ssh[c].authed /\ call[c].user \in Users
  /\ call[c].at = "work" => ssh[c].authed /\ call[c].chan \in Chans

\* In the table or printed.
Recorded(i) == i \in printed \cup {r.deed : r \in rows}

\* A task in a handler runs, and what it is about to record was done for the
\* user its connection proved to be; what it is about to answer is recorded if
\* it is to be.
TaskInv(t) ==
  /\ call[t].at \notin {"wait_select", "select"}
  /\ call[t].at # "idle" => Running(t)
  /\ call[t].at \in {"wait_record", "record", "answer"} => call[t].deed \in DOMAIN deeds
  /\ call[t].at \in {"wait_record", "record"} =>
       deeds[call[t].deed].logged /\ deeds[call[t].deed].user = principal[t[1]]
  /\ call[t].at = "answer" /\ deeds[call[t].deed].logged => Recorded(call[t].deed)

IInv ==
  /\ TypeOK /\ HoldersUse /\ ActsAsProven /\ ToldOkIsRecorded
  /\ \A c \in Conns : ConnInv(c)
  /\ \A t \in Tasks : TaskInv(t)
  /\ \A r \in rows : r.deed \in DOMAIN deeds

\* A task is not a connection.
LEMMA TaskNoConn == \A t \in Tasks : t \in Threads /\ t \notin Conns /\ t[1] \in Conns
  BY SshAssumption DEF Tasks, Threads

LEMMA TaskPair == \A t \in Tasks : \E c \in Conns, ch \in Chans : t = <<c, ch>>
  BY DEF Tasks

LEMMA IdleType == Idle \in Call /\ Idle.at = "idle" /\ Closed \in Ssh
  BY SshAssumption DEF Idle, Call, Closed, Ssh, Waits, Uses

LEMMA InitInv == Init => IInv
  BY IdleType, SshAssumption, TaskNoConn
  DEF Init, IInv, TypeOK, HoldersUse, ActsAsProven, ToldOkIsRecorded,
      ConnInv, TaskInv, Running, Tasks, Threads, Closed, Ssh, Idle, Uses, Waits

\* What a wait becomes, and records that keep their type.
LEMMA GrantedUses ==
  /\ Granted("wait_note") = "note"
  /\ Granted("wait_select") = "select"
  /\ Granted("wait_record") = "record"
  BY DEF Granted

LEMMA CallAt == ASSUME NEW k \in Call, NEW stage \in Waits \cup Uses \cup {"idle", "work", "answer"}
PROVE  [k EXCEPT !.at = stage] \in Call
  BY DEF Call

\* A thread that has no connection of the pool leaves its handler.
LEMMA RestsInv == ASSUME IInv, NEW t \in Threads, call[t].at \notin Uses, Rests(t),
                         UNCHANGED <<audit, ssh, sftp, principal, deeds, answered>>
PROVE  IInv'
<1>1. TypeOK'
  BY IdleType DEF IInv, TypeOK, Rests, audit
<1>2. HoldersUse'
  BY IdleType DEF IInv, HoldersUse, TypeOK, Rests, audit, Uses
<1>3. /\ ActsAsProven' /\ ToldOkIsRecorded'
      /\ (\A r \in rows : r.deed \in DOMAIN deeds)'
  BY DEF IInv, ActsAsProven, ToldOkIsRecorded, audit
<1>4. (\A c \in Conns : ConnInv(c))'
  BY IdleType DEF IInv, ConnInv, TypeOK, Rests, Threads
<1>5. (\A k \in Tasks : TaskInv(k))'
  BY IdleType DEF IInv, TaskInv, TypeOK, Rests, Threads, Running, Recorded, audit
<1>. QED  BY <1>1, <1>2, <1>3, <1>4, <1>5 DEF IInv

\* A thread that has no connection of the pool dies.
LEMMA DiesInv == ASSUME IInv, NEW t \in Threads, call[t].at \notin Uses, Dies(t),
                        UNCHANGED <<audit, principal, deeds, answered>>
PROVE  IInv'
<1>0. call' = [call EXCEPT ![t] = Idle]
  BY DEF Dies, Rests
<1>1. /\ ssh' \in [Conns -> Ssh] /\ sftp' \in [Tasks -> Users \cup {NoUser}]
      /\ \A c \in Conns : ssh'[c] = IF c = t THEN Closed ELSE ssh[c]
      /\ \A k \in Tasks : sftp'[k] = IF k = t THEN NoUser ELSE sftp[k]
  <2>1. CASE t \in Conns /\ ssh' = [ssh EXCEPT ![t] = Closed] /\ UNCHANGED sftp
    BY <2>1, IdleType, TaskNoConn DEF IInv, TypeOK
  <2>2. CASE t \in Tasks /\ sftp' = [sftp EXCEPT ![t] = NoUser] /\ UNCHANGED ssh
    BY <2>2, IdleType, TaskNoConn DEF IInv, TypeOK
  <2>. QED  BY <2>1, <2>2 DEF Dies
<1>2. TypeOK'
  BY <1>0, <1>1, IdleType DEF IInv, TypeOK, audit
<1>3. HoldersUse'
  BY <1>0, IdleType DEF IInv, HoldersUse, TypeOK, audit, Uses
<1>4. ActsAsProven'
  BY <1>1, SshAssumption DEF IInv, ActsAsProven, TypeOK, Closed, Tasks
<1>5. ToldOkIsRecorded' /\ (\A r \in rows : r.deed \in DOMAIN deeds)'
  BY DEF IInv, ToldOkIsRecorded, audit
<1>6. ASSUME NEW c \in Conns PROVE ConnInv(c)'
  <2>1. CASE c = t
    BY <2>1, <1>0, <1>1, IdleType DEF IInv, ConnInv, TypeOK, Closed, Threads
  <2>2. CASE c # t
    BY <2>2, <1>0, <1>1 DEF IInv, ConnInv, TypeOK, Threads, Tasks
  <2>. QED  BY <2>1, <2>2
<1>7. ASSUME NEW k \in Tasks PROVE TaskInv(k)'
  BY <1>0, <1>1, IdleType, TaskNoConn DEF IInv, TaskInv, TypeOK, Running, Recorded, audit
<1>. QED  BY <1>2, <1>3, <1>4, <1>5, <1>6, <1>7 DEF IInv

\* Pool::get.
LEMMA GetInv == ASSUME IInv, NEW t \in Threads, Get(t)
PROVE  IInv'
<1>1. TypeOK'
  <2>1. Granted(call[t].at) \in Uses
    BY GrantedUses DEF Get, Waits, Uses
  <2>2. call' \in [Threads -> Call]
    BY <2>1, CallAt DEF IInv, TypeOK, Get, Goes
  <2>. QED  BY <2>2 DEF IInv, TypeOK, Get, Takes
<1>2. HoldersUse'
  BY DEF IInv, Get, Goes, Takes, Granted, HoldersUse, TypeOK, Uses, Waits
<1>3. ActsAsProven'
  BY DEF IInv, Get, ActsAsProven
<1>5. ToldOkIsRecorded' /\ (\A r \in rows : r.deed \in DOMAIN deeds)'
  BY DEF IInv, Get, ToldOkIsRecorded
<1>6. (\A c \in Conns : ConnInv(c))'
  BY DEF IInv, Get, Goes, Granted, ConnInv, Waits
<1>7. (\A k \in Tasks : TaskInv(k))'
  BY DEF IInv, Get, Goes, Granted, TaskInv, Running, Waits, Recorded, audit
<1>. QED  BY <1>1, <1>2, <1>3, <1>5, <1>6, <1>7 DEF IInv

\* A wait that ends in an error.
LEMMA TimeOutInv == ASSUME IInv, NEW t \in Threads, TimeOut(t)
PROVE  IInv'
<1>1. CASE Rests(t) /\ UNCHANGED <<ssh, sftp>>
  BY <1>1, RestsInv DEF TimeOut, Waits, Uses, audit
<1>2. CASE Dies(t)
  BY <1>2, DiesInv DEF TimeOut, Waits, Uses
<1>. QED  BY <1>1, <1>2 DEF TimeOut

\* An event without a record.
LEMMA NotedInv == ASSUME IInv, NEW t \in Threads, Noted(t)
PROVE  IInv'
<1>1. TypeOK'
  BY TaskNoConn, IdleType
    DEF IInv, Noted, Goes, audit, Returns, AfterNote, TypeOK, Ssh, Call, Idle, Closed,
        Waits, Uses, ConnInv, TaskInv
<1>2. HoldersUse'
  BY DEF IInv, Noted, Goes, Returns, AfterNote, HoldersUse, TypeOK, Uses
<1>3. ActsAsProven'
  BY DEF IInv, Noted, ActsAsProven
<1>5. ToldOkIsRecorded' /\ (\A r \in rows : r.deed \in DOMAIN deeds)'
  BY DEF IInv, Noted, ToldOkIsRecorded
<1>6. (\A c \in Conns : ConnInv(c))'
  BY DEF IInv, Noted, Goes, AfterNote, ConnInv, TypeOK, Call
<1>7. (\A k \in Tasks : TaskInv(k))'
  BY TaskNoConn DEF IInv, Noted, Goes, AfterNote, TaskInv, Running, Recorded, audit
<1>. QED  BY <1>1, <1>2, <1>3, <1>5, <1>6, <1>7 DEF IInv

\* new_client.
LEMMA NewClientInv == ASSUME IInv, NEW c \in Conns, NewClient(c)
PROVE  IInv'
<1>1. TypeOK'
  <2>1. ssh' \in [Conns -> Ssh]
    BY DEF IInv, TypeOK, NewClient, Ssh
  <2>. QED  BY <2>1 DEF IInv, TypeOK, NewClient, audit
<1>2. HoldersUse'
  BY TaskNoConn, IdleType DEF IInv, NewClient, audit, HoldersUse, TypeOK, Uses, Waits, Idle
<1>3. ActsAsProven'
  BY DEF IInv, NewClient, ActsAsProven, ConnInv
<1>5. ToldOkIsRecorded' /\ (\A r \in rows : r.deed \in DOMAIN deeds)'
  BY TaskNoConn, IdleType DEF IInv, NewClient, audit, ToldOkIsRecorded, TypeOK, TaskInv, Call
<1>6. (\A d \in Conns : ConnInv(d))'
  BY DEF IInv, NewClient, ConnInv
<1>7. (\A k \in Tasks : TaskInv(k))'
  BY DEF IInv, NewClient, TaskInv, Running, Tasks, Recorded, audit
<1>. QED  BY <1>1, <1>2, <1>3, <1>5, <1>6, <1>7 DEF IInv

\* The client leaves.
LEMMA LeaveInv == ASSUME IInv, NEW c \in Conns, Leave(c)
PROVE  IInv'
<1>1. TypeOK'
  BY IdleType DEF IInv, Leave, audit, TypeOK
<1>2. HoldersUse'
  BY TaskNoConn, IdleType DEF IInv, Leave, audit, HoldersUse, TypeOK, Uses, Waits, Idle
<1>3. ActsAsProven'
  BY DEF IInv, Leave, ActsAsProven, Closed
<1>5. ToldOkIsRecorded' /\ (\A r \in rows : r.deed \in DOMAIN deeds)'
  BY TaskNoConn, IdleType DEF IInv, Leave, audit, ToldOkIsRecorded, TypeOK, TaskInv, Call
<1>6. (\A d \in Conns : ConnInv(d))'
  BY IdleType DEF IInv, Leave, ConnInv, Closed
<1>7. (\A k \in Tasks : TaskInv(k))'
  BY DEF IInv, Leave, TaskInv, Running, Recorded, audit
<1>. QED  BY <1>1, <1>2, <1>3, <1>5, <1>6, <1>7 DEF IInv

\* auth_password begins.
LEMMA AuthPasswordInv ==
  ASSUME IInv, NEW c \in Conns, NEW u \in Users, NEW right \in BOOLEAN,
         AuthPassword(c, u, right)
PROVE  IInv'
<1>1. TypeOK'
  BY IdleType DEF IInv, AuthPassword, audit, TypeOK, Call, Waits
<1>2. HoldersUse'
  BY TaskNoConn, IdleType DEF IInv, AuthPassword, audit, HoldersUse, TypeOK, Uses, Waits, Idle
<1>3. ActsAsProven'
  BY DEF IInv, AuthPassword, ActsAsProven
<1>5. ToldOkIsRecorded' /\ (\A r \in rows : r.deed \in DOMAIN deeds)'
  BY TaskNoConn, IdleType DEF IInv, AuthPassword, audit, ToldOkIsRecorded, TypeOK, TaskInv, Call
<1>6. (\A d \in Conns : ConnInv(d))'
  BY DEF IInv, AuthPassword, ConnInv, Idle
<1>7. (\A k \in Tasks : TaskInv(k))'
  BY TaskNoConn DEF IInv, AuthPassword, TaskInv, Running, Recorded, audit
<1>. QED  BY <1>1, <1>2, <1>3, <1>5, <1>6, <1>7 DEF IInv

\* authenticate.
LEMMA AuthenticateInv == ASSUME IInv, NEW c \in Conns, Authenticate(c)
PROVE  IInv'
<1>1. TypeOK'
  <2>1. call[c].user \in Users
    BY DEF IInv, ConnInv, Authenticate
  <2>2. ssh' \in [Conns -> Ssh]
    <3>1. ssh[c] \in Ssh
      BY DEF IInv, TypeOK
    <3>2. [ssh[c] EXCEPT !.username = call[c].user, !.authed = TRUE] \in Ssh
      BY <2>1, <3>1 DEF Ssh
    <3>. QED  BY <3>2 DEF IInv, TypeOK, Authenticate
  <2>. QED  BY <2>1, <2>2, IdleType DEF IInv, TypeOK, Authenticate, Returns, Rests
<1>2. HoldersUse'
  BY IdleType DEF IInv, Authenticate, Rests, Returns, HoldersUse, TypeOK, Uses
<1>3. ActsAsProven'
  BY DEF IInv, Authenticate, ActsAsProven, TypeOK, ConnInv, Ssh
<1>5. ToldOkIsRecorded' /\ (\A r \in rows : r.deed \in DOMAIN deeds)'
  BY DEF IInv, Authenticate, ToldOkIsRecorded
<1>6. ASSUME NEW d \in Conns PROVE ConnInv(d)'
  <2>1. /\ ConnInv(d) /\ d \in Threads /\ c \in Threads /\ call[c].user \in Users
        /\ call' = [call EXCEPT ![c] = Idle] /\ UNCHANGED sftp
    BY DEF IInv, Authenticate, Rests, ConnInv, Threads
  <2>2. \/ ssh' = [ssh EXCEPT ![c].username = call[c].user, ![c].authed = TRUE]
        \/ UNCHANGED ssh
    BY DEF Authenticate
  <2>3. CASE d = c
    <3>1. call'[d].at = "idle" /\ ssh[c].open
      BY <2>1, <2>3, IdleType DEF IInv, TypeOK, Authenticate, ConnInv
    <3>2. ssh'[d].open /\ (ssh'[d].authed => ssh'[d].username \in Users)
      BY <2>1, <2>2, <2>3, <3>1 DEF IInv, TypeOK, Ssh, ConnInv
    <3>3. ssh'[d].authed \/ ssh'[d] = ssh[d]
      BY <2>2, <2>3 DEF IInv, TypeOK, Ssh
    <3>. QED  BY <2>1, <2>3, <3>1, <3>2, <3>3 DEF ConnInv
  <2>4. CASE d # c
    <3>1. call'[d] = call[d] /\ ssh'[d] = ssh[d]
      BY <2>1, <2>2, <2>4 DEF IInv, TypeOK
    <3>. QED  BY <2>1, <3>1 DEF ConnInv
  <2>. QED  BY <2>3, <2>4
<1>7. (\A k \in Tasks : TaskInv(k))'
  BY DEF IInv, Authenticate, Rests, TaskInv, Running, Tasks, ConnInv, Recorded, audit
<1>. QED  BY <1>1, <1>2, <1>3, <1>5, <1>6, <1>7 DEF IInv

\* channel_open_session.
LEMMA ChannelOpenInv == ASSUME IInv, NEW c \in Conns, NEW ch \in Chans, ChannelOpen(c, ch)
PROVE  IInv'
<1>1. TypeOK'
  <2>1. [ssh[c] EXCEPT !.channels = @ \cup {ch}, !.clients = @ \cup {ch}] \in Ssh
    BY DEF IInv, TypeOK, Ssh
  <2>2. ssh' \in [Conns -> Ssh]
    BY <2>1 DEF IInv, TypeOK, ChannelOpen
  <2>. QED  BY <2>2 DEF IInv, TypeOK, ChannelOpen, audit
<1>2. HoldersUse'
  BY TaskNoConn, IdleType DEF IInv, ChannelOpen, audit, HoldersUse, TypeOK, Uses, Waits, Idle
<1>3. ActsAsProven'
  BY DEF IInv, ChannelOpen, ActsAsProven, TypeOK
<1>5. ToldOkIsRecorded' /\ (\A r \in rows : r.deed \in DOMAIN deeds)'
  BY TaskNoConn, IdleType DEF IInv, ChannelOpen, audit, ToldOkIsRecorded, TypeOK, TaskInv, Call
<1>6. (\A d \in Conns : ConnInv(d))'
  BY DEF IInv, ChannelOpen, ConnInv, TypeOK
<1>7. (\A k \in Tasks : TaskInv(k))'
  BY DEF IInv, ChannelOpen, TaskInv, Running, Recorded, audit
<1>. QED  BY <1>1, <1>2, <1>3, <1>5, <1>6, <1>7 DEF IInv

\* The client closes a channel.
LEMMA ChannelCloseInv == ASSUME IInv, NEW c \in Conns, NEW ch \in Chans, ChannelClose(c, ch)
PROVE  IInv'
<1>1. TypeOK'
  <2>1. [ssh[c] EXCEPT !.closed = @ \cup {ch}] \in Ssh
    BY DEF IInv, TypeOK, Ssh
  <2>2. ssh' \in [Conns -> Ssh]
    BY <2>1 DEF IInv, TypeOK, ChannelClose
  <2>. QED  BY <2>2 DEF IInv, TypeOK, ChannelClose, audit
<1>2. HoldersUse'
  BY DEF IInv, ChannelClose, audit, HoldersUse
<1>3. ActsAsProven'
  BY DEF IInv, ChannelClose, ActsAsProven, TypeOK
<1>5. ToldOkIsRecorded' /\ (\A r \in rows : r.deed \in DOMAIN deeds)'
  BY DEF IInv, ChannelClose, audit, ToldOkIsRecorded
<1>6. (\A d \in Conns : ConnInv(d))'
  BY DEF IInv, ChannelClose, ConnInv, TypeOK
<1>7. (\A k \in Tasks : TaskInv(k))'
  BY DEF IInv, ChannelClose, TaskInv, Running, Recorded, audit
<1>. QED  BY <1>1, <1>2, <1>3, <1>5, <1>6, <1>7 DEF IInv

\* subsystem_request begins.
LEMMA SubsystemRequestInv ==
  ASSUME IInv, NEW c \in Conns, NEW ch \in Chans, NEW name \in {"sftp", "other"},
         SubsystemRequest(c, ch, name)
PROVE  IInv'
<1>1. TypeOK'
  BY IdleType DEF IInv, SubsystemRequest, audit, TypeOK, Call, Waits
<1>2. HoldersUse'
  BY TaskNoConn, IdleType
    DEF IInv, SubsystemRequest, audit, HoldersUse, TypeOK, Uses, Waits, Idle
<1>3. ActsAsProven'
  BY DEF IInv, SubsystemRequest, ActsAsProven
<1>5. ToldOkIsRecorded' /\ (\A r \in rows : r.deed \in DOMAIN deeds)'
  BY TaskNoConn, IdleType
    DEF IInv, SubsystemRequest, audit, ToldOkIsRecorded, TypeOK, TaskInv, Call
<1>6. ASSUME NEW d \in Conns PROVE ConnInv(d)'
  <2>1. CASE d = c
    <3>1. /\ call'[c].at = "wait_note" /\ call'[c].chan = ch
      BY IdleType DEF IInv, TypeOK, SubsystemRequest, Idle, Threads
    <3>. QED  BY <2>1, <3>1, SshAssumption DEF IInv, ConnInv, TypeOK, SubsystemRequest
  <2>2. CASE d # c
    BY <2>2 DEF IInv, ConnInv, TypeOK, SubsystemRequest, Threads
  <2>. QED  BY <2>1, <2>2
<1>7. (\A k \in Tasks : TaskInv(k))'
  BY TaskNoConn DEF IInv, SubsystemRequest, TaskInv, Running, Recorded, audit
<1>. QED  BY <1>1, <1>2, <1>3, <1>5, <1>6, <1>7 DEF IInv

\* A subsystem that is not sftp.
LEMMA UnservedInv == ASSUME IInv, NEW c \in Conns, Unserved(c)
PROVE  IInv'
  BY RestsInv DEF Unserved, Uses, Threads, audit

\* The sftp subsystem: the task gets the proven user.
LEMMA SftpInv == ASSUME IInv, NEW c \in Conns, Sftp(c)
PROVE  IInv'
<1>. DEFINE ch == call[c].chan
            t  == <<c, ch>>
<1>1. CASE Dies(c)
  BY <1>1, DiesInv DEF Sftp, Uses, Threads
<1>2. CASE /\ ch \in ssh[c].clients
           /\ ssh' = [ssh EXCEPT ![c].clients = @ \ {ch}]
           /\ sftp' = [sftp EXCEPT ![t] = ssh[c].username]
           /\ Rests(c)
  <2>1. /\ ch \in Chans /\ ssh[c].authed /\ ssh[c].open /\ t \in Tasks
        /\ ssh[c].username \in Users /\ ssh[c].username = principal[c]
    BY DEF IInv, ConnInv, Sftp, Tasks, ActsAsProven
  <2>2. /\ ssh' \in [Conns -> Ssh]
        /\ \A d \in Conns : /\ ssh'[d].authed = ssh[d].authed /\ ssh'[d].open = ssh[d].open
                            /\ ssh'[d].username = ssh[d].username
                            /\ ssh'[d].channels = ssh[d].channels
    BY <1>2, <2>1 DEF IInv, TypeOK, Ssh
  <2>3. TypeOK'
    BY <1>2, <2>1, <2>2, IdleType DEF IInv, TypeOK, Rests, Sftp, audit
  <2>4. HoldersUse'
    BY <1>2, IdleType DEF IInv, HoldersUse, TypeOK, Rests, Sftp, Uses, audit
  <2>5. ActsAsProven'
    BY <1>2, <2>1, <2>2 DEF IInv, ActsAsProven, TypeOK, Sftp, Tasks
  <2>7. ToldOkIsRecorded' /\ (\A r \in rows : r.deed \in DOMAIN deeds)'
    BY DEF IInv, ToldOkIsRecorded, Sftp, audit
  <2>8. ASSUME NEW d \in Conns PROVE ConnInv(d)'
    <3>1. CASE d = c
      BY <3>1, <1>2, <2>1, <2>2, IdleType DEF IInv, ConnInv, TypeOK, Rests, Threads
    <3>2. CASE d # c
      BY <3>2, <1>2, <2>1, <2>2 DEF IInv, ConnInv, TypeOK, Rests, Threads, Tasks
    <3>. QED  BY <3>1, <3>2
  <2>9. ASSUME NEW k \in Tasks PROVE TaskInv(k)'
    BY <1>2, <2>1, TaskNoConn, SshAssumption
    DEF IInv, TaskInv, TypeOK, Rests, Running, Sftp, Recorded, audit
  <2>. QED  BY <2>3, <2>4, <2>5, <2>7, <2>8, <2>9 DEF IInv
<1>. QED  BY <1>1, <1>2 DEF Sftp

\* A request of an SFTP client.
LEMMA RequestInv == ASSUME IInv, NEW t \in Tasks, NEW announced \in BOOLEAN, Request(t, announced)
PROVE  IInv'
<1>1. TypeOK'
  BY IdleType DEF IInv, Request, Goes, audit, TypeOK, Call, Waits
<1>2. HoldersUse'
  BY TaskNoConn, IdleType DEF IInv, Request, Goes, audit, HoldersUse, TypeOK, Uses, Waits, Idle
<1>3. ActsAsProven'
  BY DEF IInv, Request, ActsAsProven
<1>5. ToldOkIsRecorded' /\ (\A r \in rows : r.deed \in DOMAIN deeds)'
  BY TaskNoConn, IdleType
    DEF IInv, Request, Goes, audit, ToldOkIsRecorded, TypeOK, TaskInv, Call
<1>6. (\A c \in Conns : ConnInv(c))'
  BY TaskNoConn DEF IInv, Request, Goes, ConnInv
<1>7. (\A k \in Tasks : TaskInv(k))'
  BY DEF IInv, Request, Goes, TaskInv, Running, Recorded, audit
<1>. QED  BY <1>1, <1>2, <1>3, <1>5, <1>6, <1>7 DEF IInv

\* A handler does its work, to be recorded or, in close, to be answered.
LEMMA AchievesInv ==
  ASSUME IInv, NEW t \in Tasks, NEW logged \in BOOLEAN,
         Achieves(t, logged, IF logged THEN "wait_record" ELSE "answer"), UNCHANGED answered
  PROVE  IInv'
<1>. DEFINE i == Len(deeds) + 1
            stage == IF logged THEN "wait_record" ELSE "answer"
            deed == [user |-> principal[t[1]], logged |-> logged]
<1>1. /\ t \in Threads /\ t \notin Conns /\ call[t] \in Call /\ call[t].at = "work" /\ Running(t)
      /\ deeds \in Seq(Deed) /\ Len(deeds) \in Nat /\ i \in 1..MaxDeeds
  BY TaskNoConn, SshAssumption DEF IInv, TypeOK, TaskInv, Achieves
<1>2. deed \in Deed
  BY <1>1, SshAssumption, TaskPair DEF IInv, Running, ActsAsProven, TypeOK, Deed
<1>3. /\ deeds' = Append(deeds, deed) /\ call' = [call EXCEPT ![t].at = stage, ![t].deed = i]
      /\ UNCHANGED <<audit, ssh, sftp, principal, answered>>
  BY DEF Achieves
<1>. HIDE DEF deed
<1>4. /\ deeds' \in Seq(Deed) /\ Len(deeds') = i /\ DOMAIN deeds' = DOMAIN deeds \cup {i}
      /\ deeds'[i] = deed /\ \A j \in DOMAIN deeds : deeds'[j] = deeds[j]
  BY <1>1, <1>2, <1>3
<1>5. /\ call' \in [Threads -> Call] /\ call'[t].at = stage /\ call'[t].deed = i
      /\ \A u \in Threads \ {t} : call'[u] = call[u]
  <2>0. stage \in Waits \cup {"answer"} /\ i \in 0..MaxDeeds
    BY <1>1 DEF Waits
  <2>. HIDE DEF stage, i
  <2>1. [call[t] EXCEPT !.at = stage, !.deed = i] \in Call
    BY <1>1, <2>0 DEF Call
  <2>. QED  BY <1>1, <1>3, <2>1 DEF IInv, TypeOK, Call
<1>. HIDE DEF i, stage
<1>6. stage \notin Uses /\ stage = IF logged THEN "wait_record" ELSE "answer"
  BY DEF stage, Uses
<1>7. deed.logged = logged /\ deed.user = principal[t[1]]
  BY DEF deed
<1>8. TypeOK'
  BY <1>1, <1>3, <1>4, <1>5 DEF IInv, TypeOK, audit
<1>9. HoldersUse'
  BY <1>1, <1>3, <1>5, <1>6 DEF IInv, HoldersUse, audit, Uses
<1>10. ActsAsProven'
  BY <1>3 DEF IInv, ActsAsProven
<1>11. ToldOkIsRecorded' /\ (\A r \in rows : r.deed \in DOMAIN deeds)'
  BY <1>3, <1>4 DEF IInv, TypeOK, ToldOkIsRecorded, audit
<1>12. ASSUME NEW c \in Conns PROVE ConnInv(c)'
  BY <1>1, <1>3, <1>5 DEF IInv, ConnInv, Threads
<1>13. ASSUME NEW k \in Tasks PROVE TaskInv(k)'
  <2>1. CASE k = t
    BY <1>1, <1>3, <1>4, <1>5, <1>6, <1>7, <2>1 DEF TaskInv, Running
  <2>2. CASE k # t
    <3>1. call'[k] = call[k] /\ TaskInv(k)
      BY <1>5, <2>2, TaskNoConn DEF IInv
    <3>. QED  BY <1>3, <1>4, <3>1 DEF TaskInv, Running, Recorded, audit
  <2>. QED  BY <2>1, <2>2
<1>. QED  BY <1>8, <1>9, <1>10, <1>11, <1>12, <1>13 DEF IInv

LEMMA DoesInv == ASSUME IInv, NEW t \in Tasks, Does(t) \/ Closes(t)
PROVE  IInv'
<1>1. CASE Does(t)
  <2>1. TRUE \in BOOLEAN /\ Achieves(t, TRUE, IF TRUE THEN "wait_record" ELSE "answer")
    BY <1>1 DEF Does
  <2>. QED  BY <1>1, <2>1, AchievesInv DEF Does
<1>2. CASE Closes(t)
  <2>1. FALSE \in BOOLEAN /\ Achieves(t, FALSE, IF FALSE THEN "wait_record" ELSE "answer")
    BY <1>2 DEF Closes
  <2>. QED  BY <1>2, <2>1, AchievesInv DEF Closes
<1>. QED  BY <1>1, <1>2

\* A handler answers with an error, or panics.
LEMMA RefusesInv == ASSUME IInv, NEW t \in Tasks, Refuses(t)
PROVE  IInv'
<1>1. CASE Rests(t) /\ UNCHANGED <<ssh, sftp>>
  BY <1>1, RestsInv, TaskNoConn DEF Refuses, Uses, audit
<1>2. CASE Dies(t)
  BY <1>2, DiesInv, TaskNoConn DEF Refuses, Uses
<1>. QED  BY <1>1, <1>2 DEF Refuses

\* What an insert leaves.
LEMMA InsertRow == ASSUME NEW u, NEW deed, Insert(u, deed)
PROVE  \/ /\ Refers(u)
          /\ rows' = rows \cup {[username |-> AsColumn[u], deed |-> deed]}
          /\ printed' = printed
       \/ rows' = rows /\ printed' = printed \cup {deed}
  BY Zenon DEF Insert

\* on_event with a record.
LEMMA RecordInv == ASSUME IInv, NEW t \in Tasks, Record(t)
PROVE  IInv'
<1>. DEFINE i == call[t].deed
            row == [username |-> AsColumn[sftp[t]], deed |-> i]
<1>1. /\ t \in Threads /\ t \notin Conns /\ call[t] \in Call /\ call[t].at = "record"
      /\ sftp[t] \in Users /\ i \in DOMAIN deeds /\ i \in 1..MaxDeeds
  BY SshAssumption, TaskNoConn DEF IInv, TaskInv, Record, Running, TypeOK
<1>2. \/ /\ Refers(sftp[t]) /\ rows' = rows \cup {row} /\ printed' = printed
      \/ rows' = rows /\ printed' = printed \cup {i}
  <2>1. Insert(sftp[t], i)
    BY DEF Record
  <2>. QED  BY <2>1, InsertRow
<1>3. /\ Returns(t) /\ call' = [call EXCEPT ![t].at = "answer"]
      /\ UNCHANGED <<ssh, sftp, principal, deeds, answered>>
  BY DEF Record, Goes
<1>4. /\ call' \in [Threads -> Call] /\ call'[t].at = "answer" /\ call'[t].deed = i
      /\ \A u \in Threads \ {t} : call'[u] = call[u]
  <2>1. [call[t] EXCEPT !.at = "answer"] \in Call
    BY <1>1, CallAt
  <2>. QED  BY <1>1, <1>3, <2>1 DEF IInv, TypeOK, Call
<1>5. row.deed = i /\ (Refers(sftp[t]) => row.username \in Users)
  BY DEF Refers
<1>. HIDE DEF i, row
<1>6. /\ i \in printed' \cup {r.deed : r \in rows'}
      /\ \A j : Recorded(j) => j \in printed' \cup {r.deed : r \in rows'}
      /\ \A r \in rows' : r \in rows \/ r = row
  <2>1. CASE rows' = rows \cup {row} /\ printed' = printed
    BY <1>5, <2>1 DEF Recorded
  <2>2. CASE rows' = rows /\ printed' = printed \cup {i}
    BY <2>2 DEF Recorded
  <2>. QED  BY <1>2, <2>1, <2>2
<1>7. TypeOK'
  <2>1. rows' \subseteq [username : Users, deed : 1..MaxDeeds] /\ printed' \subseteq 1..MaxDeeds
    <3>1. CASE Refers(sftp[t]) /\ rows' = rows \cup {row} /\ printed' = printed
      <4>1. row \in [username : Users, deed : 1..MaxDeeds]
        BY <1>1, <1>5, <3>1 DEF row
      <4>. QED  BY <3>1, <4>1 DEF IInv, TypeOK
    <3>2. CASE rows' = rows /\ printed' = printed \cup {i}
      BY <1>1, <3>2 DEF IInv, TypeOK
    <3>. QED  BY <1>2, <3>1, <3>2
  <2>. QED  BY <1>3, <1>4, <2>1 DEF IInv, TypeOK, Returns
<1>8. HoldersUse'
  BY <1>1, <1>3, <1>4 DEF IInv, HoldersUse, Returns, Uses
<1>9. ActsAsProven'
  BY <1>3 DEF IInv, ActsAsProven
<1>10. ToldOkIsRecorded'
  BY <1>3, <1>6 DEF IInv, ToldOkIsRecorded, Recorded
<1>11. (\A r \in rows : r.deed \in DOMAIN deeds)'
  BY <1>1, <1>3, <1>5, <1>6 DEF IInv
<1>12. ASSUME NEW c \in Conns PROVE ConnInv(c)'
  BY <1>1, <1>3, <1>4 DEF IInv, ConnInv, Threads
<1>13. ASSUME NEW k \in Tasks PROVE TaskInv(k)'
  <2>1. TaskInv(k) /\ k \in Threads
    BY TaskNoConn DEF IInv
  <2>2. CASE k = t
    BY <1>1, <1>3, <1>4, <1>6, <2>1, <2>2 DEF TaskInv, Running, Recorded
  <2>3. CASE k # t
    BY <1>3, <1>4, <1>6, <2>1, <2>3 DEF TaskInv, Running, Recorded
  <2>. QED  BY <2>2, <2>3
<1>. QED  BY <1>7, <1>8, <1>9, <1>10, <1>11, <1>12, <1>13 DEF IInv

\* The handler returns Ok.
LEMMA TellInv == ASSUME IInv, NEW t \in Tasks, Tell(t)
PROVE  IInv'
<1>1. /\ t \in Threads /\ t \notin Conns /\ call[t].at = "answer" /\ call[t].deed \in DOMAIN deeds
      /\ deeds[call[t].deed].logged => Recorded(call[t].deed)
  BY TaskNoConn DEF IInv, TaskInv, Tell
<1>2. /\ answered' = answered \cup {call[t].deed} /\ Rests(t)
      /\ UNCHANGED <<audit, ssh, sftp, principal, deeds>>
  BY DEF Tell
<1>3. TypeOK'
  BY <1>1, <1>2, IdleType DEF IInv, TypeOK, Rests, audit
<1>4. HoldersUse'
  BY <1>1, <1>2, IdleType DEF IInv, HoldersUse, TypeOK, Rests, audit, Uses
<1>5. ActsAsProven'
  BY <1>2 DEF IInv, ActsAsProven
<1>6. ToldOkIsRecorded' /\ (\A r \in rows : r.deed \in DOMAIN deeds)'
  BY <1>1, <1>2 DEF IInv, ToldOkIsRecorded, Recorded, audit
<1>7. (\A c \in Conns : ConnInv(c))'
  BY <1>1, <1>2 DEF IInv, ConnInv, TypeOK, Rests, Threads
<1>8. (\A k \in Tasks : TaskInv(k))'
  BY <1>1, <1>2, IdleType, TaskNoConn DEF IInv, TaskInv, TypeOK, Rests, Threads, Running, Recorded, audit
<1>. QED  BY <1>3, <1>4, <1>5, <1>6, <1>7, <1>8 DEF IInv

\* The end of a task's stream.
LEMMA EndsInv == ASSUME IInv, NEW t \in Tasks, Ends(t)
PROVE  IInv'
<1>1. TypeOK'
  BY DEF IInv, Ends, audit, TypeOK
<1>2. HoldersUse'
  BY TaskNoConn, IdleType DEF IInv, Ends, audit, HoldersUse, TypeOK, Uses, Waits, Idle
<1>3. ActsAsProven'
  BY DEF IInv, Ends, ActsAsProven
<1>5. ToldOkIsRecorded' /\ (\A r \in rows : r.deed \in DOMAIN deeds)'
  BY TaskNoConn, IdleType DEF IInv, Ends, audit, ToldOkIsRecorded, TypeOK, TaskInv, Call
<1>6. (\A c \in Conns : ConnInv(c))'
  BY DEF IInv, Ends, ConnInv
<1>7. (\A k \in Tasks : TaskInv(k))'
  BY IdleType DEF IInv, Ends, TaskInv, Running, Recorded, audit
<1>. QED  BY <1>1, <1>2, <1>3, <1>5, <1>6, <1>7 DEF IInv

\* A crash.
LEMMA RestartInv == ASSUME IInv, Restart
PROVE  IInv'
<1>1. TypeOK'
  BY IdleType DEF IInv, Restart, TypeOK
<1>2. HoldersUse'
  BY TaskNoConn, IdleType DEF IInv, Restart, audit, HoldersUse, TypeOK, Uses, Waits, Idle
<1>3. ActsAsProven'
  BY DEF Restart, ActsAsProven, Closed, Tasks
<1>5. ToldOkIsRecorded' /\ (\A r \in rows : r.deed \in DOMAIN deeds)'
  BY TaskNoConn, IdleType DEF IInv, Restart, audit, ToldOkIsRecorded, TypeOK, TaskInv, Call
<1>6. (\A c \in Conns : ConnInv(c))'
  BY IdleType DEF Restart, ConnInv, Closed, Threads
<1>7. (\A k \in Tasks : TaskInv(k))'
  BY TaskNoConn, IdleType DEF Restart, TaskInv, Recorded, audit
<1>. QED  BY <1>1, <1>2, <1>3, <1>5, <1>6, <1>7 DEF IInv

LEMMA NextInv == IInv /\ [Next]_vars => IInv'
<1>. SUFFICES ASSUME IInv, [Next]_vars PROVE IInv'
  OBVIOUS
<1>1. ASSUME NEW c \in Conns, Asks(c) PROVE IInv'
  BY <1>1, NewClientInv, LeaveInv, AuthPasswordInv, ChannelOpenInv, ChannelCloseInv,
     SubsystemRequestInv DEF Asks
<1>2. ASSUME NEW t \in Tasks, Ends(t) \/ \E announced \in BOOLEAN : Request(t, announced)
      PROVE  IInv'
  BY <1>2, EndsInv, RequestInv
<1>3. ASSUME NEW t \in Threads, Runs(t) PROVE IInv'
  BY <1>3, NotedInv, AuthenticateInv, UnservedInv, SftpInv, DoesInv, RefusesInv, RecordInv,
     TellInv
    DEF Runs
<1>4. ASSUME NEW t \in Threads, Get(t) \/ TimeOut(t) PROVE IInv'
  BY <1>4, GetInv, TimeOutInv
<1>5. CASE UNCHANGED vars
  BY <1>5 DEF vars, audit, IInv, TypeOK, HoldersUse, ActsAsProven,
              ToldOkIsRecorded, ConnInv, TaskInv, Running, Recorded
<1>. QED  BY <1>1, <1>2, <1>3, <1>4, <1>5, RestartInv DEF Next

THEOREM InvHolds == Spec => []IInv
  BY InitInv, NextInv, PTL DEF Spec

\* Connections, tasks, the pool and the table keep their types, for any number of
\* connections and channels, any users and any size of the pool.
THEOREM TypeCorrect == Spec => []TypeOK
  BY InvHolds, PTL DEF IInv

\* Every SFTP task acts for the user whose password its connection proved.
THEOREM ActsAsProvenTheorem == Spec => []ActsAsProven
  BY InvHolds, PTL DEF IInv

\* What a client was told Ok for is in the table or was printed, CLOSE excepted.
THEOREM ToldOkIsRecordedTheorem == Spec => []ToldOkIsRecorded
  BY InvHolds, PTL DEF IInv

\* Threads and the handlers at the database are finitely many.
LEMMA BusyFinite == IsFiniteSet(Threads) /\ IsFiniteSet(Busy)
<1>1. IsFiniteSet(Threads)
  BY SshAssumption, FS_Product, FS_Union DEF Threads, Tasks
<1>. QED  BY <1>1, FS_Subset DEF Busy

\* As long as no more handlers are at the database than the pool has connections,
\* none that waits can time out: whoever waits holds none.
THEOREM PoolSufficesTheorem == Spec => []PoolSuffices
<1>1. IInv => PoolSuffices
  <2>. SUFFICES ASSUME IInv, NEW t \in Threads, call[t].at \in Waits, Cardinality(Busy) <= PoolSize
                PROVE  ~Exhausted
    BY DEF PoolSuffices
  <2>1. holds \subseteq Busy \ {t}
    BY DEF IInv, HoldersUse, Busy, Waits, Uses
  <2>2. t \in Busy
    BY DEF Busy
  <2>3. IsFiniteSet(Busy \ {t}) /\ Cardinality(Busy \ {t}) = Cardinality(Busy) - 1
    BY <2>2, BusyFinite, FS_RemoveElement
  <2>4. Cardinality(holds) <= Cardinality(Busy \ {t}) /\ IsFiniteSet(holds)
    BY <2>1, <2>3, FS_Subset
  <2>5. Cardinality(Busy) \in Nat /\ Cardinality(holds) \in Nat
    BY <2>4, BusyFinite, FS_CardinalityType
  <2>. QED  BY <2>3, <2>4, <2>5, AuditAssumption DEF Exhausted
<1>. QED  BY <1>1, InvHolds, PTL

-----------------------------------------------------------------------------
(* What the records name, when a name is kept as it is or refers to nobody. *)

\* No user has a name the column turns into that of another.
Faithful == \A u \in Users : Refers(u) => AsColumn[u] = u

\* Without such names every record names the user the deed was done for.
THEOREM RecordsNameActorTheorem == ASSUME Faithful PROVE Spec => []RecordsNameActor
<1>1. Init => RecordsNameActor
  BY DEF Init, RecordsNameActor
<1>2. IInv /\ RecordsNameActor /\ [Next]_vars => RecordsNameActor'
  <2>. SUFFICES ASSUME IInv, RecordsNameActor, [Next]_vars PROVE RecordsNameActor'
    OBVIOUS
  <2>1. ASSUME NEW t \in Tasks, Record(t) PROVE RecordsNameActor'
    <3>1. /\ call[t].deed \in DOMAIN deeds /\ deeds[call[t].deed].user = sftp[t]
          /\ sftp[t] \in Users
      BY <2>1, TaskPair DEF IInv, TaskInv, TypeOK, Record, Running, ActsAsProven
    <3>2. Insert(sftp[t], call[t].deed) /\ deeds' = deeds
      BY <2>1 DEF Record
    <3>3. CASE /\ Refers(sftp[t])
               /\ rows' = rows \cup {[username |-> AsColumn[sftp[t]], deed |-> call[t].deed]}
      BY <3>1, <3>2, <3>3 DEF Faithful, RecordsNameActor
    <3>. QED  BY <3>2, <3>3, InsertRow DEF RecordsNameActor
  <2>2. ASSUME NEW t \in Tasks, Does(t) \/ Closes(t) PROVE RecordsNameActor'
    <3>1. PICK d : deeds' = Append(deeds, d) /\ UNCHANGED rows
      BY <2>2 DEF Does, Closes, Achieves, audit
    <3>2. \A r \in rows : deeds'[r.deed] = deeds[r.deed]
      BY <3>1 DEF IInv, TypeOK
    <3>. QED  BY <3>1, <3>2 DEF RecordsNameActor
  <2>3. CASE UNCHANGED <<rows, deeds>>
    BY <2>3 DEF RecordsNameActor
  <2>. QED
    BY <2>1, <2>2, <2>3
    DEF Next, vars, audit, Asks, Runs, NewClient, Leave, AuthPassword, ChannelOpen,
        ChannelClose, SubsystemRequest,
        Ends, Request, Get, TimeOut, Noted, Authenticate, Unserved, Sftp, Refuses, Tell, Restart
<1>. QED  BY <1>1, <1>2, InvHolds, PTL DEF Spec
-----------------------------------------------------------------------------
(* The table is an audit trail.                                            *)

\* The handler has done something and come to its event.
AtRecord(k) == k.at \in {"wait_record", "record"}

\* What waits to be recorded is not recorded yet, and by one handler only.
TrailInv ==
  /\ printed \subseteq DOMAIN deeds
  /\ \A t \in Tasks : AtRecord(call[t]) =>
       /\ call[t].deed \notin printed /\ \A r \in rows : r.deed # call[t].deed
       /\ \A u \in Tasks : AtRecord(call[u]) /\ call[u].deed = call[t].deed => u = t

\* A step that does and records nothing, and brings no handler to its event.
Quiet ==
  /\ UNCHANGED <<deeds, rows, printed, answered>>
  /\ \A t \in Tasks : AtRecord(call'[t]) => AtRecord(call[t]) /\ call'[t].deed = call[t].deed

LEMMA QuietKeeps ==
  ASSUME TrailInv, Quiet
  PROVE  TrailInv' /\ UNCHANGED <<deeds, rows, printed, answered>>
  BY DEF TrailInv, Quiet

\* A thread leaves its handler, or gets on in it before its event or at it.
LEMMA MovesQuietly ==
  ASSUME TypeOK, NEW t \in Threads, UNCHANGED <<deeds, rows, printed, answered>>,
         \/ Rests(t)
         \/ \E stage : Goes(t, stage) /\ (stage \in {"wait_record", "record"} => AtRecord(call[t]))
         \/ t \notin Tasks /\ \E k : call' = [call EXCEPT ![t] = k]
         \/ UNCHANGED call
  PROVE  Quiet
<1>1. ASSUME NEW u \in Tasks, AtRecord(call'[u])
      PROVE  AtRecord(call[u]) /\ call'[u].deed = call[u].deed
  <2>1. u \in Threads /\ call \in [Threads -> Call]
    BY TaskNoConn DEF TypeOK
  <2>2. CASE Rests(t)
    BY <1>1, <2>1, <2>2, IdleType DEF Rests, AtRecord
  <2>3. ASSUME NEW stage, Goes(t, stage), stage \in {"wait_record", "record"} => AtRecord(call[t])
        PROVE  AtRecord(call[u]) /\ call'[u].deed = call[u].deed
    <3>1. CASE u = t
      <4>1. call'[u] = [call[u] EXCEPT !.at = stage]
        BY <2>1, <2>3, <3>1 DEF Goes
      <4>2. call'[u].at = stage /\ call'[u].deed = call[u].deed
        BY <2>1, <4>1 DEF Call
      <4>3. QED BY <1>1, <2>3, <3>1, <4>2 DEF AtRecord
    <3>2. CASE u # t
      BY <1>1, <2>1, <2>3, <3>2 DEF Goes
    <3>. QED  BY <3>1, <3>2
  <2>4. CASE t \notin Tasks /\ \E k : call' = [call EXCEPT ![t] = k]
    BY <1>1, <2>1, <2>4
  <2>5. CASE UNCHANGED call
    BY <1>1, <2>5
  <2>. QED  BY <2>2, <2>3, <2>4, <2>5
<1>. QED  BY <1>1 DEF Quiet

LEMMA OthersQuiet ==
  ASSUME IInv, [Next]_vars, ~\E t \in Tasks : Does(t) \/ Closes(t) \/ Record(t) \/ Tell(t)
  PROVE  Quiet
<1>. TypeOK
  BY DEF IInv
<1>1. ASSUME NEW c \in Conns, Asks(c) \/ Authenticate(c) \/ Unserved(c) \/ Sftp(c) PROVE Quiet
  <2>1. c \in Threads /\ c \notin Tasks
    BY TaskNoConn DEF Threads
  <2>2. /\ UNCHANGED <<deeds, rows, printed, answered>>
        /\ UNCHANGED call \/ \E k : call' = [call EXCEPT ![c] = k]
    BY <1>1 DEF Asks, NewClient, Leave, AuthPassword, ChannelOpen, ChannelClose, SubsystemRequest, Authenticate,
                Unserved, Sftp, Dies, Rests, audit
  <2>. QED  BY <2>1, <2>2, MovesQuietly
<1>2. ASSUME NEW t \in Tasks,
             Ends(t) \/ Refuses(t) \/ \E announced \in BOOLEAN : Request(t, announced)
      PROVE  Quiet
  <2>1. /\ UNCHANGED <<deeds, rows, printed, answered>>
        /\ UNCHANGED call \/ Rests(t) \/ Goes(t, "wait_note") \/ Goes(t, "work")
    BY <1>2 DEF Ends, Refuses, Request, Dies, audit
  <2>. QED  BY <2>1, MovesQuietly, TaskNoConn
<1>3. ASSUME NEW t \in Threads, Get(t) \/ TimeOut(t) \/ Noted(t) PROVE Quiet
  <2>1. UNCHANGED <<deeds, rows, printed, answered>>
    BY <1>3 DEF Get, TimeOut, Noted, audit
  <2>2. CASE Get(t)
    <3>1. Goes(t, Granted(call[t].at)) /\ call[t].at \in Waits
      BY <2>2 DEF Get
    <3>2. Granted(call[t].at) \in {"wait_record", "record"} => AtRecord(call[t])
      BY <3>1, GrantedUses DEF Waits, AtRecord
    <3>. QED  BY <2>1, <3>1, <3>2, MovesQuietly
  <2>3. CASE TimeOut(t)
    BY <2>1, <2>3, MovesQuietly DEF TimeOut, Dies
  <2>4. CASE Noted(t)
    <3>1. Goes(t, AfterNote(t)) /\ AfterNote(t) \notin {"wait_record", "record"}
      BY <2>4 DEF Noted, AfterNote
    <3>. QED  BY <2>1, <3>1, MovesQuietly
  <2>. QED  BY <1>3, <2>2, <2>3, <2>4
<1>4. CASE UNCHANGED vars
  BY <1>4 DEF vars, audit, Quiet
<1>5. CASE Restart
  BY <1>5, IdleType, TaskNoConn DEF Restart, Quiet, AtRecord
<1>. QED  BY <1>1, <1>2, <1>3, <1>4, <1>5 DEF Next, Runs

\* The handler comes to its event with a deed no other has, or to its answer.
LEMMA DoesTrail ==
  ASSUME IInv, TrailInv, NEW t \in Tasks, Does(t) \/ Closes(t)
  PROVE  TrailInv' /\ \E u \in Users, logged \in BOOLEAN : Trail!Do(u, logged)
<1>. DEFINE i == Len(deeds) + 1
            u == principal[t[1]]
<1>0. PICK logged \in BOOLEAN, stage \in {"wait_record", "answer"} : Achieves(t, logged, stage) /\ UNCHANGED answered
  BY DEF Does, Closes
<1>1. u \in Users
  <2>1. sftp[t] # NoUser
    BY <1>0 DEF IInv, TaskInv, Achieves, Running
  <2>. QED  BY <2>1, TaskPair DEF IInv, ActsAsProven, TypeOK
<1>2. /\ i \notin DOMAIN deeds /\ deeds \in Seq(Deed)
      /\ deeds' = Append(deeds, [user |-> u, logged |-> logged])
      /\ DOMAIN deeds \subseteq DOMAIN deeds'
      /\ UNCHANGED <<rows, printed, answered>>
  <2>1. [user |-> u, logged |-> logged] \in Deed
    BY <1>1 DEF Deed
  <2>. QED  BY <1>0, <2>1 DEF IInv, TypeOK, Achieves, audit
<1>3. call'[t].deed = i /\ \A v \in Tasks : v # t => call'[v] = call[v]
  <2>1. t \in Threads /\ call \in [Threads -> Call]
    BY TaskNoConn DEF IInv, TypeOK
  <2>2. call'[t] = [call[t] EXCEPT !.at = stage, !.deed = i]
    BY <1>0, <2>1 DEF Achieves
  <2>. QED  BY <1>0, <2>1, <2>2, TaskNoConn DEF Achieves, Call
<1>4. \A v \in Tasks : AtRecord(call[v]) => call[v].deed \in DOMAIN deeds
  BY DEF IInv, TaskInv, AtRecord
<1>5. i \notin printed /\ \A r \in rows : r.deed # i
  BY <1>2 DEF TrailInv, IInv
<1>. HIDE DEF i, u
<1>6. TrailInv'
  BY <1>2, <1>3, <1>4, <1>5 DEF TrailInv
<1>. QED  BY <1>1, <1>2, <1>6 DEF Trail!Do

\* on_event settles the deed of its handler.
LEMMA RecordTrail ==
  ASSUME Faithful, IInv, TrailInv, NEW t \in Tasks, Record(t)
  PROVE  TrailInv' /\ \E i \in DOMAIN deeds : Trail!Enter(i) \/ Trail!Report(i)
<1>. DEFINE i == call[t].deed
<1>1. /\ i \in DOMAIN deeds /\ deeds[i].logged /\ deeds[i].user = sftp[t] /\ sftp[t] \in Users
      /\ AtRecord(call[t])
  BY TaskPair DEF IInv, TaskInv, TypeOK, Record, Running, ActsAsProven, AtRecord
<1>2. Insert(sftp[t], i) /\ UNCHANGED <<answered, deeds, sftp>>
  BY DEF Record
<1>3. /\ ~AtRecord(call'[t])
      /\ \A u \in Tasks : u # t => call'[u] = call[u]
  BY CallAt, TaskNoConn DEF Record, Goes, IInv, TypeOK, AtRecord, Call
<1>4. /\ i \notin printed /\ \A r \in rows : r.deed # i
      /\ \A u \in Tasks : AtRecord(call[u]) /\ call[u].deed = i => u = t
  BY <1>1 DEF TrailInv
<1>. HIDE DEF i
<1>5. i \in Trail!Pending
  BY <1>1, <1>4 DEF Trail!Pending
<1>6. CASE /\ rows' = rows \cup {[username |-> deeds[i].user, deed |-> i]}
           /\ printed' = printed
  <2>1. \A r \in rows' : r \in rows \/ r.deed = i
    BY <1>6
  <2>2. TrailInv'
    BY <1>2, <1>3, <1>4, <1>6, <2>1 DEF TrailInv
  <2>3. Trail!Enter(i)
    BY <1>2, <1>5, <1>6 DEF Trail!Enter
  <2>. QED  BY <1>1, <2>2, <2>3
<1>7. CASE rows' = rows /\ printed' = printed \cup {i}
  <2>1. TrailInv'
    BY <1>1, <1>2, <1>3, <1>4, <1>7 DEF TrailInv
  <2>2. Trail!Report(i)
    BY <1>2, <1>5, <1>7 DEF Trail!Report
  <2>. QED  BY <1>1, <2>1, <2>2
<1>8. Refers(sftp[t]) => AsColumn[sftp[t]] = deeds[i].user
  BY <1>1 DEF Faithful
<1>. QED  BY <1>2, <1>6, <1>7, <1>8, InsertRow

\* What is answered is settled, or was not to be logged.
LEMMA TellTrail ==
  ASSUME IInv, TrailInv, NEW t \in Tasks, Tell(t)
  PROVE  TrailInv' /\ \E i \in DOMAIN deeds : Trail!Tell(i)
<1>. DEFINE i == call[t].deed
<1>1. i \in DOMAIN deeds /\ (deeds[i].logged => Recorded(i))
  BY DEF IInv, TaskInv, Tell
<1>2. Rests(t) /\ answered' = answered \cup {i} /\ UNCHANGED <<deeds, rows, printed>>
  BY DEF Tell, audit
<1>3. \A u \in Tasks : AtRecord(call'[u]) => AtRecord(call[u]) /\ call'[u].deed = call[u].deed
  BY <1>2, IdleType, TaskNoConn DEF IInv, TypeOK, Rests, AtRecord
<1>. HIDE DEF i
<1>4. TrailInv'
  BY <1>2, <1>3 DEF TrailInv
<1>5. i \notin Trail!Pending
  BY <1>1 DEF Trail!Pending, Recorded
<1>. QED  BY <1>1, <1>2, <1>4, <1>5 DEF Trail!Tell

LEMMA TrailStep ==
  ASSUME Faithful, IInv, TrailInv, [Next]_vars
  PROVE  TrailInv' /\ [Trail!Next]_<<deeds, rows, printed, answered>>
<1>1. CASE \E t \in Tasks : Does(t) \/ Closes(t) \/ Record(t) \/ Tell(t)
  BY <1>1, DoesTrail, RecordTrail, TellTrail DEF Trail!Next
<1>2. CASE ~\E t \in Tasks : Does(t) \/ Closes(t) \/ Record(t) \/ Tell(t)
  BY <1>2, OthersQuiet, QuietKeeps
<1>. QED  BY <1>1, <1>2

\* The server keeps an audit trail, over all its connections and restarts: a deed
\* is recorded once at most, for the user it was done for and before its client is
\* told, and no record changes or goes (audit.rs:20-44, sftp_server.rs:316-317).
THEOREM ImplementsAuditTrailTheorem ==
  ASSUME Faithful
  PROVE  Spec => ImplementsAuditTrail
<1>1. Init => TrailInv /\ Trail!Init
  BY IdleType, TaskNoConn DEF Init, TrailInv, Trail!Init, AtRecord
<1>2. IInv /\ TrailInv /\ [Next]_vars =>
        TrailInv' /\ [Trail!Next]_<<deeds, rows, printed, answered>>
  BY TrailStep
<1>3. Spec => Trail!Spec
  BY <1>1, <1>2, InvHolds, PTL DEF Spec, Trail!Spec
<1>. QED  BY <1>3 DEF ImplementsAuditTrail
=============================================================================
