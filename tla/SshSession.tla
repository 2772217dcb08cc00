----------------------------- MODULE SshSession -----------------------------
(***************************************************************************)
(* The SSH side of server/src/sftp_server.rs: connections, each a task of  *)
(* its own with its SshSession, that authenticate, open channels and ask   *)
(* for subsystems, and the SFTP tasks they start, one per channel.  What   *)
(* an SFTP handler does to the disk is SftpSession; here it is a deed, and *)
(* what matters is who did it, what the client is told and what the audit  *)
(* log keeps.  Tasks run on several worker threads and meet in the pool.   *)
(***************************************************************************)
EXTENDS AuditLog, Sequences

CONSTANTS Conns, Chans,   \* connections, and the channels of one
          NoUser, NoChan,
          MaxDeeds        \* handlers that get something done (a bound)

\* A deed is recorded by all handlers but that of CLOSE.
Deed == [user : Users, logged : BOOLEAN]

ASSUME SshAssumption ==
  /\ NoUser \notin Users /\ NoChan \notin Chans
  /\ AsColumn \in [Users -> Users \cup {NoUser}]
  /\ Conns \cap (Conns \X Chans) = {}
  /\ IsFiniteSet(Conns) /\ IsFiniteSet(Chans)
  /\ MaxDeeds \in Nat

VARIABLES
  ssh,        \* ssh[c]: the connection c and its SshSession
  sftp,       \* sftp[t]: SftpSession.user of the SFTP task t, NoUser if none runs
  call,       \* call[t]: the handler thread t is in
  principal,  \* history: the user whose password c has proved
  deeds,      \* history: deeds[i]: the principal on whose behalf i was done, and
              \* whether its handler emits a record
  answered    \* history: the deeds whose client was told Ok

vars == <<audit, ssh, sftp, call, principal, deeds, answered>>

Tasks   == Conns \X Chans
Threads == Conns \cup Tasks

\* channels are the ids given out, closed those the client has closed since.
Ssh    == [open : BOOLEAN, authed : BOOLEAN, username : Users \cup {NoUser},
           channels : SUBSET Chans, closed : SUBSET Chans, clients : SUBSET Chans]
Closed == [open |-> FALSE, authed |-> FALSE, username |-> NoUser,
           channels |-> {}, closed |-> {}, clients |-> {}]

\* Where a handler is: a thread waits for a connection of the pool for an event
\* without fields, for a SELECT or for an event with a record, or has one; a task
\* at "answer" has done all but send its Ok.
Waits   == {"wait_note", "wait_select", "wait_record"}
Uses    == {"note", "select", "record"}
Call    == [at : Waits \cup Uses \cup {"idle", "work", "answer"}, user : Users \cup {NoUser},
            right : BOOLEAN, chan : Chans \cup {NoChan}, name : {"sftp", "other"},
            deed : 0..MaxDeeds]
Idle    == [at |-> "idle", user |-> NoUser, right |-> FALSE, chan |-> NoChan,
            name |-> "other", deed |-> 0]

TypeOK ==
  /\ holds \subseteq Threads
  /\ rows \subseteq [username : Users, deed : 1..MaxDeeds]
  /\ printed \subseteq 1..MaxDeeds
  /\ ssh \in [Conns -> Ssh]
  /\ sftp \in [Tasks -> Users \cup {NoUser}]
  /\ call \in [Threads -> Call]
  /\ principal \in [Conns -> Users \cup {NoUser}]
  /\ deeds \in Seq(Deed) /\ Len(deeds) <= MaxDeeds
  /\ answered \subseteq DOMAIN deeds
-----------------------------------------------------------------------------
Goes(t, stage) == call' = [call EXCEPT ![t].at = stage]
Rests(t)       == call' = [call EXCEPT ![t] = Idle]

\* A panic unwinds one task.  The SFTP tasks of a connection that is gone finish
\* what they are at and end when they read the end of their stream.
Dies(t) ==
  /\ Rests(t)
  /\ \/ t \in Conns /\ ssh' = [ssh EXCEPT ![t] = Closed] /\ UNCHANGED sftp
     \/ t \in Tasks /\ sftp' = [sftp EXCEPT ![t] = NoUser] /\ UNCHANGED ssh
-----------------------------------------------------------------------------
(* The pool, for whichever handler needs it.                               *)

Granted(stage) == [wait_note |-> "note", wait_select |-> "select", wait_record |-> "record"][stage]

Get(t) ==
  /\ call[t].at \in Waits
  /\ Takes(t)
  /\ Goes(t, Granted(call[t].at))
  /\ UNCHANGED <<rows, printed, ssh, sftp, principal, deeds, answered>>

Bug_TimeOut_tries_again(t) ==
  /\ call[t].at \in Waits \ {"wait_select"} /\ Exhausted
  /\ Dies(t)
  /\ UNCHANGED <<audit, principal, deeds, answered>>

\* get() fails after thirty seconds: on_event expects and authenticate returns
\* the error, which auth_password takes for a wrong password.
TimeOut(t) ==
  /\ call[t].at \in Waits /\ Exhausted
  /\ IF call[t].at = "wait_select" THEN Rests(t) /\ UNCHANGED <<ssh, sftp>> ELSE Dies(t)
  /\ UNCHANGED <<audit, principal, deeds, answered>>

\* on_event of an event without the fields of a record; auth_password goes on
\* to authenticate, which needs a connection again.
AfterNote(t) == IF t \in Conns /\ call[t].chan = NoChan THEN "wait_select" ELSE "work"

Bug_Noted_keeps_connection(t) ==
  /\ call[t].at = "note"
  /\ IF t \in Tasks THEN Returns(t) ELSE UNCHANGED holds
  /\ Goes(t, AfterNote(t))
  /\ UNCHANGED <<rows, printed, ssh, sftp, principal, deeds, answered>>

Noted(t) ==
  /\ call[t].at = "note"
  /\ Returns(t)
  /\ Goes(t, AfterNote(t))
  /\ UNCHANGED <<rows, printed, ssh, sftp, principal, deeds, answered>>
-----------------------------------------------------------------------------
(* SshSession                                                              *)

\* new_client; a connection is named anew once the tasks of the old one ended.
NewClient(c) ==
  /\ ~ssh[c].open /\ \A ch \in Chans : sftp[<<c, ch>>] = NoUser
  /\ ssh' = [ssh EXCEPT ![c].open = TRUE]
  /\ principal' = [principal EXCEPT ![c] = NoUser]
  /\ UNCHANGED <<audit, sftp, call, deeds, answered>>

Leave(c) ==
  /\ ssh[c].open /\ call[c] = Idle
  /\ ssh' = [ssh EXCEPT ![c] = Closed]
  /\ UNCHANGED <<audit, sftp, call, principal, deeds, answered>>

\* Requests for authentication end with the first that is accepted.
AuthPassword(c, u, right) ==
  /\ ssh[c].open /\ ~ssh[c].authed /\ call[c] = Idle
  /\ call' = [call EXCEPT ![c] = [Idle EXCEPT !.at = "wait_note", !.user = u, !.right = right]]
  /\ UNCHANGED <<audit, ssh, sftp, principal, deeds, answered>>

Bug_Accepts_any_row(right) == TRUE

\* verify(password, &hash)?
Accepts(right) == right

\* The SELECT and verify of authenticate, with its connection.
Authenticate(c) ==
  LET u == call[c].user
  IN  /\ call[c].at = "select"
      /\ Returns(c)
      /\ \/ /\ Accepts(call[c].right)
            /\ ssh' = [ssh EXCEPT ![c].username = u, ![c].authed = TRUE]
         \/ ~Accepts(call[c].right) /\ UNCHANGED ssh
      /\ principal' = [principal EXCEPT ![c] = IF call[c].right THEN u ELSE @]
      /\ Rests(c)
      /\ UNCHANGED <<rows, printed, sftp, deeds, answered>>

\* channel_open_session; the ids of a connection's channels are never reused.
ChannelOpen(c, ch) ==
  /\ ssh[c].authed /\ call[c] = Idle /\ ch \notin ssh[c].channels
  /\ ssh' = [ssh EXCEPT ![c].channels = @ \cup {ch}, ![c].clients = @ \cup {ch}]
  /\ UNCHANGED <<audit, sftp, call, principal, deeds, answered>>

\* No handler hears of it: a channel that was never asked for sftp stays in clients.
ChannelClose(c, ch) ==
  /\ ssh[c].authed /\ call[c] = Idle /\ ch \in ssh[c].channels \ ssh[c].closed
  /\ ssh' = [ssh EXCEPT ![c].closed = @ \cup {ch}]
  /\ UNCHANGED <<audit, sftp, call, principal, deeds, answered>>

SubsystemRequest(c, ch, name) ==
  /\ ssh[c].authed /\ call[c] = Idle /\ ch \in ssh[c].channels \ ssh[c].closed
  /\ call' = [call EXCEPT ![c] = [Idle EXCEPT !.at = "wait_note", !.chan = ch, !.name = name]]
  /\ UNCHANGED <<audit, ssh, sftp, principal, deeds, answered>>

\* channel_failure
Unserved(c) ==
  /\ call[c].at = "work" /\ call[c].name # "sftp"
  /\ Rests(c)
  /\ UNCHANGED <<audit, ssh, sftp, principal, deeds, answered>>

\* get_channel unwraps the removal from the map, then VirtualRoot::default
\* panics unless the root is a directory, which it may cease to be and become
\* again at any time; else the SFTP task starts.
Sftp(c) ==
  LET ch == call[c].chan
  IN  /\ call[c].at = "work" /\ call[c].name = "sftp"
      /\ \/ /\ ch \in ssh[c].clients
            /\ ssh' = [ssh EXCEPT ![c].clients = @ \ {ch}]
            /\ sftp' = [sftp EXCEPT ![<<c, ch>>] = ssh[c].username]
            /\ Rests(c)
         \/ Dies(c)
      /\ UNCHANGED <<audit, principal, deeds, answered>>
-----------------------------------------------------------------------------
(* The handlers of an SFTP task, as far as the log sees them.              *)

Running(t) == sftp[t] # NoUser

\* opendir, readdir, realpath and init announce themselves first.
Request(t, announced) ==
  /\ Running(t) /\ call[t] = Idle
  /\ Goes(t, IF announced THEN "wait_note" ELSE "work")
  /\ UNCHANGED <<audit, ssh, sftp, principal, deeds, answered>>

\* The handler does what was asked for: next is its event, if it has one.
Achieves(t, logged, stage) ==
  /\ call[t].at = "work" /\ Len(deeds) < MaxDeeds
  /\ deeds' = Append(deeds, [user |-> principal[t[1]], logged |-> logged])
  /\ call' = [call EXCEPT ![t].at = stage, ![t].deed = Len(deeds) + 1]
  /\ UNCHANGED <<audit, ssh, sftp, principal>>

Bug_Does_answers_first(t) ==
  Achieves(t, TRUE, "wait_record") /\ answered' = answered \cup {Len(deeds) + 1}

Does(t) == Achieves(t, TRUE, "wait_record") /\ UNCHANGED answered

\* close has no event and always answers Ok.
Closes(t) == Achieves(t, FALSE, "answer") /\ UNCHANGED answered

\* An error that is returned, and one that is unwrapped.
Refuses(t) ==
  /\ call[t].at = "work"
  /\ \/ Rests(t) /\ UNCHANGED <<ssh, sftp>>
     \/ Dies(t)
  /\ UNCHANGED <<audit, principal, deeds, answered>>

Bug_Record_retries(t) ==
  /\ call[t].at = "record"
  /\ Insert(sftp[t], call[t].deed)
  /\ Returns(t)
  /\ Goes(t, IF printed' = printed THEN "answer" ELSE "wait_record")
  /\ UNCHANGED <<ssh, sftp, principal, deeds, answered>>

\* on_event of an event with a record.
Record(t) ==
  /\ call[t].at = "record"
  /\ Insert(sftp[t], call[t].deed)
  /\ Returns(t)
  /\ Goes(t, "answer")
  /\ UNCHANGED <<ssh, sftp, principal, deeds, answered>>

\* The handler returns Ok.
Tell(t) ==
  /\ call[t].at = "answer"
  /\ answered' = answered \cup {call[t].deed}
  /\ Rests(t)
  /\ UNCHANGED <<audit, ssh, sftp, principal, deeds>>

\* The end of the stream.
Ends(t) ==
  /\ Running(t) /\ call[t] = Idle
  /\ sftp' = [sftp EXCEPT ![t] = NoUser]
  /\ UNCHANGED <<audit, ssh, call, principal, deeds, answered>>
-----------------------------------------------------------------------------
(* What happens to the server.                                             *)

\* The process is killed and started again; the table AuditLogs stays.
Restart ==
  /\ holds' = {}
  /\ ssh' = [c \in Conns |-> Closed]
  /\ sftp' = [t \in Tasks |-> NoUser]
  /\ call' = [t \in Threads |-> Idle]
  /\ principal' = [c \in Conns |-> NoUser]
  /\ UNCHANGED <<rows, printed, deeds, answered>>

Init ==
  /\ holds = {} /\ rows = {} /\ printed = {}
  /\ ssh = [c \in Conns |-> Closed]
  /\ sftp = [t \in Tasks |-> NoUser]
  /\ call = [t \in Threads |-> Idle]
  /\ principal = [c \in Conns |-> NoUser]
  /\ deeds = <<>> /\ answered = {}

\* What a thread that is in a handler does next, if it need not wait.
Runs(t) ==
  \/ Noted(t)
  \/ t \in Conns /\ (Authenticate(t) \/ Unserved(t) \/ Sftp(t))
  \/ t \in Tasks /\ (Does(t) \/ Closes(t) \/ Refuses(t) \/ Record(t) \/ Tell(t))

Asks(c) ==
  \/ NewClient(c) \/ Leave(c)
  \/ \E u \in Users, right \in BOOLEAN : AuthPassword(c, u, right)
  \/ \E ch \in Chans : \/ ChannelOpen(c, ch) \/ ChannelClose(c, ch)
                       \/ \E name \in {"sftp", "other"} : SubsystemRequest(c, ch, name)

Next ==
  \/ \E c \in Conns : Asks(c)
  \/ \E t \in Tasks : Ends(t) \/ \E announced \in BOOLEAN : Request(t, announced)
  \/ \E t \in Threads : Get(t) \/ TimeOut(t) \/ Runs(t)
  \/ Restart

Spec == Init /\ [][Next]_vars

\* A handler in progress runs on; one that waits gets a connection or, in the
\* end, times out.
LiveSpec ==
  /\ Spec
  /\ \A t \in Threads : WF_vars(Runs(t)) /\ WF_vars(Get(t) \/ TimeOut(t))
-----------------------------------------------------------------------------
(* What the server promises.                                               *)

\* An SFTP task acts for the user whose password its connection has proved,
\* whatever was tried before, also when the connection is gone
\* (sftp_server.rs:61-69, 93).
ActsAsProven ==
  \A c \in Conns :
    /\ ssh[c].authed => ssh[c].username = principal[c]
    /\ \A ch \in Chans : sftp[<<c, ch>>] \in {NoUser, principal[c]}

\* Whoever has a connection of the pool is using it: no handler waits for one
\* while it has one, and a thread that dies leaves none behind.
Busy       == {t \in Threads : call[t].at \in Waits \cup Uses}
HoldersUse == holds = {t \in Threads : call[t].at \in Uses}

\* A pool with a connection for every worker thread suffices: as long as no more
\* handlers are at the database than it has connections, none that waits can time
\* out.  The events are emitted by the code that uses the pool itself
\* (audit.rs:27, auth.rs:61, sftp_server.rs:62-63).
PoolSuffices ==
  \A t \in Threads : call[t].at \in Waits /\ Cardinality(Busy) <= PoolSize => ~Exhausted

\* What a client was told Ok for is in the table, or its failed insert was
\* printed: a kill between the insert and the answer, a wait for a connection
\* that fails and a restart leave nothing that was answered and not recorded.
\* The exception is CLOSE, which has no event (audit.rs:27-38,
\* sftp_server.rs:169-178, 316-317).
ToldOkIsRecorded ==
  \A i \in answered : deeds[i].logged => i \in printed \cup {r.deed : r \in rows}

\* A record names the user on whose behalf the deed was done
\* (server/README.md:56, database.rs:78, sftp_server.rs:93).
RecordsNameActor == \A r \in rows : r.username = deeds[r.deed].user

\* Over all connections, restarts and failed inserts the table is an audit trail:
\* each deed that is logged has one record at most, in the name of the user it was
\* done for, before its client is told, and no record ever changes or goes
\* (audit.rs:20-44, database.rs:76-83, sftp_server.rs:316-317).
Trail == INSTANCE AuditTrail
ImplementsAuditTrail == Trail!Spec

\* A pool that has nothing to give gives again (audit.rs:27-44, auth.rs:61-71).
PoolRecovers == Exhausted ~> ~Exhausted

\* Every handler ends, waiting or not: with an answer or with its task.
HandlersEnd == \A t \in Threads : call[t] # Idle ~> call[t] = Idle
=============================================================================
