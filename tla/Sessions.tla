------------------------------ MODULE Sessions ------------------------------
(***************************************************************************)
(* The receiver's connections: the listening socket, the session table     *)
(* (server/session.c) and the select loop that serves it (server_run,      *)
(* handle_session in server/main.c).                                       *)
(*                                                                         *)
(* What travels is counted in pieces, each of which one recv() takes; how  *)
(* frames are found in them is the subject of the module Framing.  A       *)
(* connection is named by a number that is free again when both sides have *)
(* closed it.  The module Connections adds the client's pool.              *)
(***************************************************************************)
EXTENDS Integers, Sequences, SequencesExt

CONSTANTS
  MaxConnections, \* max_connections of the receiver's configuration
  MaxSessions,    \* MAX_SESSIONS
  Fds,            \* names of connections
  SockBuf         \* pieces the sockets of a connection hold

ASSUME SessionsAssumption ==
  /\ MaxConnections \in Nat
  /\ MaxSessions \in Nat
  /\ Fds \subseteq Nat \ {0} /\ IsFiniteSet(Fds)
  /\ SockBuf \in Nat \ {0}

VARIABLES
  backlog,        \* connections the kernel has completed and nobody accepted
  inq,            \* per connection: pieces sent and not read
  eof,            \* connections the client has closed and the receiver has not
  refused,        \* connections the receiver has closed and the client has not
  table,          \* g_sessions
  ready, lready,  \* what select() reported: sessions, listening socket
  idx,            \* session_foreach's index
  spc             \* select, accept, foreach

svars == <<backlog, inq, eof, refused, table, ready, lready, idx, spc>>

SInit ==
  /\ backlog = << >> /\ table = << >>
  /\ inq = [f \in Fds |-> 0]
  /\ eof = {} /\ refused = {}
  /\ ready = {} /\ lready = FALSE /\ idx = 1 /\ spc = "select"

(***************************************************************************)
(* What the client does to the connections.                                *)
(***************************************************************************)

\* connect(): the kernel completes it whether or not the receiver will keep it.
Connect(fs) ==
  /\ backlog' = backlog \o fs
  /\ UNCHANGED <<eof, refused, table, ready, lready, idx, spc>>

\* close().
Close(F) ==
  /\ eof' = eof \cup (F \ refused)
  /\ refused' = refused \ F
  /\ UNCHANGED <<backlog, inq, table, ready, lready, idx, spc>>

\* send_all spins while the sockets are full.  What is sent to a connection the
\* receiver has closed is lost.
Deliver(f) ==
  /\ \/ f \in refused /\ UNCHANGED inq
     \/ f \notin refused /\ inq[f] < SockBuf /\ inq' = [inq EXCEPT ![f] = @ + 1]
  /\ UNCHANGED <<backlog, eof, refused, table, ready, lready, idx, spc>>

(***************************************************************************)
(* The receiver.                                                           *)
(***************************************************************************)

\* Mutant: select() is called with max_fd instead of max_fd + 1.
Readable_max_fd ==
  {f \in Range(table) : (inq[f] > 0 \/ f \in eof) /\ \E g \in Range(table) : g > f}

Readable == {f \in Range(table) : inq[f] > 0 \/ f \in eof}

\* select() over the listening socket and every session.  A pass after a timeout
\* does nothing and is left out.
Select ==
  /\ spc = "select"
  /\ Readable # {} \/ backlog # << >>
  /\ ready' = Readable
  /\ lready' = (backlog # << >>)
  /\ spc' = "accept"
  /\ UNCHANGED <<backlog, inq, eof, refused, table, idx>>

\* Mutant: the limit is compared one too early.
TableFull_early == Len(table) + 1 >= MaxConnections \/ Len(table) >= MaxSessions

\* server_run's limit, and session_create's.
TableFull == Len(table) >= MaxConnections \/ Len(table) >= MaxSessions

\* The connection is closed at once.
Refuse(f) ==
  /\ refused' = IF f \in eof THEN refused ELSE refused \cup {f}
  /\ inq' = [inq EXCEPT ![f] = 0]
  /\ eof' = eof \ {f}
  /\ UNCHANGED table

\* session_create.
session_create(f) ==
  /\ table' = Append(table, f)
  /\ UNCHANGED <<refused, inq, eof>>

\* One accept() per pass, before the sessions are looked at.
Accept ==
  /\ spc = "accept"
  /\ IF lready
     THEN /\ backlog' = Tail(backlog)
          /\ IF TableFull THEN Refuse(Head(backlog)) ELSE session_create(Head(backlog))
     ELSE UNCHANGED <<backlog, table, refused, inq, eof>>
  /\ idx' = 1
  /\ spc' = "foreach"
  /\ UNCHANGED <<ready, lready>>

\* session_foreach with handle_active_cb: a session that is not readable.
SkipSession ==
  /\ spc = "foreach"
  /\ idx <= Len(table) /\ table[idx] \notin ready
  /\ idx' = idx + 1
  /\ UNCHANGED <<backlog, inq, eof, refused, table, ready, lready, spc>>

\* handle_session is reading the session f.
Reading(f) == spc = "foreach" /\ idx <= Len(table) /\ table[idx] = f /\ f \in ready

ForeachEnds ==
  /\ spc = "foreach"
  /\ idx > Len(table)
  /\ spc' = "select" /\ idx' = 1
  /\ ready' = {} /\ lready' = FALSE
  /\ UNCHANGED <<backlog, inq, eof, refused, table>>

\* Mutant: the array is shortened and not moved up.
session_remove_last(i) == table' = SubSeq(table, 1, Len(table) - 1)

\* session_remove moves the later sessions up.
session_remove(i) == table' = RemoveAt(table, i)

\* handle_session reads as long as there is something.
recv ==
  /\ \E f \in ready :
       /\ Reading(f) /\ inq[f] > 0
       /\ inq' = [inq EXCEPT ![f] = @ - 1]
  /\ UNCHANGED <<backlog, eof, refused, table, ready, lready, idx, spc>>

\* EAGAIN: on to the next session.
recv_again ==
  /\ \E f \in ready : Reading(f) /\ inq[f] = 0 /\ f \notin eof
  /\ idx' = idx + 1
  /\ UNCHANGED <<backlog, inq, eof, refused, table, ready, lready, spc>>

\* Mutant: the end of the stream is taken for EAGAIN.
recv_eof_ignored ==
  /\ \E f \in ready : Reading(f) /\ inq[f] = 0 /\ f \in eof
  /\ idx' = idx + 1
  /\ UNCHANGED <<backlog, inq, eof, refused, table, ready, lready, spc>>

\* End of the stream: the session is removed, the next one moves into its place
\* and session_foreach goes on behind it.
recv_eof ==
  /\ \E f \in ready : Reading(f) /\ inq[f] = 0 /\ f \in eof
  /\ session_remove(idx)
  /\ eof' = eof \ {table[idx]}
  /\ idx' = idx + 1
  /\ UNCHANGED <<backlog, inq, refused, ready, lready, spc>>

\* recv() fails, the decoder finds a protocol error or there is no memory for it:
\* the session is removed while the client may still hold the connection.
session_fails ==
  /\ \E f \in ready :
       /\ Reading(f)
       /\ refused' = IF f \in eof THEN refused ELSE refused \cup {f}
       /\ inq' = [inq EXCEPT ![f] = 0]
       /\ eof' = eof \ {f}
  /\ session_remove(idx)
  /\ idx' = idx + 1
  /\ UNCHANGED <<backlog, ready, lready, spc>>

ServerStep ==
  \/ Select \/ Accept
  \/ SkipSession \/ ForeachEnds
  \/ recv \/ recv_again \/ recv_eof

------------------------------------------------------------------------------
(***************************************************************************)
(* Properties.                                                             *)
(***************************************************************************)

\* A connection is refused only while sessions of a client that has gone are in the
\* table: the receiver's limit is never in the way of one pool.
RefusedOnlyForTheDead ==
  [][\A f \in Range(backlog) : f \in refused' \ refused
       => \E g \in Range(table) : g \in eof]_svars

\* What is sent is read: neither a busy session, which handle_session reads until
\* it is empty, nor the removal of another one keeps a session from its turn.
SentIsRead ==
  \A f \in Fds :
    f \in Range(table) /\ inq[f] > 0
      ~> f \notin Range(table) \/ Reading(f)

\* The session of a client that has gone makes room.
DeadSessionRemoved == \A f \in Fds : f \in eof ~> f \notin eof
=============================================================================
