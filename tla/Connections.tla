---------------------------- MODULE Connections -----------------------------
(***************************************************************************)
(* The client's connection pool (SocketPool) and the receiver's session    *)
(* table (Sessions) together: every connection one side opens, uses or     *)
(* closes is one of the other's.                                           *)
(***************************************************************************)
EXTENDS SocketPool, Sessions

VARIABLE sock     \* per slot: its connection, NoFd when it has none

cvars == <<vars, svars, sock>>

NoFd == 0

Socks == {sock[i] : i \in Slots} \ {NoFd}

\* Connections that neither side knows, in the order in which they are used.
Fresh == SetToSeq(Fds \ (Socks \cup Range(backlog) \cup Range(table)))

CInit == Init /\ SInit /\ sock = [i \in Slots |-> NoFd]

\* pool_init connects the first k slots.
Start(k) ==
  /\ k <= Len(Fresh)                        \* bound: names of connections
  /\ pool_init(k)
  /\ sock' = [i \in Slots |-> IF i < k THEN Fresh[i + 1] ELSE NoFd]
  /\ Connect(SubSeq(Fresh, 1, k))
  /\ UNCHANGED inq

\* A connection in slot i is made by pool_acquire, and n pieces are sent on it.
ConnectSlot(i, n) ==
  /\ Fresh # << >>                          \* bound: names of connections
  /\ sock' = [sock EXCEPT ![i] = Fresh[1]]
  /\ Connect(<<Fresh[1]>>)
  /\ inq' = [inq EXCEPT ![Fresh[1]] = n]

\* flush_one.  A slot that has no send buffer sends nothing.
SendOpen(i) ==
  /\ UseOpen(i)
  /\ IF sock[i] = NoFd THEN UNCHANGED svars ELSE Deliver(sock[i])
  /\ UNCHANGED sock

SendNew(i) == UseNew(i) /\ ConnectSlot(i, 1)

SendBlock == \E i \in Slots : SendOpen(i) \/ SendNew(i)

CloseSlots(I) ==
  /\ sock' = [i \in Slots |-> IF i \in I THEN NoFd ELSE sock[i]]
  /\ Close({sock[i] : i \in I} \ {NoFd})

Reap == pool_reap_stale /\ CloseSlots({i \in Slots : fd'[i] = "err"})

Reconnect ==
  /\ ReconnectLoop
  /\ LET made == {i \in Slots : fd[i] = "err" /\ fd'[i] = "open"} IN
     IF made = {} THEN UNCHANGED <<svars, sock>> ELSE \E i \in made : ConnectSlot(i, 0)

\* The client ends, or is killed; its sockets are closed.
ClientEnds == pool_destroy /\ CloseSlots(Slots)

Elsewhere ==
  /\ ReconnectReturns \/ Restart \/ Reach \/ \E i \in Slots : Age(i)
  /\ UNCHANGED <<svars, sock>>

Receive == ServerStep /\ UNCHANGED <<vars, sock>>

Fails == session_fails /\ UNCHANGED <<vars, sock>>

CNext ==
  \/ \E k \in 0 .. Size : Start(k)
  \/ SendBlock \/ Reap \/ Reconnect \/ ClientEnds \/ Elsewhere
  \/ Receive \/ Fails

CSpec == CInit /\ [][CNext]_cvars

\* Fairness as in the two parts: the receiver runs, and so does the client while
\* it is there.
CFair ==
  /\ CSpec
  /\ WF_cvars(Receive)
  /\ SF_cvars(SendBlock)

------------------------------------------------------------------------------
(***************************************************************************)
(* Properties.                                                             *)
(***************************************************************************)

\* The session table is exact: a connection the client holds waits in the
\* backlog, has one session or was refused, never two of these, and a session
\* whose client has gone is one that still has its end to read.
TableExact ==
  /\ IsInjective(table \o backlog)
  /\ Range(table \o backlog) = (Socks \ refused) \cup eof
  /\ Len(table) <= MaxConnections

------------------------------------------------------------------------------
(***************************************************************************)
(* The inductive invariant behind it.                                      *)
(***************************************************************************)

ConnTypeOK ==
  /\ TypeOK
  /\ sock \in [Slots -> Fds \cup {NoFd}]
  /\ table \in Seq(Fds) /\ backlog \in Seq(Fds)
  /\ eof \subseteq Fds /\ refused \subseteq Fds
  /\ idx \in Nat \ {0}

\* The slots that have a connection are the open ones, and no two have the same.
SocksExact ==
  /\ \A i \in Slots : sock[i] # NoFd <=> fd[i] = "open"
  /\ \A i, j \in Slots : sock[i] = sock[j] /\ sock[i] # NoFd => i = j
  /\ pc \in {"start", "exit"} => \A i \in Slots : fd[i] # "open"

\* What the receiver has closed is still the client's, what the client has closed
\* is not; what select() reported is still there to be accepted.
EndsApart ==
  /\ refused \subseteq Socks /\ eof \cap Socks = {}
  /\ spc = "accept" /\ lready => backlog # << >>

ConnInv == ConnTypeOK /\ SocksExact /\ EndsApart /\ TableExact
=============================================================================
