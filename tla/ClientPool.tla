----------------------------- MODULE ClientPool -----------------------------
(***************************************************************************)
(* How a command of the client uses its connection pool (client/pool.c).   *)
(* A slot holds a connection or NoConn (SOCKET_ERR).  Connections have     *)
(* identities of their own, so what the receiver has not handled of a      *)
(* connection that was closed - by a session that ended, or by             *)
(* pool_reap_stale - stays there while new ones are opened.                *)
(* SocketPool models the pool itself: its counters, descriptors and times. *)
(***************************************************************************)
EXTENDS Receiver

CONSTANTS
  NConns,         \* SOCKET_POOL_TARGET
  NoConn          \* SOCKET_ERR

ASSUME ClientPoolAssumption == NConns \in Nat \ {0} /\ NoConn \notin Conns

VARIABLES
  slot,           \* conns[i].fd, as the connection behind it
  next            \* next_index

poolVars == <<slot, next>>

Slots == 0 .. NConns - 1

NoneOpen == \A i \in Slots : slot[i] = NoConn

\* pool_count() is SOCKET_POOL_TARGET: every slot was connected, none was reaped.
PoolFull == \A i \in Slots : slot[i] # NoConn

\* Identities for new connections; there are enough of them, and which ones are
\* taken makes no difference.
Fresh == {c \in Conns : link[c] = "closed" /\ chan[c] = << >>}

Distinct(f) == \A i, j \in Slots : f[i] = f[j] => i = j

NewConns == CHOOSE f \in [Slots -> Fresh] : Distinct(f)

\* pool_init: k connections are made.  When the next attempt fails its slot stays
\* closed, and those behind it have descriptor 0, on which every send fails, like
\* on a connection whose peer is gone.
pool_init(k) ==
  /\ \E f \in [Slots -> Fresh] : Distinct(f)
  /\ slot' = [i \in Slots |-> IF i = k THEN NoConn ELSE NewConns[i]]
  /\ link' = [c \in Conns |->
                IF \E i \in Slots : i < k /\ c = NewConns[i] THEN "up"
                ELSE IF \E i \in Slots : i > k /\ c = NewConns[i] THEN "broken"
                ELSE link[c]]

\* Mutant: the index is not wrapped round.
After_no_wrap(i) == i + 1

After(i) == IF i + 1 = NConns THEN 0 ELSE i + 1

\* How far slot i is from next_index, going round.
Distance(i) == IF i >= next THEN i - next ELSE i + NConns - next

\* pool_acquire finds an open slot, searching from next_index.
AcquireOpen(c) ==
  /\ \E i \in Slots :
       /\ slot[i] = c
       /\ \A j \in Slots : slot[j] # NoConn => Distance(i) <= Distance(j)
       /\ next' = After(i)
  /\ UNCHANGED <<slot, link>>

\* pool_acquire finds none and connects, in the first slot.
AcquireNew(c) ==
  /\ NoneOpen
  /\ Fresh # {}
  /\ c = CHOOSE d \in Fresh : TRUE
  /\ slot' = [slot EXCEPT ![0] = c]
  /\ link' = [link EXCEPT ![c] = "up"]
  /\ next' = After(0)

pool_acquire(c) == AcquireOpen(c) \/ AcquireNew(c)

\* pool_acquire returns NULL: no slot is open and connect() fails.
AcquireFails ==
  /\ "connect" \in Faults
  /\ NoneOpen

\* The slots in S are closed; what was sent on them stays on its way.
CloseSlots(S) ==
  LET closed == {slot[i] : i \in S} IN
  /\ slot' = [i \in Slots |-> IF i \in S THEN NoConn ELSE slot[i]]
  /\ link' = [c \in Conns |-> IF c \in closed THEN "closed" ELSE link[c]]
  /\ resp' = [c \in Conns |-> IF c \in closed THEN << >> ELSE resp[c]]

\* pool_destroy, or the end of the process.
pool_destroy ==
  /\ CloseSlots(Slots)
  /\ next' = 0

PoolInit ==
  /\ slot = [i \in Slots |-> NoConn]
  /\ next = 0

PoolTypeOK ==
  /\ slot \in [Slots -> Conns \cup {NoConn}]
  /\ next \in Slots
==============================================================================
