----------------------------- MODULE SocketPool -----------------------------
(***************************************************************************)
(* The client's connection pool (client/pool.c) and do_reconnect           *)
(* (client/main.c), which is meant to keep it full.                        *)
(*                                                                         *)
(* A slot's descriptor is "err" (SOCKET_ERR), "open" (a connected socket)  *)
(* or "zero": pool_init clears the whole pool and leaves its loop at the   *)
(* first connection that fails, so the slots behind it keep descriptor 0,  *)
(* which is not SOCKET_ERR, and have no buffer to send from.               *)
(* One thread uses the pool: a connection is acquired, used and released   *)
(* in one step.                                                            *)
(***************************************************************************)
EXTENDS Integers, FiniteSets

CONSTANT Size     \* SOCKET_POOL_TARGET

ASSUME PoolAssumption == Size \in Nat \ {0}

VARIABLES
  fd,             \* per slot: err, open or zero
  scratch,        \* slots that have a send buffer
  stale,          \* slots not touched for STALE_SOCKET_TIMEOUT_SEC
  count,          \* socket_pool_t.count
  next,           \* next_index
  pc,             \* start, ready, reconnect (inside do_reconnect's loop), exit
  reachable,      \* whether connect() succeeds
  last            \* the slot used last, Size before the first use

vars == <<fd, scratch, stale, count, next, pc, reachable, last>>

Slots == 0 .. Size - 1

Init ==
  /\ fd = [i \in Slots |-> "zero"]
  /\ scratch = {}
  /\ stale = {}
  /\ count = 0
  /\ next = 0
  /\ pc = "start"
  /\ reachable = TRUE
  /\ last = Size

\* pool_init: k connections are made, the next attempt fails.  A slot that was
\* never reached has last_active 0, which is stale at once.
pool_init(k) ==
  /\ pc = "start"
  /\ pc' = IF k = 0 THEN "exit" ELSE "ready"
  /\ fd' = [i \in Slots |-> IF i < k THEN "open" ELSE IF i = k THEN "err" ELSE "zero"]
  /\ scratch' = {i \in Slots : i <= k}
  /\ stale' = {i \in Slots : i > k}
  /\ count' = k
  /\ UNCHANGED <<next, reachable, last>>

\* Mutant: the search always starts at slot 0.
IsNextUsable_first(i) == fd[i] # "err" /\ \A j \in Slots : fd[j] # "err" => i <= j

\* The slot pool_acquire's first loop stops at, searching from next.
IsNextUsable(i) ==
  /\ fd[i] # "err"
  /\ \A j \in Slots : fd[j] # "err" => (i - next) % Size <= (j - next) % Size

NoneUsable == \A i \in Slots : fd[i] = "err"

\* The slot in which pool_acquire opens a new connection: the first one that is
\* closed and has a buffer.
IsNextFree(i) ==
  /\ fd[i] = "err" /\ i \in scratch
  /\ \A j \in scratch : fd[j] = "err" => i <= j

\* pool_acquire finds an open slot.
AcquireOpen(i) ==
  /\ IsNextUsable(i)
  /\ next' = (i + 1) % Size
  /\ UNCHANGED <<fd, count>>

\* Mutant: the count is not brought up to date.
AcquireNew_no_count(i) ==
  /\ NoneUsable
  /\ count < Size
  /\ IsNextFree(i)
  /\ reachable
  /\ fd' = [fd EXCEPT ![i] = "open"]
  /\ next' = (i + 1) % Size
  /\ UNCHANGED count

\* pool_acquire has to connect.
AcquireNew(i) ==
  /\ NoneUsable
  /\ count < Size
  /\ IsNextFree(i)
  /\ reachable
  /\ fd' = [fd EXCEPT ![i] = "open"]
  /\ count' = count + 1
  /\ next' = (i + 1) % Size

\* pool_acquire returns NULL.
AcquireFails ==
  /\ NoneUsable
  /\ count >= Size \/ ~reachable \/ \A i \in scratch : fd[i] # "err"
  /\ UNCHANGED <<fd, count, next>>

\* flush_one: acquire, send, pool_touch, release.  A send that fails touches
\* the connection as well, and the descriptor stays.
UseOpen(i) ==
  /\ pc = "ready"
  /\ AcquireOpen(i)
  /\ stale' = stale \ {i}
  /\ last' = i
  /\ UNCHANGED <<scratch, pc, reachable>>

\* flush_one on a connection made for it.
UseNew(i) ==
  /\ pc = "ready"
  /\ AcquireNew(i)
  /\ stale' = stale \ {i}
  /\ last' = i
  /\ UNCHANGED <<scratch, pc, reachable>>

\* do_reconnect begins: pool_reap_stale closes what has not been used.
pool_reap_stale ==
  /\ pc = "ready"
  /\ LET reaped == {i \in stale : fd[i] # "err"} IN
     /\ fd' = [i \in Slots |-> IF i \in reaped THEN "err" ELSE fd[i]]
     /\ count' = count - Cardinality(reaped)
     /\ stale' = stale \ reaped
  /\ pc' = "reconnect"
  /\ UNCHANGED <<scratch, next, reachable, last>>

\* The loop of do_reconnect: while below Size, acquire and release.
ReconnectLoop ==
  /\ pc = "reconnect"
  /\ count < Size
  /\ \/ \E i \in Slots : AcquireOpen(i) /\ UNCHANGED <<stale, pc>>
     \/ \E i \in Slots : AcquireNew(i) /\ stale' = stale \ {i} /\ UNCHANGED pc
     \/ AcquireFails /\ pc' = "ready" /\ UNCHANGED stale
  /\ UNCHANGED <<scratch, reachable, last>>

ReconnectReturns ==
  /\ pc = "reconnect"
  /\ count >= Size
  /\ pc' = "ready"
  /\ UNCHANGED <<fd, scratch, stale, count, next, reachable, last>>

\* pool_destroy at the end of a command, or the death of the process.
pool_destroy ==
  /\ pc \in {"ready", "reconnect"}
  /\ pc' = "exit"
  /\ fd' = [i \in Slots |-> "err"]
  /\ scratch' = {} /\ stale' = {} /\ count' = 0
  /\ next' = 0 /\ last' = Size
  /\ UNCHANGED reachable

\* The client is started again.
Restart ==
  /\ pc = "exit"
  /\ pc' = "start"
  /\ fd' = [i \in Slots |-> "zero"]
  /\ scratch' = {} /\ stale' = {} /\ count' = 0
  /\ next' = 0 /\ last' = Size
  /\ UNCHANGED reachable

\* Twelve minutes without a send on slot i.
Age(i) ==
  /\ pc = "ready"
  /\ fd[i] = "open"
  /\ stale' = stale \cup {i}
  /\ UNCHANGED <<fd, scratch, count, next, pc, reachable, last>>

\* The receiver stops or starts to accept connections.
Reach ==
  /\ reachable' = ~reachable
  /\ UNCHANGED <<fd, scratch, stale, count, next, pc, last>>

Use == \E i \in Slots : UseOpen(i) \/ UseNew(i)

Next ==
  \/ \E k \in 0 .. Size : pool_init(k)
  \/ Use
  \/ pool_reap_stale \/ ReconnectLoop \/ ReconnectReturns
  \/ pool_destroy \/ Restart
  \/ \E i \in Slots : Age(i)
  \/ Reach

Spec == Init /\ [][Next]_vars

\* The client keeps sending, its reconnect timer keeps firing and the loop of
\* do_reconnect keeps running.
FairSpec ==
  /\ Spec
  /\ SF_vars(Use)
  /\ SF_vars(pool_reap_stale)
  /\ WF_vars(ReconnectLoop)
  /\ WF_vars(ReconnectReturns)

------------------------------------------------------------------------------
(***************************************************************************)
(* Properties.                                                             *)
(***************************************************************************)

\* The pool's variables have their types.
TypeOK ==
  /\ fd \in [Slots -> {"err", "open", "zero"}]
  /\ scratch \subseteq Slots
  /\ stale \subseteq Slots
  /\ count \in Int
  /\ next \in Slots
  /\ pc \in {"start", "ready", "reconnect", "exit"}
  /\ reachable \in BOOLEAN
  /\ last \in 0 .. Size

OpenSlots == {i \in Slots : fd[i] # "err"}

\* When pool_init reached every slot, count is the number of descriptors in use
\* whatever is reaped and reopened later; do_reconnect's loop and pool_acquire
\* decide by it.
CountExact == scratch = Slots => count = Cardinality(OpenSlots)

\* pool_acquire goes round: as long as the client sends and do_reconnect returns,
\* every open connection carries a block again and again, so none goes stale
\* behind the others.
EveryConnUsed ==
  []<>(pc = "ready") =>
    \A i \in Slots : (pc = "ready" /\ fd[i] = "open") ~> (last = i \/ fd[i] # "open")

\* do_reconnect's comment: below the target it tries to get new connections.  It is
\* one of the timers' handlers, so the client relies on its loop being left, be it
\* by the end of the process.
ReconnectComesBack == (pc = "reconnect") ~> (pc # "reconnect")
==============================================================================
