------------------------------ MODULE SendQueue ------------------------------
(***************************************************************************)
(* The client's send queue: client/queue.c, a ring buffer of slots that    *)
(* own a heap copy of the encoded block.  queue_pop copies a slot out but  *)
(* leaves the payload and the pending mark in the ring; only queue_ack,    *)
(* called when the receiver's response arrives, releases them.  The ring   *)
(* is therefore two things at once: the window tail..head-1 of entries not *)
(* yet popped, and a store of popped entries that wait for their response. *)
(*                                                                         *)
(* Every operation holds q->mutex from its first read to its last write,   *)
(* so each is one action.                                                  *)
(***************************************************************************)
EXTENDS Integers, Sequences

CONSTANTS
  Capacity,     \* QUEUE_CAPACITY
  Depth,        \* BACKPRESSURE_QUEUE_DEPTH
  Keys,         \* the (devno, offset) pairs that name a block
  Payloads,     \* encoded blocks
  NULL,         \* a payload pointer that was never set or has been freed
  Resent,       \* keys that may be pushed while their response is outstanding
  MaxFlight     \* bound: frames of one key on the wire at a time

ASSUME QueueAssumption ==
  /\ Capacity \in Nat \ {0}
  /\ Depth \in 1 .. Capacity
  /\ NULL \notin Payloads
  /\ Resent \subseteq Keys
  /\ MaxFlight \in Nat

VARIABLES
  entries,      \* send_queue_t.entries: key, payload and pending of each slot
  head,         \* the slot the next push takes
  tail,         \* the slot the next pop takes
  count,        \* entries pushed and not popped
  backpressure, \* the flag that turns queue_push's result into 2
  flight        \* per key, frames on the wire whose response is still to come

vars == <<entries, head, tail, count, backpressure, flight>>

Slots == 0 .. Capacity - 1

\* queue_entry_t; hash and payload_len follow the payload and are left out.
Entry == [key : Keys, payload : Payloads \cup {NULL}, pending : {0, 1}]

\* (slot + 1) % QUEUE_CAPACITY, for a slot of the ring
NextSlot(i) == IF i + 1 = Capacity THEN 0 ELSE i + 1

\* How far slot s lies ahead of tail, going round the ring.
Ahead(s) == IF s >= tail THEN s - tail ELSE s - tail + Capacity

\* Slot s holds an entry that was pushed and not popped yet.
Waiting(s) == Ahead(s) < count

\* The slot i places ahead of tail.
SlotAt(i) == IF tail + i < Capacity THEN tail + i ELSE tail + i - Capacity

(***************************************************************************)
(* queue_init: memset to zero.  No slot is pending, no payload is set.     *)
(***************************************************************************)
queue_init ==
  /\ entries \in [Slots -> [key : Keys, payload : {NULL}, pending : {0}]]
  /\ \A s, t \in Slots : entries[s] = entries[t]
  /\ head = 0
  /\ tail = 0
  /\ count = 0
  /\ backpressure = FALSE
  /\ flight = [k \in Keys |-> 0]

\* Mutant: the index comes back to a slot that still waits.
queue_push_no_full_check(k, p) ==
  /\ entries' = [entries EXCEPT ![head] =
                   [key |-> k, payload |-> p, pending |-> 1]]
  /\ head' = NextSlot(head)
  /\ count' = IF count < Capacity THEN count + 1 ELSE count
  /\ backpressure' = IF count' >= Depth THEN TRUE ELSE backpressure
  /\ UNCHANGED <<tail, flight>>

(***************************************************************************)
(* queue_push: refuses when the window is full, else takes the slot at     *)
(* head, whatever a popped but unconfirmed entry left there, and raises    *)
(* the backpressure flag at Depth.  The entry is in the ring even when the *)
(* result is 2.                                                            *)
(***************************************************************************)
queue_push(k, p) ==
  /\ count < Capacity
  /\ entries' = [entries EXCEPT ![head] =
                   [key |-> k, payload |-> p, pending |-> 1]]
  /\ head' = NextSlot(head)
  /\ count' = count + 1
  /\ backpressure' = IF count' >= Depth THEN TRUE ELSE backpressure
  /\ UNCHANGED <<tail, flight>>

\* Mutant: the flag is only lowered when the window is empty.
queue_pop_flag_sticks(sent) ==
  /\ count > 0
  /\ tail' = NextSlot(tail)
  /\ count' = count - 1
  /\ backpressure' = IF count' = 0 THEN FALSE ELSE backpressure
  /\ LET k == entries[tail].key IN
     /\ sent => flight[k] < MaxFlight /\ entries[tail].payload # NULL
     /\ flight' = IF sent THEN [flight EXCEPT ![k] = @ + 1] ELSE flight
  /\ UNCHANGED <<entries, head>>

(***************************************************************************)
(* queue_pop, by flush_one (main.c): the slot at tail is copied out and    *)
(* the entry is either put on the wire or dropped for want of a working    *)
(* connection.  The slot itself is untouched.  What a send of a payload    *)
(* that has been freed would put on the wire is undefined and left out.    *)
(***************************************************************************)
queue_pop(sent) ==
  /\ count > 0
  /\ tail' = NextSlot(tail)
  /\ count' = count - 1
  /\ backpressure' = IF count' < Depth THEN FALSE ELSE backpressure
  /\ LET k == entries[tail].key IN
     /\ sent => flight[k] < MaxFlight /\ entries[tail].payload # NULL
     /\ flight' = IF sent THEN [flight EXCEPT ![k] = @ + 1] ELSE flight
  /\ UNCHANGED <<entries, head>>

\* The pending slots that carry key k; queue_ack takes the lowest of them.
Matching(k) == {s \in Slots : entries[s].pending = 1 /\ entries[s].key = k}

IsFirstMatch(s, k) == s \in Matching(k) /\ \A t \in Matching(k) : s <= t

\* Mutant: the scan takes any pending slot, not the one that matches.
queue_ack_ignores_key(k) ==
  /\ flight[k] > 0
  /\ flight' = [flight EXCEPT ![k] = @ - 1]
  /\ \/ \E s \in Slots :
          /\ entries[s].pending = 1
          /\ entries' = [entries EXCEPT ![s] =
                          [key |-> entries[s].key, payload |-> NULL, pending |-> 0]]
     \/ Matching(k) = {} /\ UNCHANGED entries
  /\ UNCHANGED <<head, tail, count, backpressure>>

(***************************************************************************)
(* queue_ack: the receiver's response for k frees the first pending slot,  *)
(* in slot order, whose key is k.  A response names a block and not a      *)
(* frame, so the slot need not be the one whose frame is answered.         *)
(***************************************************************************)
queue_ack(k) ==
  /\ flight[k] > 0
  /\ flight' = [flight EXCEPT ![k] = @ - 1]
  /\ \/ \E s \in Slots :
          /\ IsFirstMatch(s, k)
          /\ entries' = [entries EXCEPT ![s] =
                          [key |-> entries[s].key, payload |-> NULL, pending |-> 0]]
     \/ Matching(k) = {} /\ UNCHANGED entries
  /\ UNCHANGED <<head, tail, count, backpressure>>

\* What the callers of queue_push guarantee about k.  A plain full migration
\* pushes a block once; incremental rounds and the push loop that answers a
\* result of 2 push it again while an earlier frame is unconfirmed.
MayPush(k) ==
  k \in Resent \/ (flight[k] = 0 /\ \A s \in Slots : Waiting(s) => entries[s].key # k)

Next ==
  \/ \E k \in Keys, p \in Payloads : MayPush(k) /\ queue_push(k, p)
  \/ \E sent \in BOOLEAN : queue_pop(sent)
  \/ \E k \in Keys : queue_ack(k)

Spec == queue_init /\ [][Next]_vars

------------------------------------------------------------------------------
(***************************************************************************)
(* Properties.                                                             *)
(***************************************************************************)

\* The ring's variables have their types.
TypeOK ==
  /\ entries \in [Slots -> Entry]
  /\ head \in Slots
  /\ tail \in Slots
  /\ count \in 0 .. Capacity
  /\ backpressure \in BOOLEAN
  /\ flight \in [Keys -> Nat]

\* head, tail and count of queue.c agree after any mix of pushes, pops and
\* confirmations: the window of waiting entries is exactly tail .. head - 1.
WindowExact == head = SlotAt(count)

\* The flag queue_push returns 2 for says just what queue_should_backpressure
\* computes from count, although one is kept and the other derived.
BackpressureExact == backpressure <=> (count >= Depth)

\* An entry that waits to be sent keeps its payload, if its block is not pushed
\* while a response is outstanding: queue_ack never frees memory queue_pop is
\* about to hand to wire_send, whatever happens to other blocks.
WaitingIntact ==
  \A s \in Slots : Waiting(s) /\ entries[s].key \notin Resent =>
    entries[s].pending = 1 /\ entries[s].payload # NULL

\* A response is only outstanding for a block that no longer waits, and no
\* block waits twice: what makes WaitingIntact inductive.
WaitingDistinct ==
  \A s \in Slots : Waiting(s) /\ entries[s].key \notin Resent =>
    /\ flight[entries[s].key] = 0
    /\ \A t \in Slots : Waiting(t) /\ entries[t].key = entries[s].key => t = s

\* The inductive invariant of the ring.
RingInv ==
  TypeOK /\ WindowExact /\ BackpressureExact /\ WaitingDistinct /\ WaitingIntact

\* The waiting entries in the order they will be popped; of a block that is
\* resent only the key is followed.
WaitingItems ==
  [i \in 1 .. count |->
     LET e == entries[SlotAt(i - 1)]
     IN <<e.key, IF e.key \in Resent THEN NULL ELSE e.payload>>]

ItemFifo == INSTANCE FifoQueue
              WITH Items <- ((Keys \ Resent) \X Payloads) \cup (Resent \X {NULL}),
                   Bound <- Capacity, fifo <- WaitingItems

\* Blocks leave the ring in the order queue_push took them, none is lost or
\* handed out twice, whatever is confirmed in between; and for a block that is
\* not resent, what queue_pop hands out is what queue_push copied in.
ItemsFifo == ItemFifo!FifoSpec
==============================================================================
