--------------------------- MODULE SendQueueProofs ---------------------------
(***************************************************************************)
(* The ring buffer's invariant, for every capacity, backpressure depth and *)
(* set of keys and payloads.                                               *)
(***************************************************************************)
EXTENDS SendQueue, SequenceTheorems, TLAPS

\* The empty ring satisfies the invariant.
LEMMA RingInit == queue_init => RingInv
<1> SUFFICES ASSUME queue_init PROVE RingInv
  OBVIOUS
<1>1. TypeOK
  <2>1. entries \in [Slots -> Entry]
    <3>1. \A s \in Slots : entries[s] \in Entry
      BY DEF queue_init, Entry
    <3> QED
      BY <3>1 DEF queue_init
  <2>2. head \in Slots /\ tail \in Slots /\ count \in 0 .. Capacity
    BY QueueAssumption DEF queue_init, Slots
  <2>3. backpressure \in BOOLEAN
    BY DEF queue_init
  <2>4. flight \in [Keys -> Nat]
    BY DEF queue_init
  <2> QED
    BY <2>1, <2>2, <2>3, <2>4 DEF TypeOK
<1>2. WindowExact /\ BackpressureExact
  BY QueueAssumption DEF queue_init, WindowExact, BackpressureExact, SlotAt
<1>3. \A s \in Slots : ~Waiting(s)
  BY QueueAssumption DEF queue_init, Waiting, Ahead, Slots
<1> QED
  BY <1>1, <1>2, <1>3 DEF RingInv, WaitingDistinct, WaitingIntact

\* How a push moves the window: the slot at head, which did not wait, starts to
\* wait and no other slot changes.
LEMMA PushWindow ==
  ASSUME TypeOK, WindowExact, NEW k \in Keys, NEW p \in Payloads,
         queue_push(k, p)
  PROVE  /\ head \in Slots /\ ~Waiting(head)
         /\ head' \in Slots /\ count' \in 0 .. Capacity
         /\ WindowExact'
         /\ \A s \in Slots : Waiting(s)' <=> (Waiting(s) \/ s = head)
  BY QueueAssumption
  DEF TypeOK, WindowExact, queue_push, Slots, SlotAt, Waiting, Ahead, NextSlot

\* How a pop moves the window: the slot at tail, which waited, stops waiting.
LEMMA PopWindow ==
  ASSUME TypeOK, WindowExact, NEW sent \in BOOLEAN, queue_pop(sent)
  PROVE  /\ Waiting(tail)
         /\ tail' \in Slots /\ count' \in 0 .. Capacity
         /\ WindowExact'
         /\ \A s \in Slots : Waiting(s)' <=> (Waiting(s) /\ s # tail)
  BY QueueAssumption
  DEF TypeOK, WindowExact, queue_pop, Slots, SlotAt, Waiting, Ahead, NextSlot

\* queue_push keeps the invariant.
LEMMA PushStep ==
  ASSUME RingInv, NEW k \in Keys, NEW p \in Payloads, MayPush(k),
         queue_push(k, p)
  PROVE  RingInv'
<1> USE DEF RingInv
<1>1. TypeOK'
  BY PushWindow, QueueAssumption DEF TypeOK, queue_push, Slots, Entry
<1>2. WindowExact'
  BY PushWindow
<1>3. BackpressureExact'
  BY QueueAssumption DEF BackpressureExact, TypeOK, queue_push
<1>4. /\ entries'[head] = [key |-> k, payload |-> p, pending |-> 1]
      /\ \A s \in Slots : s # head => entries'[s] = entries[s]
  BY PushWindow DEF queue_push, TypeOK
<1>5. /\ head \in Slots /\ flight' = flight
      /\ \A s \in Slots : Waiting(s)' <=> (Waiting(s) \/ s = head)
  BY PushWindow DEF queue_push
<1>6. WaitingDistinct'
  <2> SUFFICES ASSUME NEW s \in Slots, Waiting(s)', entries'[s].key \notin Resent
               PROVE  /\ flight'[entries'[s].key] = 0
                      /\ \A t \in Slots : Waiting(t)'
                           /\ entries'[t].key = entries'[s].key => t = s
    BY DEF WaitingDistinct
  <2>1. k \notin Resent =>
          flight[k] = 0 /\ \A t \in Slots : Waiting(t) => entries[t].key # k
    BY DEF MayPush
  <2>2. CASE s = head
    BY <1>4, <1>5, <2>1, <2>2
  <2>3. CASE s # head
    BY <1>4, <1>5, <2>1, <2>3 DEF WaitingDistinct
  <2> QED
    BY <2>2, <2>3
<1>7. WaitingIntact'
  <2> SUFFICES ASSUME NEW s \in Slots, Waiting(s)', entries'[s].key \notin Resent
               PROVE  entries'[s].pending = 1 /\ entries'[s].payload # NULL
    BY DEF WaitingIntact
  <2>1. CASE s = head
    BY <1>4, <2>1, QueueAssumption
  <2>2. CASE s # head
    BY <1>4, <1>5, <2>2 DEF WaitingIntact
  <2> QED
    BY <2>1, <2>2
<1> QED
  BY <1>1, <1>2, <1>3, <1>6, <1>7

\* queue_pop keeps the invariant, whether flush_one sends or drops the entry.
LEMMA PopStep ==
  ASSUME RingInv, NEW sent \in BOOLEAN, queue_pop(sent)
  PROVE  RingInv'
<1> USE DEF RingInv
<1>1. TypeOK'
  <2>1. flight' \in [Keys -> Nat]
    <3>1. entries[tail].key \in Keys
      BY DEF TypeOK, Entry
    <3> QED
      BY <3>1 DEF TypeOK, queue_pop
  <2>2. tail' \in Slots /\ count' \in 0 .. Capacity
    BY PopWindow
  <2>3. backpressure' \in BOOLEAN
    BY DEF TypeOK, queue_pop
  <2>4. entries' = entries /\ head' = head
    BY DEF queue_pop
  <2> QED
    BY <2>1, <2>2, <2>3, <2>4 DEF TypeOK, Slots
<1>2. WindowExact'
  BY PopWindow
<1>3. BackpressureExact'
  BY QueueAssumption DEF BackpressureExact, TypeOK, queue_pop
<1>4. \A s \in Slots : s # tail /\ Waiting(s) /\ entries[s].key \notin Resent
        => flight'[entries[s].key] = flight[entries[s].key]
  BY PopWindow DEF queue_pop, TypeOK, WaitingDistinct, Entry
<1>5. WaitingDistinct'
  BY <1>4, PopWindow DEF WaitingDistinct, queue_pop
<1>6. WaitingIntact'
  BY PopWindow DEF WaitingIntact, queue_pop
<1> QED
  BY <1>1, <1>2, <1>3, <1>5, <1>6

\* queue_ack keeps the invariant: the slot it frees does not wait.
LEMMA AckStep ==
  ASSUME RingInv, NEW k \in Keys, queue_ack(k)
  PROVE  RingInv'
<1> USE DEF RingInv
<1>1. TypeOK'
  BY QueueAssumption DEF TypeOK, queue_ack, Entry, IsFirstMatch, Matching
<1>2. WindowExact' /\ BackpressureExact'
  BY DEF WindowExact, BackpressureExact, queue_ack, SlotAt
<1>3. \A s \in Slots : Waiting(s)' <=> Waiting(s)
  BY DEF Waiting, Ahead, queue_ack
<1>4. \A s \in Slots : entries'[s].key = entries[s].key
  BY DEF queue_ack, TypeOK, Entry
<1>5. \A j \in Keys : flight[j] = 0 => flight'[j] = 0
  BY DEF queue_ack, TypeOK
<1>6. WaitingDistinct'
  BY <1>3, <1>4, <1>5 DEF WaitingDistinct, TypeOK, Entry
<1>7. \A s \in Slots : Waiting(s) /\ entries[s].key \notin Resent
        => entries'[s] = entries[s]
  BY DEF WaitingDistinct, queue_ack, TypeOK, IsFirstMatch, Matching
<1>8. WaitingIntact'
  BY <1>3, <1>4, <1>7 DEF WaitingIntact
<1> QED
  BY <1>1, <1>2, <1>6, <1>8

\* The invariant holds in every reachable state of the ring.
THEOREM RingInvariant == Spec => []RingInv
<1>1. RingInv /\ [Next]_vars => RingInv'
  <2> SUFFICES ASSUME RingInv, [Next]_vars PROVE RingInv'
    OBVIOUS
  <2>1. CASE \E k \in Keys, p \in Payloads : MayPush(k) /\ queue_push(k, p)
    BY <2>1, PushStep
  <2>2. CASE \E sent \in BOOLEAN : queue_pop(sent)
    BY <2>2, PopStep
  <2>3. CASE \E k \in Keys : queue_ack(k)
    BY <2>3, AckStep
  <2>4. CASE UNCHANGED vars
    BY <2>4 DEF vars, RingInv, TypeOK, WindowExact, BackpressureExact,
       WaitingDistinct, WaitingIntact, SlotAt, Waiting, Ahead
  <2> QED
    BY <2>1, <2>2, <2>3, <2>4 DEF Next
<1> QED
  BY RingInit, <1>1, PTL DEF Spec

\* Type correctness of queue.c's ring for every capacity.
THEOREM RingTypeOK == Spec => []TypeOK
  BY RingInvariant, PTL DEF RingInv

\* The kept flag and the computed depth test of queue.c never disagree.
THEOREM BackpressureAgrees == Spec => []BackpressureExact
  BY RingInvariant, PTL DEF RingInv

\* No entry that waits to be sent loses its payload to queue_ack, if its block is
\* not pushed while a response is outstanding.
THEOREM PayloadsSurvive == Spec => []WaitingIntact
  BY RingInvariant, PTL DEF RingInv

------------------------------------------------------------------------------
(***************************************************************************)
(* The ring implements a bounded FIFO.                                     *)
(***************************************************************************)

\* What the FIFO holds for an entry.
Item(e) == <<e.key, IF e.key \in Resent THEN NULL ELSE e.payload>>

Items == ((Keys \ Resent) \X Payloads) \cup (Resent \X {NULL})

\* Append and Tail, entry by entry.
LEMMA AppendIs ==
  ASSUME NEW S, NEW s \in Seq(S), NEW x \in S
  PROVE  Append(s, x) = [i \in 1 .. Len(s) + 1 |-> IF i <= Len(s) THEN s[i] ELSE x]
<1> DEFINE t == [i \in 1 .. Len(s) + 1 |-> IF i <= Len(s) THEN s[i] ELSE x]
<1>1. Len(s) \in Nat /\ \A i \in 1 .. Len(s) : s[i] \in S
  OBVIOUS
<1>2. t \in Seq(S) /\ Len(t) = Len(s) + 1
  BY <1>1
<1>3. \A i \in 1 .. Len(s) + 1 : Append(s, x)[i] = t[i]
  BY <1>1
<1> HIDE DEF t
<1>4. Append(s, x) \in Seq(S) /\ Len(Append(s, x)) = Len(s) + 1
  OBVIOUS
<1>5. Append(s, x) = t
  BY <1>2, <1>3, <1>4, SeqEqual
<1> QED BY <1>5 DEF t

LEMMA TailIs ==
  ASSUME NEW S, NEW s \in Seq(S), s # << >>
  PROVE  Tail(s) = [i \in 1 .. Len(s) - 1 |-> s[i + 1]]
<1> DEFINE t == [i \in 1 .. Len(s) - 1 |-> s[i + 1]]
<1>1. Len(s) \in Nat /\ Len(s) > 0 /\ \A i \in 1 .. Len(s) : s[i] \in S
  OBVIOUS
<1>2. t \in Seq(S) /\ Len(t) = Len(s) - 1
  BY <1>1
<1>3. \A i \in 1 .. Len(s) - 1 : Tail(s)[i] = t[i]
  BY <1>1
<1> HIDE DEF t
<1>4. Tail(s) \in Seq(S) /\ Len(Tail(s)) = Len(s) - 1
  BY <1>1
<1>5. Tail(s) = t
  BY <1>2, <1>3, <1>4, SeqEqual
<1> QED BY <1>5 DEF t

\* Entry i of the FIFO is in the slot i - 1 places ahead of tail, and it waits.
LEMMA ItemsAre ==
  ASSUME RingInv
  PROVE  /\ count \in Nat /\ DOMAIN WaitingItems = 1 .. count
         /\ WaitingItems \in Seq(Items) /\ Len(WaitingItems) = count
         /\ \A i \in 1 .. count :
              /\ SlotAt(i - 1) \in Slots /\ Waiting(SlotAt(i - 1))
              /\ WaitingItems[i] = Item(entries[SlotAt(i - 1)])
<1>1. count \in Nat /\ DOMAIN WaitingItems = 1 .. count
  BY QueueAssumption DEF RingInv, TypeOK, WaitingItems
<1>2. \A i \in 1 .. count : SlotAt(i - 1) \in Slots /\ Waiting(SlotAt(i - 1))
  BY QueueAssumption DEF RingInv, TypeOK, Slots, SlotAt, Waiting, Ahead
<1>3. \A i \in 1 .. count : WaitingItems[i] = Item(entries[SlotAt(i - 1)])
  BY DEF WaitingItems, Item
<1>4. \A i \in 1 .. count : WaitingItems[i] \in Items
  <2> SUFFICES ASSUME NEW i \in 1 .. count PROVE Item(entries[SlotAt(i - 1)]) \in Items
    BY <1>3
  <2> DEFINE e == entries[SlotAt(i - 1)]
  <2>1. e.key \in Keys /\ e.payload \in Payloads \cup {NULL}
    BY <1>2 DEF RingInv, TypeOK, Entry
  <2>2. e.key \notin Resent => e.payload # NULL
    BY <1>2 DEF RingInv, WaitingIntact
  <2> QED BY <2>1, <2>2 DEF Item, Items
<1>5. WaitingItems \in [1 .. count -> Items]
  BY <1>4 DEF WaitingItems
<1> QED BY <1>1, <1>2, <1>3, <1>5

\* The same after a step.
LEMMA ItemsAreNext ==
  ASSUME count' \in Nat
  PROVE  /\ DOMAIN WaitingItems' = 1 .. count'
         /\ \A i \in 1 .. count' : WaitingItems'[i] = Item(entries'[SlotAt(i - 1)'])
         /\ WaitingItems' = [i \in 1 .. count' |-> WaitingItems'[i]]
BY DEF WaitingItems, Item

\* A push appends.
LEMMA PushIsFifoPush ==
  ASSUME RingInv, NEW k \in Keys, NEW p \in Payloads, queue_push(k, p)
  PROVE  ItemFifo!FifoNext
<1> DEFINE x == Item([key |-> k, payload |-> p, pending |-> 1])
<1>1. x \in Items
  BY QueueAssumption DEF Item, Items
<1>2. /\ count < Capacity /\ count' = count + 1 /\ count' \in Nat /\ tail' = tail
      /\ SlotAt(count) = head /\ count \in Nat
  BY DEF queue_push, RingInv, WindowExact, TypeOK
<1>3. entries'[head] = [key |-> k, payload |-> p, pending |-> 1]
  BY DEF queue_push, RingInv, TypeOK
<1>4. \A s \in Slots : s # head => entries'[s] = entries[s]
  BY DEF queue_push, RingInv, TypeOK
<1>5. ~Waiting(head)
  BY PushWindow DEF RingInv
<1>6. \A i : SlotAt(i)' = SlotAt(i)
  BY <1>2 DEF SlotAt
<1>7. \A i \in 1 .. count : WaitingItems'[i] = WaitingItems[i]
  <2> SUFFICES ASSUME NEW i \in 1 .. count PROVE WaitingItems'[i] = WaitingItems[i]
    OBVIOUS
  <2>1. i \in 1 .. count'
    BY <1>2
  <2>2. SlotAt(i - 1) \in Slots /\ SlotAt(i - 1) # head
    BY <1>5, ItemsAre
  <2>3. WaitingItems'[i] = Item(entries'[SlotAt(i - 1)])
    BY <1>2, <1>6, <2>1, ItemsAreNext
  <2> QED BY <1>4, <2>2, <2>3, ItemsAre
<1>8. WaitingItems'[count + 1] = x
  <2>1. count + 1 \in 1 .. count' /\ (count + 1) - 1 = count
    BY <1>2
  <2>2. WaitingItems'[count + 1] = Item(entries'[SlotAt((count + 1) - 1)])
    BY <1>2, <1>6, <2>1, ItemsAreNext
  <2> QED BY <1>2, <1>3, <2>1, <2>2
<1>9. WaitingItems' = Append(WaitingItems, x)
  <2> HIDE DEF x
  <2>1. /\ WaitingItems \in Seq(Items) /\ Len(WaitingItems) = count
        /\ WaitingItems' = [i \in 1 .. count + 1 |-> WaitingItems'[i]]
    BY <1>2, ItemsAre, ItemsAreNext
  <2>2. Append(WaitingItems, x) = [i \in 1 .. count + 1 |-> IF i <= count THEN WaitingItems[i] ELSE x]
    BY <1>1, <2>1, AppendIs
  <2>3. \A i \in 1 .. count + 1 : WaitingItems'[i] = IF i <= count THEN WaitingItems[i] ELSE x
    BY <1>2, <1>7, <1>8
  <2> QED BY <2>1, <2>2, <2>3
<1> QED BY <1>1, <1>2, <1>9, ItemsAre DEF ItemFifo!FifoNext, ItemFifo!FifoPush, Items

\* A pop, sent or dropped, takes the first one.
LEMMA PopIsFifoPop ==
  ASSUME RingInv, NEW sent \in BOOLEAN, queue_pop(sent)
  PROVE  ItemFifo!FifoNext
<1>1. /\ count > 0 /\ count' = count - 1 /\ count' \in Nat /\ count \in Nat
      /\ tail' = NextSlot(tail) /\ entries' = entries
  BY DEF queue_pop, RingInv, TypeOK
<1>2. \A i \in 1 .. count - 1 : SlotAt(i - 1)' = SlotAt(i)
  BY <1>1, QueueAssumption DEF SlotAt, NextSlot, RingInv, TypeOK, Slots
<1>3. \A i \in 1 .. count - 1 : WaitingItems'[i] = WaitingItems[i + 1]
  <2> SUFFICES ASSUME NEW i \in 1 .. count - 1 PROVE WaitingItems'[i] = WaitingItems[i + 1]
    OBVIOUS
  <2>1. i \in 1 .. count' /\ i + 1 \in 1 .. count /\ (i + 1) - 1 = i
    BY <1>1
  <2>2. WaitingItems'[i] = Item(entries[SlotAt(i)])
    BY <1>1, <1>2, <2>1, ItemsAreNext
  <2>3. WaitingItems[i + 1] = Item(entries[SlotAt((i + 1) - 1)])
    BY <2>1, ItemsAre
  <2> QED BY <2>1, <2>2, <2>3
<1>4. WaitingItems' = Tail(WaitingItems)
  <2>1. /\ WaitingItems \in Seq(Items) /\ Len(WaitingItems) = count
        /\ WaitingItems' = [i \in 1 .. count - 1 |-> WaitingItems'[i]]
    BY <1>1, ItemsAre, ItemsAreNext
  <2>2. Tail(WaitingItems) = [i \in 1 .. count - 1 |-> WaitingItems[i + 1]]
    BY <1>1, <2>1, TailIs
  <2> QED BY <1>3, <2>1, <2>2
<1>5. WaitingItems # << >>
  BY <1>1, ItemsAre
<1> QED BY <1>4, <1>5 DEF ItemFifo!FifoNext, ItemFifo!FifoPop

\* A confirmation is not seen.
LEMMA AckIsInvisible ==
  ASSUME RingInv, NEW k \in Keys, queue_ack(k)
  PROVE  WaitingItems' = WaitingItems
<1>1. UNCHANGED <<count, tail>> /\ flight[k] > 0 /\ count \in Nat
  BY DEF queue_ack, RingInv, TypeOK
<1>2. \A s \in Slots : Waiting(s) => Item(entries'[s]) = Item(entries[s])
  <2> SUFFICES ASSUME NEW s \in Slots, Waiting(s) PROVE Item(entries'[s]) = Item(entries[s])
    OBVIOUS
  <2>1. CASE entries'[s] = entries[s]
    BY <2>1
  <2>2. CASE entries'[s] # entries[s]
    <3>1. /\ entries[s].key = k
          /\ entries'[s] = [key |-> entries[s].key, payload |-> NULL, pending |-> 0]
      BY <2>2 DEF queue_ack, IsFirstMatch, Matching, RingInv, TypeOK
    <3>2. k \in Resent
      BY <1>1, <3>1 DEF RingInv, WaitingDistinct, TypeOK
    <3> QED BY <3>1, <3>2 DEF Item
  <2> QED BY <2>1, <2>2
<1>3. \A i \in 1 .. count : WaitingItems'[i] = WaitingItems[i]
  <2>1. \A i : SlotAt(i)' = SlotAt(i)
    BY <1>1 DEF SlotAt
  <2> QED BY <1>1, <1>2, <2>1, ItemsAre, ItemsAreNext
<1>4. /\ WaitingItems = [i \in 1 .. count |-> WaitingItems[i]]
      /\ WaitingItems' = [i \in 1 .. count |-> WaitingItems'[i]]
  BY <1>1, ItemsAreNext DEF WaitingItems
<1> QED BY <1>3, <1>4

\* queue.c is a FIFO of at most QUEUE_CAPACITY blocks, whatever is confirmed, sent
\* or dropped in between: it implements the module FifoQueue.
THEOREM RingIsFifo == Spec => ItemsFifo
<1>1. queue_init => ItemFifo!FifoInit
  BY DEF queue_init, ItemFifo!FifoInit, WaitingItems
<1>2. RingInv /\ [Next]_vars => [ItemFifo!FifoNext]_WaitingItems
  <2> SUFFICES ASSUME RingInv, [Next]_vars PROVE [ItemFifo!FifoNext]_WaitingItems
    OBVIOUS
  <2>1. CASE UNCHANGED vars
    BY <2>1 DEF vars, WaitingItems, SlotAt
  <2> QED BY <2>1, PushIsFifoPush, PopIsFifoPop, AckIsInvisible DEF Next
<1> QED BY <1>1, <1>2, RingInvariant, PTL DEF Spec, ItemsFifo, ItemFifo!FifoSpec
==============================================================================
