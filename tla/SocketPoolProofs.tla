--------------------------- MODULE SocketPoolProofs ---------------------------
(***************************************************************************)
(* Theorems about the connection pool for every size of it.                *)
(***************************************************************************)
EXTENDS SocketPool, FiniteSetTheorems, TLAPS

\* There are Size slots, and a set of slots is finite.
LEMMA SlotsFinite ==
  /\ IsFiniteSet(Slots) /\ Cardinality(Slots) = Size
  /\ \A S \in SUBSET Slots : IsFiniteSet(S) /\ Cardinality(S) \in Nat
<1>1. IsFiniteSet(Slots) /\ Cardinality(Slots) = Size
  BY FS_Interval, PoolAssumption DEF Slots
<1> QED
  BY <1>1, FS_Subset, FS_CardinalityType

\* The index pool_acquire leaves behind is that of a slot.
LEMMA WrapsRound == \A i \in Slots : (i + 1) % Size \in Slots
  BY PoolAssumption DEF Slots

\* Every operation keeps the types.
LEMMA TypesStep == TypeOK /\ [Next]_vars => TypeOK'
<1> SUFFICES ASSUME TypeOK, [Next]_vars PROVE TypeOK'
  OBVIOUS
<1> USE PoolAssumption
<1>0. 0 \in Slots
  BY DEF Slots
<1>1. ASSUME NEW k \in 0 .. Size, pool_init(k) PROVE TypeOK'
  BY <1>1 DEF pool_init, TypeOK
<1>2. ASSUME NEW i \in Slots, UseOpen(i) \/ UseNew(i) PROVE TypeOK'
  <2>1. last' \in 0 .. Size
    BY <1>2 DEF UseOpen, UseNew, Slots
  <2> QED
    BY <1>2, <2>1, WrapsRound DEF UseOpen, UseNew, AcquireOpen, AcquireNew, TypeOK
<1>3. CASE pool_reap_stale
  <2> DEFINE reaped == {i \in stale : fd[i] # "err"}
  <2>1. Cardinality(reaped) \in Nat
    BY SlotsFinite DEF TypeOK
  <2> QED
    BY <1>3, <2>1 DEF pool_reap_stale, TypeOK
<1>4. CASE ReconnectLoop
  <2>1. CASE \E i \in Slots : AcquireOpen(i) /\ UNCHANGED <<stale, pc>>
    BY <1>4, <2>1, WrapsRound DEF ReconnectLoop, AcquireOpen, TypeOK
  <2>2. CASE \E i \in Slots : AcquireNew(i) /\ stale' = stale \ {i} /\ UNCHANGED pc
    BY <1>4, <2>2, WrapsRound DEF ReconnectLoop, AcquireNew, TypeOK
  <2>3. CASE AcquireFails /\ pc' = "ready" /\ UNCHANGED stale
    BY <1>4, <2>3 DEF ReconnectLoop, AcquireFails, TypeOK
  <2> QED
    BY <1>4, <2>1, <2>2, <2>3 DEF ReconnectLoop
<1>5. CASE ReconnectReturns
  BY <1>5 DEF ReconnectReturns, TypeOK
<1>6. CASE pool_destroy \/ Restart
  BY <1>6, <1>0 DEF pool_destroy, Restart, TypeOK
<1>7. CASE (\E i \in Slots : Age(i)) \/ Reach
  BY <1>7 DEF Age, Reach, TypeOK
<1>8. CASE UNCHANGED vars
  BY <1>8 DEF vars, TypeOK
<1> QED
  BY <1>1, <1>2, <1>3, <1>4, <1>5, <1>6, <1>7, <1>8 DEF Next, Use

LEMMA InitTypes == Init => TypeOK
  BY PoolAssumption DEF Init, TypeOK, Slots

\* pool_init, every acquisition, reaping, destroying and restarting keep the types
\* of the pool's state; next_index in particular always names a slot.
THEOREM PoolTypes == Spec => []TypeOK
  BY InitTypes, TypesStep, PTL DEF Spec

------------------------------------------------------------------------------
(***************************************************************************)
(* The count of connections.                                               *)
(***************************************************************************)

\* Opening one closed slot adds one to the open ones.
LEMMA CountNew ==
  ASSUME TypeOK, CountExact, NEW i \in Slots, AcquireNew(i), UNCHANGED scratch
  PROVE  CountExact'
<1>1. OpenSlots' = OpenSlots \cup {i} /\ i \notin OpenSlots
  BY DEF AcquireNew, IsNextFree, OpenSlots, TypeOK
<1>2. Cardinality(OpenSlots') = Cardinality(OpenSlots) + 1
  BY <1>1, SlotsFinite, FS_AddElement DEF OpenSlots
<1> QED
  BY <1>2 DEF CountExact, AcquireNew

\* A step that leaves count and descriptors alone.
LEMMA CountSame ==
  ASSUME CountExact, UNCHANGED <<fd, count, scratch>> PROVE CountExact'
  BY DEF CountExact, OpenSlots

\* pool_init has reached every slot when it stops at the last one or not at all.
LEMMA CountInit ==
  ASSUME NEW k \in 0 .. Size, pool_init(k) PROVE CountExact'
<1> SUFFICES ASSUME scratch' = Slots PROVE count' = Cardinality(OpenSlots')
  BY DEF CountExact
<1> USE PoolAssumption
<1>1. k >= Size - 1
  <2>1. Size - 1 \in scratch'
    BY DEF Slots
  <2> QED
    BY <2>1 DEF pool_init
<1>2. OpenSlots' = 0 .. k - 1
  BY <1>1 DEF OpenSlots, pool_init, Slots
<1>3. Cardinality(0 .. k - 1) = k
  BY FS_Interval
<1> QED
  BY <1>2, <1>3 DEF pool_init

\* Reaping subtracts as many as it closes.
LEMMA CountReap ==
  ASSUME TypeOK, CountExact, pool_reap_stale PROVE CountExact'
<1> DEFINE reaped == {i \in stale : fd[i] # "err"}
<1>1. OpenSlots' = OpenSlots \ reaped /\ reaped \subseteq OpenSlots
  BY DEF pool_reap_stale, OpenSlots, TypeOK
<1>2. Cardinality(OpenSlots \ reaped) = Cardinality(OpenSlots) - Cardinality(OpenSlots \cap reaped)
  BY SlotsFinite, FS_Difference DEF OpenSlots
<1>3. OpenSlots \cap reaped = reaped
  BY <1>1
<1>4. count' = count - Cardinality(reaped) /\ UNCHANGED scratch
  BY DEF pool_reap_stale
<1> HIDE DEF reaped
<1> QED
  BY <1>1, <1>2, <1>3, <1>4 DEF CountExact

LEMMA CountStep == TypeOK /\ CountExact /\ [Next]_vars => CountExact'
<1> SUFFICES ASSUME TypeOK, CountExact, [Next]_vars PROVE CountExact'
  OBVIOUS
<1>1. ASSUME NEW i \in Slots, UseOpen(i) \/ UseNew(i) PROVE CountExact'
  BY <1>1, CountNew, CountSame DEF UseOpen, UseNew, AcquireOpen
<1>2. CASE ReconnectLoop
  BY <1>2, CountNew, CountSame DEF ReconnectLoop, AcquireOpen, AcquireFails
<1>3. CASE pool_destroy \/ Restart
  <2>1. 0 \in Slots /\ scratch' = {}
    BY <1>3, PoolAssumption DEF pool_destroy, Restart, Slots
  <2> QED
    BY <2>1 DEF CountExact
<1>4. CASE ReconnectReturns \/ Reach \/ (\E i \in Slots : Age(i)) \/ UNCHANGED vars
  BY <1>4, CountSame DEF ReconnectReturns, Reach, Age, vars
<1> QED
  BY <1>1, <1>2, <1>3, <1>4, CountInit, CountReap DEF Next, Use

\* Whatever is reaped, reconnected and used, socket_pool_t.count is the number of
\* descriptors that are not SOCKET_ERR once pool_init has reached every slot.
THEOREM CountIsExact == Spec => []CountExact
<1>1. Init => CountExact
  BY PoolAssumption DEF Init, CountExact, Slots
<1> QED
  BY <1>1, InitTypes, TypesStep, CountStep, PTL DEF Spec
=============================================================================
