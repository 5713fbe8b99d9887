--------------------------- MODULE MigrationProofs ---------------------------
(***************************************************************************)
(* Theorems about a migration for every plan, every number of connections  *)
(* and blocks, every hash function and every bound.                        *)
(***************************************************************************)
EXTENDS Migration, ReceiverProofs

\* The assumptions on the constants, in the portions the steps below need.
LEMMA RoundFacts ==
  ZeroRounds \in Nat /\ MaxRounds \in Nat /\ DrainLimit \in Nat \ {0}
  BY MigrationAssumption

LEMMA BoundFacts == MaxWrites \in Nat /\ MaxMishaps \in Nat
  BY MigrationAssumption

LEMMA QueueFacts == Defer \in Nat /\ Depth \in Nat
  BY MigrationAssumption

LEMMA PlanType ==
  \A i \in 1 .. Len(Plan) : Plan[i].blk \in Blocks
<1>1. Plan \in Seq([blk : Blocks, gpt : BOOLEAN])
  BY MigrationAssumption
<1>2. \A i \in 1 .. Len(Plan) : Plan[i] \in [blk : Blocks, gpt : BOOLEAN]
  BY <1>1, SeqElement
<1> QED
  BY <1>2

LEMMA HashType == \A v \in Contents : HashOf[v] \in Hashes
  BY DisksAssumption

------------------------------------------------------------------------------
(***************************************************************************)
(* Type correctness.                                                       *)
(***************************************************************************)

\* A client that has stopped is well typed.
LEMMA StoppedTypes ==
  ASSUME RTypeOK, ClientTypeOK, ClientStops, UNCHANGED <<live, snap>> PROVE ClientTypeOK'
<1>1. live' \in [Blocks -> Values] /\ snap' \in [Blocks -> Values]
  BY DEF ClientTypeOK
<1>2. queue' \in Seq(Items) /\ work' \subseteq Blocks
  BY EmptySeq DEF ClientStops
<1>3. /\ zero' \in 0 .. ZeroRounds /\ round' \in 0 .. MaxRounds
      /\ drains' \in 0 .. DrainLimit /\ pos' \in Nat \ {0} /\ version' \in Nat
  BY RoundFacts DEF ClientStops
<1>4. pc' = "off" /\ phase' = "scan"
  BY DEF ClientStops
<1>5. requeued' = FALSE /\ running' = TRUE /\ serverDone' = FALSE
  BY DEF ClientStops
<1>6. PoolTypeOK'
  <2>1. next' \in Slots
    BY SlotFacts DEF ClientStops, pool_destroy
  <2>2. SlotType'
    BY CloseKeeps DEF ClientStops, pool_destroy, RTypeOK, Links, ClientTypeOK, PoolTypeOK,
       SlotType
  <2> QED
    BY <2>1, <2>2 DEF PoolTypeOK, SlotType
<1> QED
  BY <1>1, <1>2, <1>3, <1>4, <1>5, <1>6 DEF ClientTypeOK

\* A session starts well typed, with as many connections as were made.
LEMMA StartTypes ==
  ASSUME RTypeOK, ClientTypeOK, NEW k, Start(k) PROVE ClientTypeOK' /\ RTypeOK'
<1> link \in [Conns -> Links] /\ chan \in [Conns -> Seq(Frames)]
  BY DEF RTypeOK, Links
<1>1. pool_init(k)
  BY DEF Start
<1>2. SlotType' /\ link' \in [Conns -> Links]
  BY <1>1, PoolInitKeeps
<1>3. NewConns[0] \in Conns
  BY <1>1, SlotFacts, NewConnIsFresh
<1>4. next' \in Slots
  BY SlotFacts DEF Start
<1>5. chan' \in [Conns -> Seq(Frames)]
  <2>1. <<Incremental>> \in Seq(Frames)
    BY FrameTypes
  <2> QED
    BY <1>3, <2>1 DEF Start
<1>6. pc' = "send" /\ snap' = live
      /\ UNCHANGED <<resp, target, durable, sinceSync, pending, live, pos, drains, phase,
                     queue, work, requeued, zero, round, version, running, serverDone>>
  BY DEF Start, roundVars
<1>7. ClientTypeOK'
  BY <1>2, <1>4, <1>6 DEF ClientTypeOK, PoolTypeOK, SlotType
<1>8. RTypeOK'
  BY <1>2, <1>5, <1>6 DEF RTypeOK, Links
<1> QED
  BY <1>7, <1>8

\* The steps of a session that take a connection from the pool.
Acquires == FlushSent \/ FlushDrops \/ ReconnectLoop \/ SendEnd

LEMMA AcquireTypes ==
  ASSUME RTypeOK, ClientTypeOK, Acquires PROVE PoolTypeOK' /\ link' \in [Conns -> Links]
<1>1. \E c \in Conns : pool_acquire(c)
  BY DEF Acquires, FlushSent, FlushDrops, ReconnectLoop, SendEnd, pool_acquire
<1> QED
  BY <1>1, AcquireKeeps DEF ClientTypeOK, RTypeOK, Links

\* pool_reap_stale keeps the types.
LEMMA ReapTypes ==
  ASSUME RTypeOK, ClientTypeOK, NEW S, pool_reap_stale(S) PROVE ClientTypeOK' /\ RTypeOK'
<1>1. SlotType' /\ link' \in [Conns -> Links] /\ resp' \in [Conns -> Seq(Responses)]
  BY CloseKeeps DEF pool_reap_stale, RTypeOK, Links, ClientTypeOK, PoolTypeOK, SlotType
<1>2. /\ pc' \in {"timers", "reconnect"}
      /\ UNCHANGED <<chan, target, durable, sinceSync, pending, live, snap, pos, drains,
                     phase, queue, work, requeued, zero, round, version, next, running,
                     serverDone>>
  BY DEF pool_reap_stale, scanVars, roundVars, poolVars
<1> QED
  BY <1>1, <1>2 DEF ClientTypeOK, PoolTypeOK, SlotType, RTypeOK, Links

\* Every step keeps the types of the client's variables.
LEMMA ClientTypes == ASSUME TypeOK, [Next]_vars PROVE ClientTypeOK'
<1> ClientTypeOK /\ TableTypeOK /\ RTypeOK
  BY DEF TypeOK
<1> USE RoundFacts
    DEF ClientTypeOK, TableTypeOK, tableVars, scanVars, roundVars, poolVars
<1>1. CASE \E b \in Blocks, v \in Values : LiveWrite(b, v)
  BY <1>1 DEF LiveWrite, PoolTypeOK
<1>2. CASE StartSession
  BY <1>2, StartTypes DEF StartSession
<1>3. CASE ClientStep
  <2>1. CASE send_block
    <3>1. queue' \in Seq(Items)
      <4>1. CASE UNCHANGED queue
        BY <4>1
      <4>2. CASE queue_push(Plan[pos].blk, block_reader_read)
        <5>1. Plan[pos].blk \in Blocks
          BY <2>1, PlanType DEF send_block, AtBlock
        <5>2. block_reader_read \in Values
          BY <5>1 DEF block_reader_read
        <5> QED
          BY <4>2, <5>1, <5>2, SeqAppend DEF queue_push, Items
      <4> QED
        BY <2>1, <4>1, <4>2 DEF send_block
    <3> QED
      BY <2>1, <3>1 DEF send_block, PoolTypeOK
  <2>2. CASE ScanEnds
    BY <2>2 DEF ScanEnds, PoolTypeOK
  <2>3. CASE FlushSent
    <3>1. PoolTypeOK'
      BY <2>3, AcquireTypes DEF Acquires
    <3>2. queue' \in Seq(Items)
      BY <2>3, SeqTail DEF FlushSent
    <3> QED
      BY <2>3, <3>1, <3>2 DEF FlushSent
  <2>4. CASE FlushDrops
    <3>1. PoolTypeOK'
      BY <2>4, AcquireTypes DEF Acquires
    <3>2. queue' \in Seq(Items)
      BY <2>4, SeqTail DEF FlushDrops
    <3> QED
      BY <2>4, <3>1, <3>2 DEF FlushDrops
  <2>5. CASE FlushEnds
    BY <2>5 DEF FlushEnds, PoolTypeOK
  <2>6. CASE \E c \in Conns : RecvResponse(c)
    BY <2>6 DEF RecvResponse, Confirm, PoolTypeOK
  <2>7. CASE AckEnds
    BY <2>7 DEF AckEnds, PoolTypeOK
  <2>8. CASE TimersEnd
    BY <2>8 DEF TimersEnd, PoolTypeOK
  <2>9. CASE StartRound
    <3>1. work' \subseteq Blocks
      BY <2>9 DEF StartRound, sqlite_get_unacked
    <3>2. round' \in 0 .. MaxRounds
      BY <2>9 DEF StartRound
    <3>3. pc' = "round" /\ requeued' = FALSE
          /\ UNCHANGED <<live, snap, phase, pos, drains, queue, zero, version, slot, next,
                         running, serverDone>>
      BY <2>9 DEF StartRound
    <3> QED
      BY <3>1, <3>2, <3>3 DEF PoolTypeOK
  <2>10. ASSUME NEW b \in Blocks, RoundBlock(b) PROVE ClientTypeOK'
    <3>1. CASE RoundSkips(b)
      BY <3>1 DEF RoundSkips, PoolTypeOK
    <3>2. CASE RoundDefers(b)
      BY <3>2 DEF RoundDefers, PoolTypeOK
    <3>3. CASE RoundVerifies(b)
      BY <3>3 DEF RoundVerifies, PoolTypeOK
    <3>4. CASE RoundResends(b)
      <4>1. queue' \in Seq(Items)
        BY <3>4, SeqAppend DEF RoundResends, queue_push, Items
      <4> QED
        BY <3>4, <4>1 DEF RoundResends, PoolTypeOK
    <3> QED
      BY <2>10, <3>1, <3>2, <3>3, <3>4 DEF RoundBlock
  <2>11. CASE ScanRoundEnds
    BY <2>11 DEF ScanRoundEnds, PoolTypeOK
  <2>12. CASE LoopRoundEnds
    BY <2>12 DEF LoopRoundEnds, StableRounds, PoolTypeOK
  <2>13. CASE DrainMore
    BY <2>13 DEF DrainMore, Drained, PoolTypeOK
  <2>14. CASE EnterLoop
    BY <2>14 DEF EnterLoop, sqlite_get_next_version, PoolTypeOK
  <2>15. CASE SendEnd
    <3>1. PoolTypeOK'
      BY <2>15, AcquireTypes DEF Acquires
    <3>2. phase' \in {"scan", "drain", "loop", "finish", "end"}
      BY <2>15 DEF SendEnd
    <3>3. pc' = "wait" /\ serverDone' = FALSE
          /\ UNCHANGED <<live, snap, pos, drains, queue, work, requeued, zero, round,
                         version, running>>
      BY <2>15 DEF SendEnd
    <3> QED
      BY <3>1, <3>2, <3>3
  <2>16. CASE WaitEnds
    BY <2>16 DEF WaitEnds, PoolTypeOK
  <2>17. CASE EndSession
    BY <2>17, StoppedTypes DEF EndSession
  <2>18. CASE NothingStale
    BY <2>18, ReapTypes DEF NothingStale
  <2>19. CASE ReconnectLoop
    <3>1. PoolTypeOK'
      BY <2>19, AcquireTypes DEF Acquires
    <3> QED
      BY <2>19, <3>1 DEF ReconnectLoop
  <2> QED
    BY <1>3, <2>1, <2>2, <2>3, <2>4, <2>5, <2>6, <2>7, <2>8, <2>9, <2>10, <2>11,
       <2>12, <2>13, <2>14, <2>15, <2>16, <2>17, <2>18, <2>19 DEF ClientStep
<1>4. CASE UNCHANGED vars
  BY <1>4 DEF vars, PoolTypeOK
<1>5. CASE ReceiverHandles
  BY <1>5 DEF ReceiverHandles, clientVars, PoolTypeOK
<1>6. CASE Fault
  <2>1. CASE signal_handler
    BY <2>1 DEF signal_handler, PoolTypeOK
  <2>2. CASE Crash
    BY <2>2, StoppedTypes DEF Crash
  <2>3. CASE ReadFails
    BY <2>3 DEF ReadFails, PoolTypeOK
  <2>4. CASE \E b \in Blocks : RoundReadFails(b)
    BY <2>4 DEF RoundReadFails, PoolTypeOK
  <2>5. CASE UNCHANGED clientVars
    BY <2>5 DEF clientVars, PoolTypeOK
  <2>6. CASE StartsShort
    BY <2>6, StartTypes DEF StartsShort
  <2>7. CASE FlushUnconnected
    <3>1. queue' \in Seq(Items)
      BY <2>7, SeqTail DEF FlushUnconnected
    <3> QED
      BY <2>7, <3>1 DEF FlushUnconnected, PoolTypeOK
  <2>8. CASE SlotsStale
    BY <2>8, ReapTypes DEF SlotsStale
  <2>9. CASE ReconnectFails
    BY <2>9 DEF ReconnectFails, PoolTypeOK
  <2>10. CASE EndUnconnected
    BY <2>10 DEF EndUnconnected, PoolTypeOK
  <2> QED
    BY <1>6, <2>1, <2>2, <2>3, <2>4, <2>5, <2>6, <2>7, <2>8, <2>9, <2>10 DEF Fault
<1>7. CASE ReconnectDue
  BY <1>7 DEF ReconnectDue, PoolTypeOK
<1> QED
  BY <1>1, <1>2, <1>3, <1>4, <1>5, <1>6, <1>7 DEF Next, do_retransmit

\* The steps that leave the connections and the target alone.
LocalStep ==
  \/ \E b \in Blocks, v \in Values : LiveWrite(b, v)
  \/ send_block \/ ScanEnds \/ FlushDrops \/ FlushEnds \/ AckEnds \/ TimersEnd
  \/ StartRound \/ ScanRoundEnds \/ LoopRoundEnds \/ DrainMore \/ EnterLoop \/ WaitEnds
  \/ signal_handler \/ ReadFails \/ FlushUnconnected \/ ReconnectDue \/ ReconnectFails
  \/ EndUnconnected
  \/ \E b \in Blocks : RoundBlock(b) \/ RoundReadFails(b)

LEMMA LocalSteps == LocalStep => UNCHANGED rvars
  BY DEF LocalStep, LiveWrite, send_block, ScanEnds, FlushDrops, FlushEnds, AckEnds,
         TimersEnd, StartRound, RoundBlock, RoundSkips, RoundDefers, RoundVerifies,
         RoundResends, ScanRoundEnds, LoopRoundEnds, DrainMore, EnterLoop, WaitEnds,
         signal_handler, ReadFails, RoundReadFails, FlushUnconnected, ReconnectDue,
         ReconnectFails, EndUnconnected

\* The steps that leave T_BLOCK and T_VERSION alone.
UntrackedStep ==
  \/ \E b \in Blocks, v \in Values : LiveWrite(b, v)
  \/ StartSession \/ EndSession \/ ScanEnds \/ FlushSent \/ FlushDrops \/ FlushEnds
  \/ AckEnds \/ TimersEnd \/ StartRound \/ ScanRoundEnds \/ DrainMore \/ SendEnd
  \/ WaitEnds \/ signal_handler \/ Crash \/ ReadFails \/ StartsShort \/ FlushUnconnected
  \/ ReconnectDue \/ NothingStale \/ SlotsStale \/ ReconnectLoop \/ ReconnectFails
  \/ EndUnconnected
  \/ \E b \in Blocks : RoundSkips(b) \/ RoundDefers(b) \/ RoundReadFails(b)
  \/ UNCHANGED clientVars
  \/ UNCHANGED vars

LEMMA UntrackedSteps == UntrackedStep => UNCHANGED tableVars
  BY DEF UntrackedStep, LiveWrite, StartSession, EndSession, ScanEnds, FlushSent,
         FlushDrops, FlushEnds, AckEnds, TimersEnd, StartRound, RoundSkips, RoundDefers,
         ScanRoundEnds, DrainMore, SendEnd, WaitEnds, signal_handler, Crash, ReadFails,
         RoundReadFails, StartsShort, Start, FlushUnconnected, ReconnectDue, NothingStale,
         SlotsStale, pool_reap_stale, ReconnectLoop, ReconnectFails, EndUnconnected,
         clientVars, vars

\* Every step keeps the types of the connections and of the target.
LEMMA WireTypes == ASSUME TypeOK, [Next]_vars PROVE RTypeOK'
<1> RTypeOK /\ ClientTypeOK
  BY DEF TypeOK
<1> chan \in [Conns -> Seq(Frames)] /\ resp \in [Conns -> Seq(Responses)]
  BY DEF RTypeOK
<1>1. CASE UNCHANGED rvars
  BY <1>1 DEF rvars, RTypeOK
<1>2. CASE StartSession \/ StartsShort
  BY <1>2, StartTypes DEF StartSession, StartsShort
<1>3. CASE EndSession \/ Crash
  <2>1. link' \in [Conns -> Links] /\ resp' \in [Conns -> Seq(Responses)]
    BY <1>3, CloseKeeps DEF EndSession, Crash, ClientStops, pool_destroy, RTypeOK, Links,
       ClientTypeOK, PoolTypeOK, SlotType
  <2>2. chan' \in [Conns -> Seq(Frames)]
    BY <1>3, EmptySeq DEF EndSession, Crash
  <2> QED
    BY <1>3, <2>1, <2>2 DEF EndSession, Crash, RTypeOK, Links
<1>4. CASE FlushSent
  <2>1. link' \in [Conns -> Links]
    BY <1>4, AcquireTypes DEF Acquires
  <2>2. Head(queue) \in Items
    BY <1>4, SeqTail DEF FlushSent, ClientTypeOK
  <2>3. Data(Head(queue).blk, Head(queue).val) \in Frames
    BY <2>2, FrameTypes DEF Items
  <2>4. chan' \in [Conns -> Seq(Frames)]
    BY <1>4, <2>3, SendKeeps DEF FlushSent
  <2> QED
    BY <1>4, <2>1, <2>4 DEF FlushSent, RTypeOK, Links
<1>5. CASE SendEnd
  <2>1. link' \in [Conns -> Links]
    BY <1>5, AcquireTypes DEF Acquires
  <2>2. chan' \in [Conns -> Seq(Frames)]
    BY <1>5, FrameTypes, SendKeeps DEF SendEnd
  <2> QED
    BY <1>5, <2>1, <2>2 DEF SendEnd, RTypeOK, Links
<1>11. CASE ReconnectLoop
  <2>1. link' \in [Conns -> Links]
    BY <1>11, AcquireTypes DEF Acquires
  <2> QED
    BY <1>11, <2>1 DEF ReconnectLoop, RTypeOK, Links
<1>7. CASE NothingStale \/ SlotsStale
  BY <1>7, ReapTypes DEF NothingStale, SlotsStale
<1>6. ASSUME NEW c \in Conns, RecvResponse(c) PROVE RTypeOK'
  <2>1. Tail(resp[c]) \in Seq(Responses)
    BY <1>6, SeqTail DEF RecvResponse
  <2> QED
    BY <1>6, <2>1 DEF RecvResponse, RTypeOK
<1>8. CASE ReceiverHandles
  BY <1>8, StepTypes DEF ReceiverHandles, ReceiverStep
<1>9. CASE Fault
  BY <1>1, <1>2, <1>3, <1>7, <1>9, LocalSteps, StepTypes, FaultTypes
     DEF Fault, LocalStep, ReceiverStep
<1>10. CASE ClientStep
  BY <1>1, <1>3, <1>4, <1>5, <1>6, <1>7, <1>10, <1>11, LocalSteps
     DEF ClientStep, LocalStep
<1> QED
  BY <1>1, <1>2, <1>8, <1>9, <1>10, LocalSteps DEF Next, do_retransmit, vars, LocalStep

\* Every step keeps the types of the tables.
LEMMA TableTypes == ASSUME TypeOK, [Next]_vars PROVE TableTypeOK'
<1> TableTypeOK /\ ClientTypeOK /\ RTypeOK
  BY DEF TypeOK
<1>1. CASE UNCHANGED <<rows, maxVersion>>
  BY <1>1 DEF TableTypeOK
<1>2. ASSUME NEW b \in Blocks, NEW h \in Hashes, NEW s \in BOOLEAN, UNCHANGED maxVersion,
             rows' = [rows EXCEPT ![b] = [ack |-> 0, hash |-> h, version |-> version,
                                          sent |-> s, remote |-> RemoteId]]
      PROVE  TableTypeOK'
  <2>1. version \in Nat
    BY DEF ClientTypeOK
  <2>2. [ack |-> 0, hash |-> h, version |-> version, sent |-> s, remote |-> RemoteId] \in Rows
    BY <2>1 DEF Rows
  <2> QED
    BY <1>2, <2>2 DEF TableTypeOK
<1>3. CASE send_block
  <2>1. CASE UNCHANGED rows
    BY <1>1, <1>3, <2>1 DEF send_block
  <2>2. CASE sqlite_block_upsert_v(Plan[pos].blk, HashOf[block_reader_read], version)
    <3>1. Plan[pos].blk \in Blocks
      BY <1>3, PlanType DEF send_block, AtBlock, ClientTypeOK
    <3>2. block_reader_read \in Contents
      BY <3>1 DEF block_reader_read, ClientTypeOK, Contents
    <3> QED
      BY <1>2, <1>3, <2>2, <3>1, <3>2, HashType DEF send_block, sqlite_block_upsert_v
  <2> QED
    BY <1>3, <2>1, <2>2 DEF send_block
<1>4. ASSUME NEW c \in Conns, RecvResponse(c) PROVE TableTypeOK'
  <2>1. CASE UNCHANGED rows
    BY <1>1, <1>4, <2>1 DEF RecvResponse
  <2>2. CASE Head(resp[c]).type = "ack" /\ sqlite_block_mark_acked(Head(resp[c]).blk)
    <3> DEFINE b == Head(resp[c]).blk
    <3>1. Head(resp[c]) \in Responses
      BY <1>4, SeqTail DEF RecvResponse, RTypeOK
    <3>2. b \in Blocks
      BY <2>2, <3>1 DEF Responses
    <3>3. [rows[b] EXCEPT !.ack = 1] \in Rows
      BY <3>2 DEF TableTypeOK, Rows
    <3> QED
      BY <1>4, <2>2, <3>2, <3>3 DEF RecvResponse, sqlite_block_mark_acked, TableTypeOK
  <2> QED
    BY <1>4, <2>1, <2>2 DEF RecvResponse, Confirm
<1>5. ASSUME NEW b \in Blocks, RoundVerifies(b) PROVE TableTypeOK'
  <2> DEFINE r == [rows[b] EXCEPT !.ack = 1, !.sent = TRUE,
                    !.version = IF version > 0 THEN version ELSE rows[b].version]
  <2>1. r \in Rows
    BY DEF TableTypeOK, Rows, ClientTypeOK
  <2>2. rows' = [rows EXCEPT ![b] = r] /\ UNCHANGED maxVersion
    BY <1>5 DEF RoundVerifies, MarkStable
  <2> HIDE DEF r
  <2> QED
    BY <2>1, <2>2 DEF TableTypeOK
<1>6. ASSUME NEW b \in Blocks, RoundResends(b) PROVE TableTypeOK'
  <2>1. HashOf[live[b]] \in Hashes
    BY HashType DEF ClientTypeOK, Contents
  <2> QED
    BY <1>2, <1>6, <2>1 DEF RoundResends, UpsertSent
<1>7. CASE LoopRoundEnds
  BY <1>7 DEF LoopRoundEnds, sqlite_version_start, TableTypeOK, ClientTypeOK
<1>8. CASE EnterLoop
  BY <1>8 DEF EnterLoop, sqlite_version_start, sqlite_get_next_version, TableTypeOK
<1>9. CASE ClientStep
  BY <1>1, <1>3, <1>4, <1>5, <1>6, <1>7, <1>8, <1>9, UntrackedSteps
     DEF ClientStep, RoundBlock, UntrackedStep, tableVars
<1>10. CASE Fault
  BY <1>1, <1>10, UntrackedSteps DEF Fault, UntrackedStep, tableVars
<1> QED
  BY <1>1, <1>9, <1>10, UntrackedSteps
     DEF Next, do_retransmit, ReceiverHandles, clientVars, UntrackedStep, tableVars

\* Blocks are recorded as crossed when they are queued, and at no other time.
Queues == send_block \/ \E b \in Blocks : RoundResends(b)

LEMMA OnlyQueuing == ASSUME [Next]_vars, ~Queues PROVE UNCHANGED crossed
<1>1. ASSUME \/ \E c \in Conns : RecvResponse(c)
             \/ \E b \in Blocks : RoundVerifies(b)
             \/ LoopRoundEnds \/ EnterLoop
      PROVE  UNCHANGED crossed
  BY <1>1 DEF RecvResponse, RoundVerifies, LoopRoundEnds, EnterLoop
<1>2. UntrackedStep => UNCHANGED crossed
  BY UntrackedSteps DEF tableVars
<1>3. CASE ClientStep
  BY <1>1, <1>2, <1>3 DEF ClientStep, RoundBlock, UntrackedStep, Queues
<1>4. CASE Fault
  BY <1>2, <1>4 DEF Fault, UntrackedStep
<1> QED
  BY <1>2, <1>3, <1>4
     DEF Next, do_retransmit, ReceiverHandles, clientVars, UntrackedStep

LEMMA CrossedTypes == ASSUME TypeOK, [Next]_vars PROVE crossed' \subseteq Blocks
<1> crossed \subseteq Blocks /\ ClientTypeOK
  BY DEF TypeOK
<1>1. CASE send_block
  <2>1. Plan[pos].blk \in Blocks
    BY <1>1, PlanType DEF send_block, AtBlock, ClientTypeOK
  <2> QED
    BY <1>1, <2>1 DEF send_block, Crossing
<1>2. ASSUME NEW b \in Blocks, RoundResends(b) PROVE crossed' \subseteq Blocks
  BY <1>2 DEF RoundResends, Crossing
<1> QED
  BY <1>1, <1>2, OnlyQueuing DEF Queues

\* Every step keeps the bounds of the model's own counters.
LEMMA BoundTypes ==
  ASSUME TypeOK, [Next]_vars PROVE writes' \in 0 .. MaxWrites /\ mishaps' \in 0 .. MaxMishaps
<1> writes \in 0 .. MaxWrites /\ mishaps \in 0 .. MaxMishaps
  BY DEF TypeOK
<1>1. CASE UNCHANGED boundVars
  BY <1>1 DEF boundVars
<1>2. CASE \E b \in Blocks, v \in Values : LiveWrite(b, v)
  BY <1>2, BoundFacts DEF LiveWrite
<1>3. CASE Fault
  <2>1. mishaps' \in 0 .. MaxMishaps
    BY <1>3, BoundFacts DEF Fault
  <2>2. UNCHANGED writes
    BY <1>3 DEF Fault, signal_handler, Crash, ReadFails, RoundReadFails, StartsShort, Start,
       FlushUnconnected, SlotsStale, pool_reap_stale, ReconnectFails, EndUnconnected,
       clientVars
  <2> QED
    BY <2>1, <2>2
<1>4. ClientStep => UNCHANGED boundVars
  BY DEF ClientStep, send_block, ScanEnds, FlushSent, FlushDrops, FlushEnds, RecvResponse,
         AckEnds, TimersEnd, StartRound, RoundBlock, RoundSkips, RoundDefers, RoundVerifies,
         RoundResends, ScanRoundEnds, LoopRoundEnds, DrainMore, EnterLoop, SendEnd,
         WaitEnds, EndSession, NothingStale, pool_reap_stale, ReconnectLoop, boundVars
<1>5. StartSession \/ ReconnectDue \/ ReceiverHandles \/ UNCHANGED vars
      => UNCHANGED boundVars
  BY DEF StartSession, Start, ReconnectDue, ReceiverHandles, clientVars, vars, boundVars
<1> QED
  BY <1>1, <1>2, <1>3, <1>4, <1>5 DEF Next, do_retransmit

LEMMA InitTypes == Init => TypeOK
<1> SUFFICES ASSUME Init PROVE TypeOK
  OBVIOUS
<1>1. RTypeOK
  BY EmptySeq, ReceiverAssumption DEF Init, ServerInit, RTypeOK, Contents
<1>2. TableTypeOK
  <2>1. NoRow \in Rows
    BY DEF NoRow, Rows
  <2> QED
    BY <2>1 DEF Init, TableInit, TableTypeOK
<1>3. ClientTypeOK
  <2>1. live \in [Blocks -> Values] /\ snap \in [Blocks -> Values]
    BY DEF Init
  <2>2. queue \in Seq(Items) /\ work \subseteq Blocks
    BY EmptySeq DEF Init, ClientOff
  <2>3. /\ zero \in 0 .. ZeroRounds /\ round \in 0 .. MaxRounds
        /\ drains \in 0 .. DrainLimit /\ pos \in Nat \ {0} /\ version \in Nat
    BY RoundFacts DEF Init, ClientOff
  <2>4. pc = "off" /\ phase = "scan"
    BY DEF Init, ClientOff
  <2>5. requeued = FALSE /\ running = TRUE /\ serverDone = FALSE
    BY DEF Init, ClientOff
  <2>6. PoolTypeOK
    BY SlotFacts DEF Init, PoolInit, PoolTypeOK
  <2> QED
    BY <2>1, <2>2, <2>3, <2>4, <2>5, <2>6 DEF ClientTypeOK
<1>4. writes \in 0 .. MaxWrites /\ mishaps \in 0 .. MaxMishaps /\ crossed \subseteq Blocks
  BY BoundFacts DEF Init
<1> QED
  BY <1>1, <1>2, <1>3, <1>4 DEF TypeOK

LEMMA InitUnacked == ASSUME Init PROVE \A b \in Blocks : rows[b].ack = 0
  BY DEF Init, TableInit, NoRow

LEMMA TypesStep == TypeOK /\ [Next]_vars => TypeOK'
<1> SUFFICES ASSUME TypeOK, [Next]_vars PROVE TypeOK'
  OBVIOUS
<1> QED
  BY ClientTypes, WireTypes, TableTypes, CrossedTypes, BoundTypes DEF TypeOK

\* The client's, the database's and the receiver's variables keep their types in
\* every interleaving: in particular pool_acquire's next_index stays inside the
\* pool and block_writer.c's counters stay below the intervals that reset them.
THEOREM MigrationTypes == Spec => []TypeOK
  BY InitTypes, TypesStep, PTL DEF Spec

------------------------------------------------------------------------------
(***************************************************************************)
(* The send queue stays short.                                             *)
(***************************************************************************)

\* Every step keeps the queue short.
LEMMA QueueStep ==
  ASSUME TypeOK, QueueStaysShort, [Next]_vars PROVE QueueStaysShort'
<1> queue \in Seq(Items)
  BY DEF TypeOK, ClientTypeOK
<1> Defer \in Nat /\ Len(queue) \in Nat
  BY QueueFacts
<1>1. CASE UNCHANGED <<queue, pc>>
  BY <1>1 DEF QueueStaysShort
<1>2. CASE pc # "flush" /\ UNCHANGED queue
  BY <1>2 DEF QueueStaysShort
<1>3. CASE queue' = << >>
  BY <1>3 DEF QueueStaysShort
<1>4. ASSUME NEW b, NEW v, queue_push(b, v) PROVE Len(queue') = Len(queue) + 1
  BY <1>4 DEF queue_push
<1>5. CASE send_block
  <2>1. pc = "send" /\ pc' = "flush" /\ (UNCHANGED queue \/ Len(queue') = Len(queue) + 1)
    BY <1>4, <1>5 DEF send_block, AtBlock
  <2> QED
    BY <2>1 DEF QueueStaysShort
<1>6. CASE FlushSent
  <2>1. pc = "flush" /\ pc' = "flush" /\ Len(queue') = Len(queue) - 1
    BY <1>6 DEF FlushSent
  <2> QED
    BY <2>1 DEF QueueStaysShort
<1>7. CASE FlushDrops \/ FlushUnconnected
  <2>1. pc = "flush" /\ pc' = "ack" /\ Len(queue') = Len(queue) - 1
    BY <1>7 DEF FlushDrops, FlushUnconnected
  <2> QED
    BY <2>1 DEF QueueStaysShort
<1>8. CASE FlushEnds
  BY <1>3, <1>8 DEF FlushEnds
<1>9. ASSUME NEW b \in Blocks, RoundResends(b) PROVE QueueStaysShort'
  <2>1. pc = "round" /\ UNCHANGED pc /\ Len(queue) <= Defer
    BY <1>9 DEF RoundResends, InRound, RoundMayQueue
  <2>2. Len(queue') = Len(queue) + 1
    BY <1>4, <1>9 DEF RoundResends
  <2> QED
    BY <2>1, <2>2 DEF QueueStaysShort
<1>10. CASE EndSession \/ Crash
  BY <1>3, <1>10 DEF EndSession, Crash, ClientStops
<1>11. ASSUME \/ StartSession \/ StartsShort \/ ScanEnds \/ AckEnds \/ TimersEnd
              \/ StartRound \/ ScanRoundEnds \/ LoopRoundEnds \/ DrainMore \/ EnterLoop
              \/ SendEnd \/ EndUnconnected \/ WaitEnds \/ ReadFails \/ ReconnectDue
              \/ NothingStale \/ SlotsStale \/ ReconnectLoop \/ ReconnectFails
       PROVE  pc # "flush" /\ UNCHANGED queue
  BY <1>11 DEF StartSession, StartsShort, Start, ScanEnds, AckEnds, TimersEnd, StartRound,
     ScanRoundEnds, LoopRoundEnds, RoundOver, DrainMore, EnterLoop, EndIsDue, SendEnd,
     EndUnconnected, WaitEnds, ReadFails, AtBlock, ReconnectDue, NothingStale, SlotsStale,
     pool_reap_stale, ReconnectLoop, ReconnectFails
<1>12. ASSUME NEW b \in Blocks, RoundSkips(b) \/ RoundDefers(b) \/ RoundVerifies(b)
                                \/ RoundReadFails(b)
       PROVE  UNCHANGED <<queue, pc>>
  BY <1>12 DEF RoundSkips, RoundDefers, RoundVerifies, RoundReadFails
<1>13. ASSUME NEW c \in Conns, RecvResponse(c) PROVE UNCHANGED <<queue, pc>>
  BY <1>13 DEF RecvResponse
<1>14. CASE ClientStep
  BY <1>1, <1>2, <1>5, <1>6, <1>7, <1>8, <1>9, <1>10, <1>11, <1>12, <1>13, <1>14
     DEF ClientStep, RoundBlock
<1>15. CASE Fault
  <2>1. signal_handler \/ UNCHANGED clientVars => UNCHANGED <<queue, pc>>
    BY DEF signal_handler, clientVars
  <2> QED
    BY <1>1, <1>2, <1>7, <1>10, <1>11, <1>12, <1>15, <2>1 DEF Fault
<1> QED
  BY <1>1, <1>2, <1>11, <1>14, <1>15
     DEF Next, LiveWrite, do_retransmit, ReceiverHandles, clientVars, vars

\* Whatever the interleaving, the queue of do_migrate holds at most two entries
\* more than the length at which a round stops: with a round limit of 9 it never
\* reaches BACKPRESSURE_QUEUE_DEPTH, so queue_push never asks for a retry.
THEOREM QueueIsShort == Spec => []QueueStaysShort
<1>1. Init => QueueStaysShort
  BY QueueFacts DEF Init, ClientOff, QueueStaysShort
<1>2. TypeOK /\ QueueStaysShort /\ [Next]_vars => QueueStaysShort'
  BY QueueStep
<1> QED
  BY <1>1, <1>2, MigrationTypes, PTL DEF Spec

------------------------------------------------------------------------------
(***************************************************************************)
(* Whatever is in flight for a block belongs to the version its row        *)
(* describes, unless the block was queued while an earlier version was.    *)
(***************************************************************************)

LEMMA SeqOf ==
  ASSUME NEW S, NEW T, NEW s \in Seq(S), \A i \in 1 .. Len(s) : s[i] \in T
  PROVE  s \in Seq(T)
  OBVIOUS

\* A row is written with a new hash only when its block is queued.
LEMMA HashesStay ==
  ASSUME TypeOK, [Next]_vars, ~Queues
  PROVE  \A b \in Blocks : rows'[b].hash = rows[b].hash
<1> rows \in [Blocks -> Rows]
  BY DEF TypeOK, TableTypeOK
<1>1. ASSUME UNCHANGED rows PROVE \A b \in Blocks : rows'[b].hash = rows[b].hash
  BY <1>1
<1>2. ASSUME NEW c \in Conns, RecvResponse(c)
      PROVE  \A b \in Blocks : rows'[b].hash = rows[b].hash
  <2>1. \A b \in Blocks : [rows[b] EXCEPT !.ack = 1].hash = rows[b].hash
    BY DEF Rows
  <2>2. rows' = rows \/ rows' = [rows EXCEPT ![Head(resp[c]).blk].ack = 1]
    BY <1>2 DEF RecvResponse, Confirm, sqlite_block_mark_acked
  <2> QED
    BY <2>1, <2>2
<1>3. ASSUME NEW b \in Blocks, RoundVerifies(b)
      PROVE  \A a \in Blocks : rows'[a].hash = rows[a].hash
  BY <1>3 DEF RoundVerifies, MarkStable, Rows
<1>4. UntrackedStep \/ LoopRoundEnds \/ EnterLoop => UNCHANGED rows
  BY UntrackedSteps DEF tableVars, LoopRoundEnds, EnterLoop
<1>5. CASE ClientStep
  BY <1>1, <1>2, <1>3, <1>4, <1>5 DEF ClientStep, RoundBlock, UntrackedStep, Queues
<1>6. CASE Fault
  BY <1>1, <1>4, <1>6 DEF Fault, UntrackedStep
<1> QED
  BY <1>1, <1>4, <1>5, <1>6
     DEF Next, do_retransmit, ReceiverHandles, clientVars, UntrackedStep

LEMMA SameVersions ==
  ASSUME UNCHANGED crossed, \A b \in Blocks : rows'[b].hash = rows[b].hash
  PROVE  ItemsOK' = ItemsOK /\ FramesOK' = FramesOK
<1>1. \A q \in Items : q.blk \in Blocks
  BY DEF Items
<1>2. \A f \in Frames : f.type = "data" => f.blk \in Blocks
  BY DEF Frames
<1> QED
  BY <1>1, <1>2 DEF ItemsOK, FramesOK

\* What queuing version v of block b does, in the scan and in a round.
Queued(b, v) ==
  /\ queue_push(b, v)
  /\ Crossing(b)
  /\ \E s \in BOOLEAN :
       rows' = [rows EXCEPT ![b] = [ack |-> 0, hash |-> HashOf[v], version |-> version,
                                    sent |-> s, remote |-> RemoteId]]
  /\ UNCHANGED rvars

LEMMA QueuesQueued ==
  ASSUME TypeOK, Queues
  PROVE  \/ \E b \in Blocks, v \in Values : Queued(b, v)
         \/ UNCHANGED <<queue, rows, crossed, rvars>>
<1> ClientTypeOK
  BY DEF TypeOK
<1>1. CASE send_block
  <2> DEFINE b == Plan[pos].blk
             v == block_reader_read
  <2>1. b \in Blocks
    BY <1>1, PlanType DEF send_block, AtBlock, ClientTypeOK
  <2>2. v \in Values
    BY <2>1 DEF block_reader_read, ClientTypeOK
  <2>3. UNCHANGED rvars
    BY <1>1 DEF send_block
  <2>4. CASE UNCHANGED <<queue, rows, crossed>>
    BY <2>3, <2>4
  <2>5. CASE /\ queue_push(b, v) /\ Crossing(b)
             /\ sqlite_block_upsert_v(b, HashOf[v], version)
    <3> HIDE DEF b, v
    <3>1. Queued(b, v)
      BY <2>3, <2>5 DEF Queued, sqlite_block_upsert_v
    <3> QED
      BY <2>1, <2>2, <3>1
  <2> QED
    BY <1>1, <2>4, <2>5 DEF send_block
<1>2. ASSUME NEW b \in Blocks, RoundResends(b)
      PROVE  \E v \in Values : Queued(b, v)
  <2>1. live[b] \in Values
    BY DEF ClientTypeOK
  <2> QED
    BY <1>2, <2>1 DEF RoundResends, UpsertSent, Queued
<1> QED
  BY <1>1, <1>2 DEF Queues

\* What is queued is the only thing in flight for its block, or the block counts
\* as crossed.
LEMMA FlightQueued ==
  ASSUME TypeOK, FlightInv, NEW b \in Blocks, NEW v \in Values, Queued(b, v)
  PROVE  FlightInv'
<1> rows \in [Blocks -> Rows] /\ queue \in Seq(ItemsOK) /\ chan \in [Conns -> Seq(FramesOK)]
  BY DEF TypeOK, TableTypeOK, FlightInv
<1>1. /\ rows'[b].hash = HashOf[v]
      /\ \A a \in Blocks \ {b} : rows'[a] = rows[a]
  BY DEF Queued
<1>2. UNCHANGED chan
  BY DEF Queued, rvars
<1>3. \A a \in Blocks \ {b} : a \in crossed' <=> a \in crossed
  BY DEF Queued, Crossing
<1>4. Outstanding(b) => b \in crossed'
  BY DEF Queued, Crossing
<1>5. \A i \in 1 .. Len(queue) : queue[i] \in ItemsOK'
  <2> SUFFICES ASSUME NEW i \in 1 .. Len(queue) PROVE queue[i] \in ItemsOK'
    OBVIOUS
  <2>1. queue[i] \in ItemsOK
    BY SeqElement
  <2>2. queue[i] \in Items /\ queue[i].blk \in Blocks
    BY <2>1 DEF ItemsOK, Items
  <2>3. queue[i].blk = b => b \in crossed'
    BY <1>4 DEF Outstanding
  <2> QED
    BY <1>1, <1>3, <2>1, <2>2, <2>3 DEF ItemsOK
<1>6. [blk |-> b, val |-> v] \in ItemsOK'
  BY <1>1 DEF ItemsOK, Items
<1>7. queue' \in Seq(ItemsOK')
  <2>1. queue \in Seq(ItemsOK')
    BY <1>5, SeqOf
  <2> QED
    BY <1>6, <2>1, SeqAppend DEF Queued, queue_push
<1>8. ASSUME NEW c \in Conns PROVE chan[c] \in Seq(FramesOK')
  <2> chan[c] \in Seq(FramesOK)
    OBVIOUS
  <2> SUFFICES ASSUME NEW i \in 1 .. Len(chan[c]) PROVE chan[c][i] \in FramesOK'
    BY SeqOf
  <2>1. chan[c][i] \in FramesOK
    BY SeqElement
  <2>2. chan[c][i] \in Frames /\ (chan[c][i].type = "data" => chan[c][i].blk \in Blocks)
    BY <2>1 DEF FramesOK, Frames
  <2>3. chan[c][i].type = "data" /\ chan[c][i].blk = b => b \in crossed'
    BY <1>4 DEF Outstanding
  <2> QED
    BY <1>1, <1>3, <2>1, <2>2, <2>3 DEF FramesOK
<1>9. chan' \in [Conns -> Seq(FramesOK')]
  BY <1>2, <1>8
<1> QED
  BY <1>7, <1>9 DEF FlightInv

\* The steps that leave the queue and what is on the connections alone.
StillStep ==
  \/ \E b \in Blocks, v \in Values : LiveWrite(b, v)
  \/ ScanEnds \/ FlushEnds \/ AckEnds \/ TimersEnd \/ StartRound \/ ScanRoundEnds
  \/ LoopRoundEnds \/ DrainMore \/ EnterLoop \/ WaitEnds \/ signal_handler \/ ReadFails
  \/ \E c \in Conns : RecvResponse(c)
  \/ \E b \in Blocks : RoundSkips(b) \/ RoundDefers(b) \/ RoundVerifies(b) \/ RoundReadFails(b)
  \/ ReconnectDue \/ NothingStale \/ SlotsStale \/ ReconnectLoop \/ ReconnectFails
  \/ EndUnconnected
  \/ UNCHANGED vars

LEMMA StillSteps == StillStep => UNCHANGED <<queue, chan>>
  BY DEF StillStep, LiveWrite, ScanEnds, FlushEnds, AckEnds, TimersEnd, StartRound,
     RoundSkips, RoundDefers, RoundVerifies, RoundReadFails, ScanRoundEnds, LoopRoundEnds,
     DrainMore, EnterLoop, WaitEnds, signal_handler, ReadFails, RecvResponse, ReconnectDue,
     NothingStale, SlotsStale, pool_reap_stale, ReconnectLoop, ReconnectFails,
     EndUnconnected, rvars, vars

\* Every other step only moves entries of the queue to connections, and loses
\* them there.  I and F are any sets the entries and the frames are known to be in.
LEMMA Moves ==
  ASSUME TypeOK, NEW I, NEW F, queue \in Seq(I), chan \in [Conns -> Seq(F)],
         Incremental \in F, End \in F, \A q \in I : Data(q.blk, q.val) \in F,
         [Next]_vars, ~Queues
  PROVE  queue' \in Seq(I) /\ chan' \in [Conns -> Seq(F)]
<1> DEFINE Goal == queue' \in Seq(I) /\ chan' \in [Conns -> Seq(F)]
<1>1. ASSUME UNCHANGED <<queue, chan>> PROVE Goal
  BY <1>1
<1>2. ASSUME NEW k, Start(k) PROVE Goal
  <2>1. <<Incremental>> \in Seq(F)
    OBVIOUS
  <2>2. NewConns[0] \in Conns
    BY <1>2, SlotFacts, NewConnIsFresh DEF Start
  <2> QED
    BY <1>2, <2>1, <2>2 DEF Start
<1>3. ASSUME EndSession \/ Crash PROVE Goal
  BY <1>3, EmptySeq DEF EndSession, Crash, ClientStops
<1>4. ASSUME FlushSent PROVE Goal
  <2>1. Head(queue) \in I /\ queue' \in Seq(I)
    BY <1>4, SeqTail DEF FlushSent
  <2>2. Data(Head(queue).blk, Head(queue).val) \in F
    BY <2>1
  <2>3. chan' \in [Conns -> Seq(F)]
    BY <1>4, <2>2, SendKeeps DEF FlushSent
  <2> QED
    BY <2>1, <2>3
<1>5. ASSUME FlushDrops \/ FlushUnconnected PROVE Goal
  BY <1>5, SeqTail DEF FlushDrops, FlushUnconnected, rvars
<1>6. ASSUME SendEnd PROVE Goal
  BY <1>6, SendKeeps DEF SendEnd
<1>7. ASSUME NEW c \in Conns, UNCHANGED queue,
             RecvBlock(c) \/ RecvBlockFails(c) \/ RecvIncremental(c) \/ RecvEnd(c)
      PROVE  Goal
  <2>1. \E f : protocol_decode(c, f)
    BY <1>7 DEF RecvBlock, RecvBlockFails, RecvIncremental, RecvEnd
  <2> QED
    BY <1>7, <2>1, DecodeKeeps
<1>8. ASSUME NEW c \in Conns, UNCHANGED queue, Break(c) PROVE Goal
  <2>1. resp \in [Conns -> Seq(Responses)]
    BY DEF TypeOK, RTypeOK
  <2> QED
    BY <1>8, <2>1, BreakKeeps
<1>9. ASSUME UNCHANGED queue, ServerExit \/ PowerLoss PROVE Goal
  BY <1>9, DropKeeps DEF ServerExit, PowerLoss
<1>10. UNCHANGED clientVars => UNCHANGED queue
  BY DEF clientVars
<1> HIDE DEF Goal
<1>11. ASSUME StillStep PROVE Goal
  BY <1>1, <1>11, StillSteps
<1>12. ASSUME ClientStep PROVE Goal
  BY <1>3, <1>4, <1>5, <1>6, <1>11, <1>12 DEF ClientStep, StillStep, RoundBlock, Queues
<1>13. ASSUME Fault PROVE Goal
  BY <1>2, <1>3, <1>5, <1>7, <1>8, <1>9, <1>10, <1>11, <1>13
     DEF Fault, StillStep, StartsShort
<1>14. Goal
  BY <1>2, <1>7, <1>10, <1>11, <1>12, <1>13
     DEF Next, do_retransmit, ReceiverHandles, StartSession, StillStep, clientVars
<1> QED
  BY <1>14 DEF Goal

LEMMA FlightStep == ASSUME TypeOK, FlightInv, [Next]_vars PROVE FlightInv'
<1>1. ASSUME NEW b \in Blocks, NEW v \in Values, Queued(b, v) PROVE FlightInv'
  BY <1>1, FlightQueued
<1>2. CASE UNCHANGED <<queue, rows, crossed, rvars>>
  BY <1>2 DEF FlightInv, ItemsOK, FramesOK, rvars
<1>3. CASE ~Queues
  <2>1. ItemsOK' = ItemsOK /\ FramesOK' = FramesOK
    BY <1>3, OnlyQueuing, HashesStay, SameVersions
  <2>2. Incremental \in FramesOK /\ End \in FramesOK
    BY FrameTypes DEF FramesOK, Incremental, End
  <2>3. \A q \in ItemsOK : Data(q.blk, q.val) \in FramesOK
    BY FrameTypes DEF ItemsOK, Items, FramesOK, Data
  <2>4. queue' \in Seq(ItemsOK) /\ chan' \in [Conns -> Seq(FramesOK)]
    BY <1>3, <2>2, <2>3, Moves DEF FlightInv
  <2> QED
    BY <2>1, <2>4 DEF FlightInv
<1> QED
  BY <1>1, <1>2, <1>3, QueuesQueued

LEMMA FlightInit == Init => FlightInv
  BY EmptySeq DEF Init, ServerInit, ClientOff, FlightInv

------------------------------------------------------------------------------
(***************************************************************************)
(* In full mode a confirmed row describes the target.                      *)
(***************************************************************************)

LEMMA ResponsesSame ==
  ASSUME UNCHANGED <<crossed, target>>, \A b \in Blocks : rows'[b].hash = rows[b].hash
  PROVE  ResponsesOK' = ResponsesOK
<1>1. \A r \in Responses : r.type = "ack" => r.blk \in Blocks
  BY DEF Responses
<1> QED
  BY <1>1 DEF ResponsesOK

\* A block is queued: responses for it are about an earlier version, so that it
\* counts as crossed if there are any.
LEMMA AckQueued ==
  ASSUME ~TailSend, TypeOK, ConfirmInv, NEW b \in Blocks, NEW v \in Values,
         Queued(b, v), pc' # "round"
  PROVE  ConfirmInv'
<1> rows \in [Blocks -> Rows] /\ resp \in [Conns -> Seq(ResponsesOK)]
  BY DEF TypeOK, TableTypeOK, ConfirmInv
<1>1. /\ rows'[b].ack = 0
      /\ \A a \in Blocks \ {b} : rows'[a] = rows[a]
  BY DEF Queued
<1>2. UNCHANGED <<resp, target>>
  BY DEF Queued, rvars
<1>3. \A a \in Blocks \ {b} : a \in crossed' <=> a \in crossed
  BY DEF Queued, Crossing
<1>4. Outstanding(b) => b \in crossed'
  BY DEF Queued, Crossing
<1>5. ASSUME NEW c \in Conns PROVE resp[c] \in Seq(ResponsesOK')
  <2> resp[c] \in Seq(ResponsesOK)
    OBVIOUS
  <2> SUFFICES ASSUME NEW i \in 1 .. Len(resp[c]) PROVE resp[c][i] \in ResponsesOK'
    BY SeqOf
  <2>1. resp[c][i] \in ResponsesOK
    BY SeqElement
  <2>2. resp[c][i] \in Responses /\ (resp[c][i].type = "ack" => resp[c][i].blk \in Blocks)
    BY <2>1 DEF ResponsesOK, Responses
  <2>3. resp[c][i].type = "ack" /\ resp[c][i].blk = b => b \in crossed'
    BY <1>4 DEF Outstanding
  <2> QED
    BY <1>1, <1>2, <1>3, <2>1, <2>2, <2>3 DEF ResponsesOK
<1>6. resp' \in [Conns -> Seq(ResponsesOK')]
  BY <1>2, <1>5
<1>7. \A a \in Blocks : rows'[a].ack = 1 /\ a \notin crossed'
                        => HashOf[target'[a]] = rows'[a].hash
  BY <1>1, <1>2, <1>3 DEF ConfirmInv
<1> QED
  BY <1>6, <1>7 DEF ConfirmInv

\* process_ack: the response it reads is about the version its row describes.
LEMMA AckRead ==
  ASSUME TypeOK, ConfirmInv, NEW c \in Conns, RecvResponse(c),
         \A b \in Blocks : rows'[b].hash = rows[b].hash
  PROVE  ConfirmInv'
<1> DEFINE r == Head(resp[c])
<1> rows \in [Blocks -> Rows]
  BY DEF TypeOK, TableTypeOK
<1>1. /\ resp[c] # << >> /\ resp' = [resp EXCEPT ![c] = Tail(@)]
      /\ UNCHANGED <<pc, crossed, target>>
  BY DEF RecvResponse
<1>2. ResponsesOK' = ResponsesOK
  BY <1>1, ResponsesSame
<1>3. r \in ResponsesOK /\ Tail(resp[c]) \in Seq(ResponsesOK)
  BY <1>1, SeqTail DEF ConfirmInv
<1>4. resp' \in [Conns -> Seq(ResponsesOK')]
  BY <1>1, <1>2, <1>3 DEF ConfirmInv
<1>5. ASSUME NEW b \in Blocks, rows'[b].ack = 1, b \notin crossed
      PROVE  HashOf[target[b]] = rows[b].hash
  <2>1. rows[b].ack = 1 \/ (r.type = "ack" /\ r.blk = b)
    BY <1>5 DEF RecvResponse, Confirm, sqlite_block_mark_acked, Rows
  <2> QED
    BY <1>3, <1>5, <2>1 DEF ConfirmInv, ResponsesOK
<1> QED
  BY <1>1, <1>4, <1>5 DEF ConfirmInv

\* handle_session: the block it writes is the version its row describes.
LEMMA AckHandle ==
  ASSUME "torn" \notin Faults, TypeOK, FlightInv, ConfirmInv, NEW c \in Conns,
         RecvBlock(c) \/ RecvIncremental(c) \/ RecvEnd(c) \/ RecvBlockFails(c),
         UNCHANGED clientVars
  PROVE  ConfirmInv'
<1> target \in [Blocks -> Contents] /\ resp \in [Conns -> Seq(ResponsesOK)]
  BY DEF TypeOK, RTypeOK, ConfirmInv
<1>1. UNCHANGED <<pc, rows, crossed>>
  BY DEF clientVars, tableVars
<1>2. ASSUME UNCHANGED target, resp' \in [Conns -> Seq(ResponsesOK)] PROVE ConfirmInv'
  BY <1>1, <1>2, ResponsesSame DEF ConfirmInv
<1>3. CASE RecvBlock(c)
  <2>1. PICK b \in Blocks, v \in Values :
          /\ protocol_decode(c, Data(b, v))
          /\ target' = [target EXCEPT ![b] = v]
          /\ send_response(c, IF block_writer_pending_bytes >= BinlogLimit
                              THEN <<Ack(b), Binlog(b)>> ELSE <<Ack(b)>>)
    BY <1>3 DEF RecvBlock, block_writer_write
  <2> DEFINE rs == IF block_writer_pending_bytes >= BinlogLimit
                   THEN <<Ack(b), Binlog(b)>> ELSE <<Ack(b)>>
  <2>2. Data(b, v) \in FramesOK
    BY <2>1, DecodeKeeps DEF FlightInv
  <2>3. b \notin crossed => HashOf[v] = rows[b].hash
    BY <2>2 DEF FramesOK, Data
  <2>4. target'[b] = v /\ \A a \in Blocks \ {b} : target'[a] = target[a]
    BY <2>1
  <2>5. ResponsesOK \subseteq ResponsesOK'
    <3>1. \A r \in Responses : r.type = "ack" => r.blk \in Blocks
      BY DEF Responses
    <3> QED
      BY <1>1, <2>3, <2>4, <3>1 DEF ResponsesOK
  <2>6. Ack(b) \in ResponsesOK' /\ Binlog(b) \in ResponsesOK'
    BY <1>1, <2>3, <2>4, ResponseTypes DEF ResponsesOK, Ack, Binlog
  <2>7. rs \in Seq(ResponsesOK')
    BY <2>6
  <2>8. send_response(c, rs)
    BY <2>1
  <2> HIDE DEF rs
  <2>9. resp' \in [Conns -> Seq(ResponsesOK')]
    <3>1. resp \in [Conns -> Seq(ResponsesOK')]
      BY <2>5, RespMono
    <3> QED
      BY <2>7, <2>8, <3>1, RespondKeeps
  <2> QED
    BY <1>1, <2>3, <2>4, <2>9 DEF ConfirmInv
<1>4. CASE RecvBlockFails(c)
  BY <1>2, <1>4 DEF RecvBlockFails
<1>5. CASE RecvIncremental(c)
  BY <1>2, <1>5 DEF RecvIncremental
<1>6. CASE RecvEnd(c)
  <2>1. <<Done>> \in Seq(ResponsesOK)
    BY ResponseTypes DEF ResponsesOK, Done
  <2> QED
    BY <1>2, <1>6, <2>1, RespondKeeps DEF RecvEnd
<1> QED
  BY <1>3, <1>4, <1>5, <1>6

\* Every other step loses responses and confirms nothing.
LEMMA AckLost ==
  ASSUME ~TailSend, TypeOK, ConfirmInv, NEW f,
         UNCHANGED <<rows, crossed, target>>, pc' # "round",
         \/ UNCHANGED resp
         \/ CloseSlots(f)
         \/ \E c \in Conns : Break(c)
         \/ DropConnections
  PROVE  ConfirmInv'
<1> resp \in [Conns -> Seq(ResponsesOK)]
  BY DEF ConfirmInv
<1>1. resp' \in [Conns -> Seq(ResponsesOK)]
  <2>1. CASE CloseSlots(f)
    BY <2>1, EmptySeq DEF CloseSlots
  <2>2. CASE \E c \in Conns : Break(c)
    BY <2>2, BreakKeeps DEF TypeOK, RTypeOK
  <2>3. CASE DropConnections
    BY <2>3, DropKeeps
  <2> QED
    BY <2>1, <2>2, <2>3
<1> QED
  BY <1>1, ResponsesSame DEF ConfirmInv

\* In full mode no round runs.
LEMMA NoRounds ==
  ASSUME ~TailSend, pc # "round"
  PROVE  /\ ~StartRound /\ ~ScanRoundEnds /\ ~LoopRoundEnds /\ ~EnterLoop
         /\ \A b \in Blocks : ~RoundBlock(b) /\ ~RoundReadFails(b)
  BY DEF StartRound, ScanRoundEnds, LoopRoundEnds, RoundOver, EnterLoop, RoundBlock,
     RoundSkips, RoundDefers, RoundVerifies, RoundResends, RoundReadFails, InRound

LEMMA AckStep ==
  ASSUME "power_loss" \notin Faults, "torn" \notin Faults, ~TailSend,
         TypeOK, FlightInv, ConfirmInv, [Next]_vars
  PROVE  ConfirmInv'
<1> pc # "round"
  BY DEF ConfirmInv
<1> \A b \in Blocks : ~RoundBlock(b) /\ ~RoundResends(b)
  BY NoRounds DEF RoundBlock
<1>1. CASE Queues
  <2>1. pc' = "flush"
    BY <1>1 DEF Queues, send_block
  <2>2. CASE UNCHANGED <<queue, rows, crossed, rvars>>
    BY <2>1, <2>2, AckLost DEF rvars
  <2> QED
    BY <1>1, <2>1, <2>2, QueuesQueued, AckQueued
<1>2. ASSUME ~Queues, NEW c \in Conns, RecvResponse(c) PROVE ConfirmInv'
  BY <1>2, HashesStay, AckRead
<1>3. ASSUME UntrackedStep, UNCHANGED <<target, resp>>, pc' # "round" PROVE ConfirmInv'
  BY <1>3, UntrackedSteps, AckLost DEF tableVars
<1>4. ASSUME \/ StartSession \/ StartsShort \/ ScanEnds \/ FlushSent \/ FlushDrops
             \/ FlushUnconnected \/ FlushEnds \/ AckEnds \/ TimersEnd \/ ReconnectDue
             \/ ReconnectLoop \/ ReconnectFails \/ DrainMore \/ SendEnd \/ EndUnconnected
             \/ WaitEnds \/ ReadFails \/ signal_handler \/ UNCHANGED vars
             \/ \E b \in Blocks, v \in Values : LiveWrite(b, v)
      PROVE  ConfirmInv'
  <2>1. UntrackedStep
    BY <1>4 DEF UntrackedStep
  <2>2. UNCHANGED <<target, resp>>
    BY <1>4 DEF rvars, vars, StartSession, StartsShort, Start, ScanEnds, FlushSent,
       FlushDrops, FlushUnconnected, FlushEnds, AckEnds, TimersEnd, ReconnectDue,
       ReconnectLoop, ReconnectFails, DrainMore, SendEnd, EndUnconnected, WaitEnds,
       ReadFails, signal_handler, LiveWrite
  <2>3. pc' # "round"
    BY <1>4 DEF vars, StartSession, StartsShort, Start, ScanEnds, FlushSent,
       FlushDrops, FlushUnconnected, FlushEnds, AckEnds, TimersEnd, ReconnectDue,
       ReconnectLoop, ReconnectFails, DrainMore, SendEnd, EndUnconnected, WaitEnds,
       ReadFails, signal_handler, LiveWrite
  <2> QED
    BY <1>3, <2>1, <2>2, <2>3
<1>5. ASSUME NEW S, pool_reap_stale(S) PROVE ConfirmInv'
  <2>1. CloseSlots(S) /\ UNCHANGED <<rows, crossed, target>> /\ pc' # "round"
    BY <1>5 DEF pool_reap_stale, tableVars
  <2> QED
    BY <2>1, AckLost
<1>6. CASE EndSession \/ Crash
  <2>1. CloseSlots(Slots) /\ UNCHANGED <<rows, crossed, target>> /\ pc' # "round"
    BY <1>6 DEF EndSession, Crash, ClientStops, pool_destroy, tableVars
  <2> QED
    BY <2>1, AckLost
<1>7. CASE UNCHANGED clientVars /\ (ServerExit \/ \E c \in Conns : Break(c))
  <2>1. /\ DropConnections \/ \E c \in Conns : Break(c)
        /\ UNCHANGED <<rows, crossed, target>> /\ pc' # "round"
    BY <1>7 DEF ServerExit, Break, clientVars, tableVars
  <2> QED
    BY <2>1, AckLost
<1>8. CASE ReceiverHandles
  BY <1>8, AckHandle DEF ReceiverHandles
<1>9. ASSUME ClientStep, ~Queues PROVE ConfirmInv'
  BY <1>2, <1>4, <1>5, <1>6, <1>9, NoRounds DEF ClientStep, NothingStale, Queues
<1>10. CASE Fault
  <2>1. ~PowerLoss
    BY DEF PowerLoss
  <2> QED
    BY <1>4, <1>5, <1>6, <1>7, <1>10, <2>1, NoRounds, AckHandle DEF Fault, SlotsStale
<1> QED
  BY <1>1, <1>4, <1>8, <1>9, <1>10 DEF Next, do_retransmit

\* In full mode, as long as no power loss and no torn write happens, ack=1 in
\* T_BLOCK means that the target holds what the row's hash describes - for every
\* plan, with any number of connections, and although process_ack sees only a
\* block's name and frames of sessions that are over may still arrive: no response
\* of an earlier frame, connection or session confirms a later version of a block
\* that was queued while nothing was in flight for it.
THEOREM ConfirmedIsOnTarget ==
  ASSUME "power_loss" \notin Faults, "torn" \notin Faults
  PROVE  Spec => []AckedMatchesHash
<1>1. CASE TailSend
  <2>1. AckedMatchesHash
    BY <1>1 DEF AckedMatchesHash
  <2> QED
    BY <2>1, PTL
<1>2. CASE ~TailSend
  <2>1. Init => FlightInv /\ ConfirmInv
    <3> SUFFICES ASSUME Init PROVE ConfirmInv
      BY FlightInit
    <3>1. \A b \in Blocks : rows[b].ack = 0
      BY InitUnacked
    <3>2. resp \in [Conns -> Seq(ResponsesOK)]
      BY EmptySeq DEF Init, ServerInit
    <3> QED
      BY <3>1, <3>2 DEF Init, ClientOff, ConfirmInv
  <2>2. TypeOK /\ FlightInv /\ ConfirmInv /\ [Next]_vars => (FlightInv /\ ConfirmInv)'
    BY <1>2, FlightStep, AckStep
  <2>3. ConfirmInv => AckedMatchesHash
    BY DEF ConfirmInv, AckedMatchesHash
  <2> QED
    BY <2>1, <2>2, <2>3, MigrationTypes, PTL DEF Spec
<1> QED
  BY <1>1, <1>2

------------------------------------------------------------------------------
(***************************************************************************)
(* A confirmation is never taken back.                                     *)
(***************************************************************************)

\* A round has only unacknowledged rows before it, there is no work outside a
\* round, and what is acknowledged has a row.
WorkInv ==
  /\ work # {} => pc = "round" /\ \A b \in work : rows[b].ack = 0 /\ HasRow(b)
  /\ \A b \in Blocks : rows[b].ack = 1 => HasRow(b)

Kept == \A b \in Blocks : rows[b].ack = 1 => rows'[b].ack = 1

LEMMA RetractStep ==
  ASSUME TypeOK, WorkInv, [Next]_vars PROVE WorkInv' /\ Kept
<1> TableTypeOK /\ ClientTypeOK
  BY DEF TypeOK
<1>1. ASSUME UNCHANGED rows PROVE Kept
  BY <1>1 DEF Kept
<1>2. ASSUME UNCHANGED <<work, pc, rows>> PROVE WorkInv'
  BY <1>2 DEF WorkInv, HasRow
<1>3. ASSUME work' = {}, UNCHANGED rows PROVE WorkInv'
  BY <1>3 DEF WorkInv, HasRow
<1>4. ASSUME pc # "round", UNCHANGED work,
             \A b \in Blocks : rows'[b].ack = 1 => rows'[b].hash # NoHash
      PROVE  WorkInv'
  BY <1>4 DEF WorkInv, HasRow
<1>18. \A b \in Blocks : rows[b].ack = 1 => rows[b].hash # NoHash
  BY DEF WorkInv, HasRow
<1>5. CASE send_block
  <2>1. Kept /\ \A b \in Blocks : rows'[b].ack = 1 => rows'[b].hash # NoHash
    <3>1. CASE UNCHANGED rows
      BY <1>18, <1>1, <3>1
    <3>2. CASE ~sqlite_block_acked(Plan[pos].blk)
               /\ sqlite_block_upsert_v(Plan[pos].blk, HashOf[block_reader_read], version)
      BY <1>18, <3>2 DEF sqlite_block_acked, HasRow, sqlite_block_upsert_v, TableTypeOK, Kept
    <3> QED
      BY <1>5, <3>1, <3>2 DEF send_block, Unchanged
  <2>2. pc # "round" /\ UNCHANGED work
    BY <1>5 DEF send_block, AtBlock, roundVars
  <2> QED
    BY <1>4, <2>1, <2>2
<1>6. ASSUME NEW c \in Conns, RecvResponse(c) PROVE WorkInv' /\ Kept
  <2> DEFINE b == Head(resp[c]).blk
  <2>1. rows' = rows \/ (rows[b].hash # NoHash /\ rows' = [rows EXCEPT ![b].ack = 1])
    BY <1>6 DEF RecvResponse, Confirm, sqlite_block_mark_acked, HasRow
  <2>2. Kept /\ \A a \in Blocks : rows'[a].ack = 1 => rows'[a].hash # NoHash
    BY <1>18, <2>1 DEF Kept, TableTypeOK, Rows
  <2>3. pc # "round" /\ UNCHANGED work
    BY <1>6 DEF RecvResponse, roundVars
  <2> QED
    BY <1>4, <2>2, <2>3
<1>7. CASE StartRound
  BY <1>18, <1>1, <1>7 DEF StartRound, sqlite_get_unacked, WorkInv, HasRow, tableVars
<1>8. ASSUME NEW b \in Blocks, RoundSkips(b) \/ RoundReadFails(b) \/ RoundDefers(b)
      PROVE  WorkInv' /\ Kept
  <2>1. UNCHANGED <<pc, rows>> /\ work' \subseteq work
    BY <1>8 DEF RoundSkips, RoundReadFails, RoundDefers, tableVars
  <2> QED
    BY <1>1, <2>1 DEF WorkInv, HasRow
<1>9. ASSUME NEW b \in Blocks, RoundVerifies(b) \/ RoundResends(b)
      PROVE  WorkInv' /\ Kept
  <2>1. b \in work /\ work' = work \ {b} /\ UNCHANGED pc
    BY <1>9 DEF RoundVerifies, RoundResends, InRound
  <2>2. \A a \in Blocks \ {b} : rows'[a] = rows[a]
    BY <1>9 DEF RoundVerifies, RoundResends, MarkStable, UpsertSent, TableTypeOK
  <2>3. rows[b].ack = 0 /\ rows[b].hash # NoHash /\ work \subseteq Blocks
    BY <2>1 DEF WorkInv, HasRow, ClientTypeOK
  <2>4. rows'[b].ack = 1 => rows'[b].hash # NoHash
    <3>1. CASE RoundVerifies(b)
      BY <2>3, <3>1 DEF RoundVerifies, MarkStable, TableTypeOK, Rows
    <3>2. CASE RoundResends(b)
      BY <3>2 DEF RoundResends, UpsertSent, TableTypeOK
    <3> QED
      BY <1>9, <3>1, <3>2
  <2> QED
    BY <1>18, <2>1, <2>2, <2>3, <2>4 DEF WorkInv, HasRow, Kept
<1>10. CASE ScanRoundEnds \/ LoopRoundEnds
  BY <1>1, <1>3, <1>10 DEF ScanRoundEnds, LoopRoundEnds, tableVars
<1>11. CASE EndSession \/ Crash
  BY <1>1, <1>3, <1>11 DEF EndSession, Crash, ClientStops, tableVars
<1>17. ASSUME NEW S, pool_reap_stale(S) PROVE pc # "round" /\ UNCHANGED <<work, rows>>
  BY <1>17 DEF pool_reap_stale, roundVars, tableVars
<1>12. ASSUME \/ StartSession \/ StartsShort \/ ScanEnds \/ FlushSent \/ FlushDrops
              \/ FlushUnconnected \/ FlushEnds \/ AckEnds \/ TimersEnd \/ ReconnectDue
              \/ NothingStale \/ SlotsStale \/ ReconnectLoop \/ ReconnectFails
              \/ DrainMore \/ EnterLoop \/ SendEnd \/ EndUnconnected \/ WaitEnds
              \/ ReadFails
       PROVE  WorkInv' /\ Kept
  <2>1. pc # "round" /\ UNCHANGED <<work, rows>>
    BY <1>12, <1>17 DEF StartSession, StartsShort, Start, ScanEnds, FlushSent, FlushDrops,
       FlushUnconnected, FlushEnds, AckEnds, TimersEnd, ReconnectDue, NothingStale,
       SlotsStale, ReconnectLoop, ReconnectFails, DrainMore, EnterLoop, EndIsDue, SendEnd,
       EndUnconnected, WaitEnds, ReadFails, AtBlock, roundVars, tableVars
  <2> QED
    BY <1>18, <1>1, <1>4, <2>1
<1>13. ASSUME \/ signal_handler \/ UNCHANGED clientVars \/ UNCHANGED vars
              \/ \E b \in Blocks, v \in Values : LiveWrite(b, v)
       PROVE  WorkInv' /\ Kept
  <2>1. UNCHANGED <<work, pc, rows>>
    BY <1>13 DEF signal_handler, clientVars, vars, LiveWrite, roundVars, tableVars
  <2> QED
    BY <1>1, <1>2, <2>1
<1>14. CASE ClientStep
  BY <1>5, <1>6, <1>7, <1>8, <1>9, <1>10, <1>11, <1>12, <1>14 DEF ClientStep, RoundBlock
<1>15. CASE Fault
  BY <1>8, <1>11, <1>12, <1>13, <1>15 DEF Fault
<1>16. ReceiverHandles => UNCHANGED clientVars
  BY DEF ReceiverHandles
<1> QED
  BY <1>12, <1>13, <1>14, <1>15, <1>16 DEF Next, do_retransmit

\* In both modes and under every fault, once a row says ack=1 it says so for ever:
\* send_block skips such rows, and a round never holds a block that was confirmed
\* after the round selected it.
THEOREM ConfirmationIsFinal == Spec => AckNeverRetracted
<1>1. Init => WorkInv
  <2> SUFFICES ASSUME Init PROVE WorkInv
    OBVIOUS
  <2>1. work = {} /\ \A b \in Blocks : rows[b].ack = 0
    BY InitUnacked DEF Init, ClientOff
  <2> QED
    BY <2>1 DEF WorkInv
<1>2. TypeOK /\ WorkInv /\ [Next]_vars => WorkInv'
  BY RetractStep
<1>3. TypeOK /\ WorkInv /\ [Next]_vars
      => [\A b \in Blocks : rows[b].ack = 1 => rows'[b].ack = 1]_rows
  BY RetractStep DEF Kept
<1> QED
  BY <1>1, <1>2, <1>3, MigrationTypes, PTL DEF Spec, AckNeverRetracted


------------------------------------------------------------------------------
(***************************************************************************)
(* A row describes the version that was sent last.                         *)
(***************************************************************************)

Elems(s) == {s[i] : i \in 1 .. Len(s)}

LEMMA ElemsAppend ==
  ASSUME NEW S, NEW s \in Seq(S), NEW x PROVE Elems(Append(s, x)) = Elems(s) \cup {x}
<1>1. Len(Append(s, x)) = Len(s) + 1 /\ Append(s, x)[Len(s) + 1] = x
      /\ \A i \in 1 .. Len(s) : Append(s, x)[i] = s[i]
  OBVIOUS
<1>2. 1 .. Len(s) + 1 = (1 .. Len(s)) \cup {Len(s) + 1}
  OBVIOUS
<1> QED
  BY <1>1, <1>2 DEF Elems

LEMMA ElemsTail ==
  ASSUME NEW S, NEW s \in Seq(S), s # << >>
  PROVE  Elems(s) \subseteq {Head(s)} \cup Elems(Tail(s))
<1> SUFFICES ASSUME NEW i \in 1 .. Len(s) PROVE s[i] \in {Head(s)} \cup Elems(Tail(s))
  BY DEF Elems
<1>1. CASE i = 1
  BY <1>1
<1>2. CASE i # 1
  <2>1. i - 1 \in 1 .. Len(Tail(s)) /\ Tail(s)[i - 1] = s[i]
    BY <1>2
  <2> QED
    BY <2>1 DEF Elems
<1> QED
  BY <1>1, <1>2

LEMMA ElemsEmpty == Elems(<< >>) = {}
  BY DEF Elems

\* Something is on its way for block b.
About(f, b) == f.type = "data" /\ f.blk = b

InQueue(b) == \E q \in Elems(queue) : q.blk = b

OnWire(b) == \E c \in Conns : \E f \in Elems(chan[c]) : About(f, b)

\* Every connection in the pool is up.
PoolUp ==
  /\ \A c \in Conns : link[c] # "broken"
  /\ \A i \in Slots : slot[i] # NoConn => link[slot[i]] = "up"

\* The queue is empty wherever its contents could be lost.
Emptied ==
  /\ running
  /\ pc \in {"off", "ack", "wait", "done"} => queue = << >>
  /\ pc \in {"off", "send"} => phase = "scan"
  /\ phase = "scan" => drains = 0
  /\ pc = "check" /\ phase = "drain" => drains = 0 \/ queue = << >>

\* What holds until something goes wrong.
CalmInv == mishaps = 0 => PoolUp /\ Emptied

LEMMA FaultCounts == ASSUME TypeOK, Fault PROVE mishaps' # 0
  BY BoundFacts DEF Fault, TypeOK

LEMMA OthersDoNot ==
  ASSUME [Next]_vars, ~Fault PROVE UNCHANGED mishaps
<1>1. ClientStep => UNCHANGED mishaps
  BY DEF ClientStep, send_block, ScanEnds, FlushSent, FlushDrops, FlushEnds, RecvResponse,
         AckEnds, TimersEnd, StartRound, RoundBlock, RoundSkips, RoundDefers, RoundVerifies,
         RoundResends, ScanRoundEnds, LoopRoundEnds, DrainMore, EnterLoop, SendEnd,
         WaitEnds, EndSession, NothingStale, ReconnectLoop, boundVars
<1> QED
  BY <1>1 DEF Next, do_retransmit, StartSession, ReconnectDue, ReceiverHandles, LiveWrite,
     vars, boundVars

LEMMA PoolUpAcquire ==
  ASSUME TypeOK, PoolUp, NEW c \in Conns, pool_acquire(c) PROVE PoolUp' /\ link'[c] = "up"
<1> PoolTypeOK /\ link \in [Conns -> Links]
  BY DEF TypeOK, ClientTypeOK, RTypeOK, Links
<1>1. CASE AcquireOpen(c)
  <2>1. PICK i \in Slots : slot[i] = c
    BY <1>1 DEF AcquireOpen
  <2>2. c # NoConn
    BY ClientPoolAssumption
  <2> QED
    BY <1>1, <2>1, <2>2 DEF AcquireOpen, PoolUp
<1>2. CASE AcquireNew(c)
  <2>1. slot'[0] = c /\ \A i \in Slots \ {0} : slot'[i] = NoConn
    BY <1>2, SlotFacts DEF AcquireNew, NoneOpen, PoolTypeOK
  <2>2. link'[c] = "up" /\ \A d \in Conns \ {c} : link'[d] = link[d]
    BY <1>2 DEF AcquireNew
  <2> QED
    BY <2>1, <2>2 DEF PoolUp
<1> QED
  BY <1>1, <1>2 DEF pool_acquire

LEMMA PoolUpInit ==
  ASSUME TypeOK, PoolUp, pool_init(NConns) PROVE PoolUp'
<1> link \in [Conns -> Links]
  BY DEF TypeOK, RTypeOK, Links
<1>1. \A i \in Slots : i < NConns /\ i # NConns /\ ~(i > NConns)
  BY ClientPoolAssumption DEF Slots
<1>2. \A i \in Slots : NewConns[i] \in Conns
  BY NewConnIsFresh
<1> HIDE DEF NewConns
<1>3. \A i \in Slots : slot'[i] = NewConns[i] /\ link'[NewConns[i]] = "up"
  BY <1>1, <1>2 DEF pool_init
<1>4. \A c \in Conns : link'[c] \in {"up", link[c]}
  BY <1>1 DEF pool_init
<1> QED
  BY <1>3, <1>4 DEF PoolUp

LEMMA PoolUpClose ==
  ASSUME TypeOK, PoolUp, NEW S \in {{}, Slots}, CloseSlots(S) PROVE PoolUp'
<1> PoolTypeOK
  BY DEF TypeOK, ClientTypeOK
<1>1. \A c \in Conns : link'[c] \in {"closed", link[c]}
  BY DEF CloseSlots
<1>2. CASE S = {}
  BY <1>2 DEF CloseSlots, PoolUp, PoolTypeOK
<1>3. CASE S = Slots
  BY <1>1, <1>3 DEF CloseSlots, PoolUp
<1> QED
  BY <1>2, <1>3

LEMMA PoolUpStep ==
  ASSUME TypeOK, PoolUp, [Next]_vars, ~Fault PROVE PoolUp'
<1>1. ASSUME UNCHANGED <<link, slot>> PROVE PoolUp'
  BY <1>1 DEF PoolUp
<1>2. CASE FlushSent \/ FlushDrops \/ SendEnd \/ ReconnectLoop
  <2>1. \E c \in Conns : pool_acquire(c)
    BY <1>2 DEF FlushSent, FlushDrops, SendEnd, ReconnectLoop, pool_acquire
  <2> QED
    BY <2>1, PoolUpAcquire
<1>3. CASE StartSession
  BY <1>3, PoolUpInit DEF StartSession, Start
<1>4. CASE EndSession
  BY <1>4, PoolUpClose DEF EndSession, ClientStops, pool_destroy
<1>5. CASE NothingStale
  BY <1>5, PoolUpClose DEF NothingStale, pool_reap_stale
<1>6. ReceiverHandles => UNCHANGED <<link, slot>>
  BY DEF ReceiverHandles, clientVars, poolVars, RecvBlock, RecvIncremental, RecvEnd
<1>7. (\E b \in Blocks, v \in Values : LiveWrite(b, v)) \/ ReconnectDue \/ UNCHANGED vars
      => UNCHANGED <<link, slot>>
  BY DEF LiveWrite, ReconnectDue, vars, rvars, poolVars
<1>8. ASSUME ClientStep
      PROVE  \/ UNCHANGED <<link, slot>>
             \/ FlushSent \/ FlushDrops \/ SendEnd \/ ReconnectLoop \/ EndSession
             \/ NothingStale
  BY <1>8 DEF ClientStep, send_block, ScanEnds, FlushEnds, RecvResponse, AckEnds, TimersEnd,
     StartRound, RoundBlock, RoundSkips, RoundDefers, RoundVerifies, RoundResends,
     ScanRoundEnds, LoopRoundEnds, DrainMore, EnterLoop, WaitEnds, rvars, poolVars
<1> QED
  BY <1>1, <1>2, <1>3, <1>4, <1>5, <1>6, <1>7, <1>8 DEF Next, do_retransmit

LEMMA EmptiedStep ==
  ASSUME TypeOK, PoolUp, Emptied, [Next]_vars, ~Fault PROVE Emptied'
<1> USE RoundFacts
<1> ClientTypeOK
  BY DEF TypeOK
<1>1. ASSUME UNCHANGED <<pc, phase, drains, queue, running>> PROVE Emptied'
  BY <1>1 DEF Emptied
<1>2. CASE send_block
  BY <1>2 DEF send_block, AtBlock, Emptied, scanVars
<1>3. CASE ScanEnds
  BY <1>3 DEF ScanEnds, Emptied, scanVars
<1>4. CASE FlushSent
  BY <1>4 DEF FlushSent, Emptied, scanVars
<1>5. ~FlushDrops
  BY ClientPoolAssumption DEF FlushDrops, PoolUp
<1>6. CASE FlushEnds
  BY <1>6 DEF FlushEnds, Emptied, scanVars
<1>7. CASE AckEnds
  BY <1>7 DEF AckEnds, Emptied
<1>8. CASE TimersEnd
  BY <1>8 DEF TimersEnd, Emptied
<1>9. CASE StartRound
  BY <1>9 DEF StartRound, Emptied, scanVars
<1>10. CASE NothingStale
  BY <1>10 DEF NothingStale, pool_reap_stale, Emptied, scanVars
<1>11. CASE ReconnectLoop
  BY <1>11 DEF ReconnectLoop, Emptied, scanVars
<1>12. ASSUME NEW b \in Blocks, RoundBlock(b) PROVE Emptied'
  <2>1. pc = "round" /\ UNCHANGED <<pc, phase, drains, running>>
    BY <1>12 DEF RoundBlock, RoundSkips, RoundDefers, RoundVerifies, RoundResends, InRound,
       scanVars
  <2> QED
    BY <2>1 DEF Emptied
<1>13. CASE ScanRoundEnds
  BY <1>13 DEF ScanRoundEnds, Emptied, scanVars
<1>14. CASE LoopRoundEnds
  BY <1>14 DEF LoopRoundEnds, Emptied, scanVars
<1>15. CASE DrainMore
  BY <1>15 DEF DrainMore, Emptied
<1>16. CASE EnterLoop
  BY <1>16 DEF EnterLoop, Emptied, scanVars
<1>17. CASE SendEnd
  BY <1>17 DEF SendEnd, EndIsDue, Drained, Emptied, scanVars
<1>18. CASE WaitEnds
  BY <1>18 DEF WaitEnds, Emptied, scanVars
<1>19. CASE EndSession
  BY <1>19 DEF EndSession, ClientStops, Emptied
<1>20. CASE StartSession
  BY <1>20 DEF StartSession, Start, Emptied
<1>21. CASE ReconnectDue
  BY <1>21 DEF ReconnectDue, Emptied, scanVars
<1>22. \/ \E c \in Conns : RecvResponse(c)
       \/ ReceiverHandles
       \/ \E b \in Blocks, v \in Values : LiveWrite(b, v)
       \/ UNCHANGED vars
       => UNCHANGED <<pc, phase, drains, queue, running>>
  BY DEF RecvResponse, ReceiverHandles, LiveWrite, vars, clientVars, scanVars
<1>23. CASE ClientStep
  BY <1>1, <1>2, <1>3, <1>4, <1>5, <1>6, <1>7, <1>8, <1>9, <1>10, <1>11, <1>12, <1>13,
     <1>14, <1>15, <1>16, <1>17, <1>18, <1>19, <1>22, <1>23 DEF ClientStep
<1> QED
  BY <1>1, <1>20, <1>21, <1>22, <1>23 DEF Next, do_retransmit

LEMMA CalmStep == ASSUME TypeOK, CalmInv, [Next]_vars PROVE CalmInv'
  BY PoolUpStep, EmptiedStep, FaultCounts, OthersDoNot DEF CalmInv

------------------------------------------------------------------------------

\* A block whose last version is no longer on its way has it on the target.
Landed(b) ==
  HasRow(b) /\ b \notin crossed /\ ~InQueue(b) /\ ~OnWire(b)
    => HashOf[target[b]] = rows[b].hash

LandedInv == mishaps = 0 => \A b \in Blocks : Landed(b)

\* Until something goes wrong nothing in flight is lost.
LEMMA StaysOnTheWay ==
  ASSUME TypeOK, PoolUp, Emptied, [Next]_vars, ~Fault, ~ReceiverHandles, NEW b,
         InQueue(b) \/ OnWire(b)
  PROVE  InQueue(b)' \/ OnWire(b)'
<1> queue \in Seq(Items) /\ chan \in [Conns -> Seq(Frames)]
  BY DEF TypeOK, ClientTypeOK, RTypeOK
<1> DEFINE Goal == InQueue(b)' \/ OnWire(b)'
<1>1. ASSUME UNCHANGED <<queue, chan>> PROVE Goal
  BY <1>1 DEF InQueue, OnWire
<1>2. ASSUME Queues PROVE Goal
  <2>1. CASE UNCHANGED <<queue, rows, crossed, rvars>>
    BY <1>1, <2>1 DEF rvars
  <2>2. ASSUME NEW a \in Blocks, NEW v \in Values, Queued(a, v) PROVE Goal
    <3>1. Elems(queue) \subseteq Elems(queue') /\ UNCHANGED chan
      BY <2>2, ElemsAppend DEF Queued, queue_push, rvars
    <3> QED
      BY <3>1 DEF InQueue, OnWire
  <2> QED
    BY <1>2, <2>1, <2>2, QueuesQueued
<1>3. ASSUME NEW c \in Conns, NEW f \in Frames, pool_acquire(c), wire_send(c, f)
      PROVE  /\ f \in Elems(chan'[c])
             /\ OnWire(b) => OnWire(b)'
  <2>1. link'[c] = "up"
    BY <1>3, PoolUpAcquire
  <2>2. chan' = [chan EXCEPT ![c] = Append(@, f)]
    BY <1>3, <2>1 DEF wire_send
  <2>3. chan[c] \in Seq(Frames)
    OBVIOUS
  <2>4. Elems(chan'[c]) = Elems(chan[c]) \cup {f}
    BY <2>2, <2>3, ElemsAppend
  <2>5. \A d \in Conns : Elems(chan[d]) \subseteq Elems(chan'[d])
    BY <2>2, <2>4
  <2> QED
    BY <2>4, <2>5 DEF OnWire
<1>4. ASSUME FlushSent PROVE Goal
  <2> DEFINE q == Head(queue)
             f == Data(Head(queue).blk, Head(queue).val)
  <2>1. queue # << >> /\ queue' = Tail(queue)
    BY <1>4 DEF FlushSent
  <2>2. q \in Items
    BY <2>1, SeqTail
  <2>3. f \in Frames /\ About(f, q.blk)
    BY <2>2, FrameTypes DEF Items, About, Data
  <2>4. PICK c \in Conns : pool_acquire(c) /\ wire_send(c, f)
    BY <1>4 DEF FlushSent
  <2>5. Elems(queue) \subseteq {q} \cup Elems(queue')
    BY <2>1, ElemsTail
  <2> HIDE DEF f
  <2>6. f \in Elems(chan'[c]) /\ (OnWire(b) => OnWire(b)')
    BY <1>3, <2>3, <2>4
  <2> HIDE DEF q
  <2>7. CASE InQueue(b)
    BY <2>3, <2>5, <2>6, <2>7 DEF InQueue, OnWire
  <2> QED
    BY <2>6, <2>7
<1>5. ASSUME SendEnd PROVE Goal
  <2>1. PICK c \in Conns : pool_acquire(c) /\ wire_send(c, End)
    BY <1>5 DEF SendEnd
  <2>2. End \in Frames
    BY FrameTypes
  <2>3. OnWire(b) => OnWire(b)'
    BY <1>3, <2>1, <2>2
  <2>4. UNCHANGED queue
    BY <1>5 DEF SendEnd
  <2> QED
    BY <2>3, <2>4 DEF InQueue
<1>6. ASSUME StartSession PROVE Goal
  <2>1. PICK c \in Conns : chan[c] = << >> /\ \A d \in Conns \ {c} : chan'[d] = chan[d]
    <3>1. pool_init(NConns)
      BY <1>6 DEF StartSession, Start
    <3>2. NewConns[0] \in Conns /\ chan[NewConns[0]] = << >>
      BY <3>1, SlotFacts, NewConnIsFresh
    <3> QED
      BY <1>6, <3>2 DEF StartSession, Start
  <2>2. \A d \in Conns : Elems(chan[d]) \subseteq Elems(chan'[d])
    BY <2>1, ElemsEmpty
  <2>3. UNCHANGED queue
    BY <1>6 DEF StartSession, Start
  <2> QED
    BY <2>2, <2>3 DEF InQueue, OnWire
<1>7. ASSUME EndSession PROVE Goal
  <2>1. queue = << >> /\ UNCHANGED chan
    BY <1>7 DEF EndSession, Emptied
  <2> QED
    BY <2>1, ElemsEmpty DEF InQueue, OnWire
<1>8. ~FlushDrops
  BY ClientPoolAssumption DEF FlushDrops, PoolUp
<1> HIDE DEF Goal
<1>9. ASSUME StillStep PROVE Goal
  BY <1>1, <1>9, StillSteps
<1>10. ASSUME ClientStep PROVE Goal
  BY <1>2, <1>4, <1>5, <1>7, <1>8, <1>9, <1>10 DEF ClientStep, StillStep, RoundBlock, Queues
<1>11. Goal
  BY <1>6, <1>9, <1>10 DEF Next, do_retransmit, StillStep
<1> QED
  BY <1>11 DEF Goal

\* Every step keeps LandedInv.
LEMMA LandedQueued ==
  ASSUME TypeOK, \A a \in Blocks : Landed(a), NEW b \in Blocks, NEW v \in Values,
         Queued(b, v)
  PROVE  \A a \in Blocks : Landed(a)'
<1> rows \in [Blocks -> Rows] /\ queue \in Seq(Items)
  BY DEF TypeOK, TableTypeOK, ClientTypeOK
<1>1. Elems(queue') = Elems(queue) \cup {[blk |-> b, val |-> v]} /\ UNCHANGED <<chan, target>>
  BY ElemsAppend DEF Queued, queue_push, rvars
<1>2. InQueue(b)'
  <2>1. [blk |-> b, val |-> v] \in Elems(queue') /\ [blk |-> b, val |-> v].blk = b
    BY <1>1
  <2> QED
    BY <2>1 DEF InQueue
<1>3. ASSUME NEW a \in Blocks \ {b} PROVE Landed(a)'
  <2>1. rows'[a] = rows[a] /\ (a \in crossed' <=> a \in crossed)
    BY DEF Queued, Crossing
  <2>2. (InQueue(a) => InQueue(a)') /\ (OnWire(a)' <=> OnWire(a))
    BY <1>1 DEF InQueue, OnWire
  <2> QED
    BY <1>1, <2>1, <2>2 DEF Landed, HasRow
<1> QED
  BY <1>2, <1>3 DEF Landed

LEMMA LandedStays ==
  ASSUME \A b \in Blocks : Landed(b), UNCHANGED <<crossed, target>>,
         \A b \in Blocks : rows'[b].hash = rows[b].hash,
         \A b \in Blocks : InQueue(b) \/ OnWire(b) => InQueue(b)' \/ OnWire(b)'
  PROVE  \A b \in Blocks : Landed(b)'
  BY DEF Landed, HasRow

\* handle_session takes a frame off a connection, and writes it if it is a block.
LEMMA LandedHandles ==
  ASSUME TypeOK, FlightInv, \A b \in Blocks : Landed(b), ReceiverHandles
  PROVE  \A b \in Blocks : Landed(b)'
<1> chan \in [Conns -> Seq(Frames)] /\ target \in [Blocks -> Contents]
  BY DEF TypeOK, RTypeOK
<1>1. UNCHANGED <<queue, rows, crossed>>
  BY DEF ReceiverHandles, clientVars, tableVars
<1>2. PICK c \in Conns : RecvBlock(c) \/ RecvIncremental(c) \/ RecvEnd(c)
  BY DEF ReceiverHandles
<1>3. ASSUME NEW f, protocol_decode(c, f), NEW b, OnWire(b), ~About(f, b) PROVE OnWire(b)'
  <2>1. chan[c] \in Seq(Frames) /\ chan[c] # << >> /\ f = Head(chan[c])
        /\ chan' = [chan EXCEPT ![c] = Tail(@)]
    BY <1>3 DEF protocol_decode
  <2>2. Elems(chan[c]) \subseteq {f} \cup Elems(Tail(chan[c]))
    BY <2>1, ElemsTail
  <2>3. \A d \in Conns : Elems(chan[d]) \subseteq {f} \cup Elems(chan'[d])
    BY <2>1, <2>2
  <2> QED
    BY <1>3, <2>3 DEF OnWire
<1>4. CASE RecvBlock(c)
  <2>1. PICK b \in Blocks, v \in Values :
          protocol_decode(c, Data(b, v)) /\ target' = [target EXCEPT ![b] = v]
    BY <1>4 DEF RecvBlock, block_writer_write
  <2>2. Data(b, v) \in FramesOK
    BY <2>1, DecodeKeeps DEF FlightInv
  <2>3. b \notin crossed => HashOf[target'[b]] = rows'[b].hash
    BY <1>1, <2>1, <2>2 DEF FramesOK, Data
  <2>4. ASSUME NEW a \in Blocks \ {b} PROVE Landed(a)'
    <3>1. target'[a] = target[a]
      BY <2>1
    <3>2. ~About(Data(b, v), a)
      BY DEF About, Data
    <3>3. OnWire(a) => OnWire(a)'
      BY <1>3, <2>1, <3>2
    <3> QED
      BY <1>1, <3>1, <3>3 DEF Landed, HasRow, InQueue
  <2>5. Landed(b)'
    BY <1>1, <2>3 DEF Landed
  <2> QED
    BY <2>4, <2>5
<1>5. CASE RecvIncremental(c) \/ RecvEnd(c)
  <2>1. PICK f : protocol_decode(c, f) /\ f \in {Incremental, End} /\ UNCHANGED target
    BY <1>5 DEF RecvIncremental, RecvEnd
  <2>2. \A b : ~About(f, b)
    BY <2>1 DEF About, Incremental, End
  <2>3. \A b : OnWire(b) => OnWire(b)'
    BY <1>3, <2>1, <2>2
  <2> QED
    BY <1>1, <2>1, <2>3 DEF Landed, HasRow, InQueue
<1> QED
  BY <1>2, <1>4, <1>5

LEMMA LandedStep ==
  ASSUME TypeOK, FlightInv, CalmInv, LandedInv, [Next]_vars PROVE LandedInv'
<1>1. CASE Fault
  BY <1>1, FaultCounts DEF LandedInv
<1>2. CASE mishaps # 0 /\ ~Fault
  BY <1>2, OthersDoNot DEF LandedInv
<1>3. ASSUME mishaps = 0, ~Fault PROVE \A b \in Blocks : Landed(b)'
  <2>1. (\A b \in Blocks : Landed(b)) /\ PoolUp /\ Emptied
    BY <1>3 DEF LandedInv, CalmInv
  <2>2. CASE ReceiverHandles
    BY <2>1, <2>2, LandedHandles
  <2>3. ASSUME ~ReceiverHandles
        PROVE  \A b \in Blocks : InQueue(b) \/ OnWire(b) => InQueue(b)' \/ OnWire(b)'
    BY <1>3, <2>1, <2>3, StaysOnTheWay
  <2>4. CASE Queues
    <3>1. ASSUME UNCHANGED <<queue, rows, crossed, rvars>> PROVE \A b \in Blocks : Landed(b)'
      BY <2>1, <3>1 DEF Landed, HasRow, InQueue, OnWire, rvars
    <3> QED
      BY <2>1, <2>4, <3>1, QueuesQueued, LandedQueued
  <2>5. CASE ~Queues /\ ~ReceiverHandles
    <3>1. UNCHANGED crossed /\ \A b \in Blocks : rows'[b].hash = rows[b].hash
      BY <2>5, OnlyQueuing, HashesStay
    <3>2. UNCHANGED target
      <4>1. LocalStep => UNCHANGED target
        BY LocalSteps DEF rvars
      <4>2. ClientStep => UNCHANGED target
        BY <4>1 DEF ClientStep, LocalStep, FlushSent, RecvResponse, NothingStale,
           pool_reap_stale, ReconnectLoop, SendEnd, EndSession
      <4> QED
        BY <1>3, <2>5, <4>1, <4>2
           DEF Next, LocalStep, StartSession, Start, do_retransmit, vars, rvars
    <3> QED
      BY <2>1, <2>3, <2>5, <3>1, <3>2, LandedStays
  <2> QED
    BY <2>2, <2>4, <2>5
<1> QED
  BY <1>1, <1>2, <1>3 DEF LandedInv

LEMMA LastSentFollows ==
  TypeOK /\ FlightInv /\ LandedInv => RowIsLastSent
<1> SUFFICES ASSUME TypeOK, FlightInv, LandedInv, NEW b \in Blocks, HasRow(b), b \notin crossed
             PROVE  /\ \A v \in OnTheWay(b) : HashOf[v] = rows[b].hash
                    /\ OnTheWay(b) = {} /\ mishaps = 0 => HashOf[target[b]] = rows[b].hash
  BY DEF RowIsLastSent
<1> queue \in Seq(ItemsOK) /\ chan \in [Conns -> Seq(FramesOK)]
  BY DEF FlightInv
<1>1. \A q \in Elems(queue) : q \in ItemsOK
  BY SeqElement DEF Elems
<1>2. \A c \in Conns : \A f \in Elems(chan[c]) : f \in FramesOK
  BY SeqElement DEF Elems
<1>3. ASSUME NEW v \in OnTheWay(b) PROVE HashOf[v] = rows[b].hash
  <2>1. CASE \E q \in Elems(queue) : q.blk = b /\ q.val = v
    BY <1>1, <2>1 DEF ItemsOK
  <2>2. CASE \E c \in Conns : Data(b, v) \in Elems(chan[c])
    BY <1>2, <2>2 DEF FramesOK, Data
  <2> QED
    BY <1>3, <2>1, <2>2 DEF OnTheWay, Elems
<1>4. ASSUME OnTheWay(b) = {} PROVE ~InQueue(b) /\ ~OnWire(b)
  <2>1. ASSUME NEW q \in Elems(queue), q.blk = b PROVE q.val \in OnTheWay(b)
    <3>1. q.val \in Values
      BY <1>1 DEF ItemsOK, Items
    <3> QED
      BY <2>1, <3>1 DEF OnTheWay, Elems
  <2>2. ASSUME NEW c \in Conns, NEW f \in Elems(chan[c]), About(f, b)
        PROVE  f.val \in OnTheWay(b)
    <3>1. f \in Frames /\ f.type = "data"
      BY <1>2, <2>2 DEF FramesOK, About
    <3>2. f.val \in Values /\ f = Data(b, f.val)
      BY <2>2, <3>1 DEF Frames, Data, About
    <3> QED
      BY <3>2 DEF OnTheWay, Elems
  <2> QED
    BY <1>4, <2>1, <2>2 DEF InQueue, OnWire
<1> QED
  BY <1>3, <1>4 DEF LandedInv, Landed

\* For any number of connections and under every fault, the hash in T_BLOCK is that
\* of every version queued or on a connection, and until the first fault, once none
\* is left, that of the block on the target - unless the block was queued again
\* before its last version had arrived.  The rounds of TailSend mode, which compare
\* the live disk with T_BLOCK, rest on this.
THEOREM RowsDescribeTheLastSent == Spec => []RowIsLastSent
<1>1. Init => FlightInv /\ CalmInv /\ LandedInv
  <2> SUFFICES ASSUME Init PROVE CalmInv /\ LandedInv
    BY FlightInit
  <2>1. PoolUp
    BY DEF Init, PoolInit, PoolUp
  <2>2. Emptied
    BY DEF Init, ClientOff, Emptied
  <2>3. \A b \in Blocks : ~HasRow(b)
    BY DEF Init, TableInit, NoRow, HasRow
  <2> QED
    BY <2>1, <2>2, <2>3 DEF CalmInv, LandedInv, Landed
<1>2. TypeOK /\ FlightInv /\ CalmInv /\ LandedInv /\ [Next]_vars
      => (FlightInv /\ CalmInv /\ LandedInv)'
  BY FlightStep, CalmStep, LandedStep
<1> QED
  BY <1>1, <1>2, LastSentFollows, MigrationTypes, PTL DEF Spec
==============================================================================
