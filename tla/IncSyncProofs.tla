---------------------------- MODULE IncSyncProofs ----------------------------
(***************************************************************************)
(* Theorems about incsync passes for every scan, every number of           *)
(* connections, every depth of the queue and every fault.                  *)
(***************************************************************************)
EXTENDS IncSync, ReceiverProofs

\* The assumptions on the constants, in the portions the steps below need.
LEMMA BoundFacts ==
  /\ Period \in Nat \ {0} /\ Depth \in Nat \ {0}
  /\ MaxVersion \in Nat \ {0} /\ MaxWrites \in Nat /\ MaxMishaps \in Nat
  BY IncSyncAssumption

LEMMA ScanType == Scan \in Seq(Blocks) /\ \A i \in 1 .. Len(Scan) : Scan[i] \in Blocks
  BY IncSyncAssumption, SeqElement

LEMMA HashType == \A v \in Contents : HashOf[v] \in Hashes
  BY DisksAssumption

Items == [blk : Blocks, val : Values]

\* Where flush_one's and process_ack's loops come from and go back to: a block is
\* pushed again only while the scan is at one.
LoopInv ==
  /\ pc = "push" => back = "push"
  /\ pc \in {"off", "scan"} => back = "scan"
  /\ back = "push" => pos <= Len(Scan)

\* The types of what the client keeps.
PassTypeOK ==
  /\ live \in [Blocks -> Values] /\ snap \in [Blocks -> Values]
  /\ pc \in {"off", "scan", "push", "flush", "ack", "drain", "wait"}
  /\ back \in {"scan", "push", "drain"}
  /\ pos \in 1 .. Len(Scan) + 1
  /\ scanned \in 0 .. Period - 1
  /\ queue \in Seq(Items)
  /\ version \in 0 .. MaxVersion
  /\ PoolTypeOK

\* Outside the loop of flush_one there is room for one more entry below the depth
\* at which queue_push complains.
RoomInv == Len(queue) <= Depth /\ (pc # "flush" => Len(queue) < Depth)

PassInv == PassTypeOK /\ LoopInv /\ RoomInv

ModelInv ==
  /\ RTypeOK /\ TableTypeOK /\ PassInv
  /\ writes \in 0 .. MaxWrites /\ mishaps \in 0 .. MaxMishaps

------------------------------------------------------------------------------
(***************************************************************************)
(* The client's own state.                                                 *)
(***************************************************************************)

\* pool_acquire finds an open slot.
LEMMA AcquireTypes ==
  ASSUME PoolTypeOK, NEW c \in Conns, AcquireOpen(c) PROVE PoolTypeOK' /\ UNCHANGED link
  BY SlotFacts DEF AcquireOpen, PoolTypeOK

\* An entry for the current block is added.
LEMMA PushTypes ==
  ASSUME PassTypeOK, LoopInv, Pushes, Pushed
  PROVE  /\ pos \in 1 .. Len(Scan) /\ Scan[pos] \in Blocks
         /\ queue' \in Seq(Items) /\ Len(queue') = Len(queue) + 1
<1>1. pos \in 1 .. Len(Scan)
  BY ScanType DEF PassTypeOK, LoopInv, Pushes, AtBlock
<1>2. [blk |-> Scan[pos], val |-> snap[Scan[pos]]] \in Items
  BY <1>1, ScanType DEF PassTypeOK, Items
<1> QED
  BY <1>1, <1>2, ScanType, SeqAppend DEF Pushed, PassTypeOK

\* Advance goes on to the next block, or to a flush that comes back to the scan.
LEMMA AdvanceTypes ==
  ASSUME PassTypeOK, pos \in 1 .. Len(Scan), Advance
  PROVE  /\ pos' \in 1 .. Len(Scan) + 1 /\ scanned' \in 0 .. Period - 1
         /\ pc' \in {"flush", "scan"} /\ back' = "scan"
<1>1. scanned' \in 0 .. Period - 1
  BY BoundFacts DEF Advance, PassTypeOK
<1> QED
  BY <1>1, ScanType DEF Advance

\* A process that has ended is well typed and has room; so are the connections it
\* leaves.
LEMMA EndTypes ==
  ASSUME RTypeOK, PassInv, ProcessEnds, UNCHANGED <<live, snap>>
  PROVE  /\ PassInv'
         /\ link' \in [Conns -> Links] /\ resp' \in [Conns -> Seq(Responses)]
<1>1. SlotType' /\ link' \in [Conns -> Links] /\ resp' \in [Conns -> Seq(Responses)]
  BY CloseKeeps DEF ProcessEnds, pool_destroy, RTypeOK, Links, PassInv, PassTypeOK,
     PoolTypeOK, SlotType
<1>2. PoolTypeOK' /\ scanned' \in 0 .. Period - 1 /\ version' \in 0 .. MaxVersion
  BY <1>1, SlotFacts, BoundFacts DEF ProcessEnds, pool_destroy, PoolTypeOK, SlotType
<1>3. queue' = << >> /\ queue' \in Seq(Items) /\ Len(queue') = 0
  BY EmptySeq DEF ProcessEnds
<1>4. pc' = "off" /\ back' = "scan" /\ pos' = 1 /\ 1 \in 1 .. Len(Scan) + 1
  BY ScanType DEF ProcessEnds
<1> QED
  BY <1>1, <1>2, <1>3, <1>4, BoundFacts DEF PassInv, PassTypeOK, LoopInv, RoomInv

\* A pass starts well typed, with as many connections as were made.
LEMMA StartTypes == ASSUME ModelInv, NEW k, Start(k) PROVE PassInv' /\ RTypeOK'
<1> /\ PassTypeOK /\ LoopInv /\ RoomInv /\ TableTypeOK /\ RTypeOK
    /\ link \in [Conns -> Links] /\ chan \in [Conns -> Seq(Frames)]
  BY DEF ModelInv, PassInv, RTypeOK, Links
<1>1. pool_init(k)
  BY DEF Start
<1>2. SlotType' /\ link' \in [Conns -> Links]
  BY <1>1, PoolInitKeeps
<1>3. next' \in Slots
  BY SlotFacts DEF Start
<1>4. chan' \in [Conns -> Seq(Frames)]
  <2>1. NewConns[0] \in Conns /\ <<Incremental>> \in Seq(Frames)
    BY <1>1, SlotFacts, NewConnIsFresh, FrameTypes
  <2> QED
    BY <2>1 DEF Start
<1>5. version' \in 0 .. MaxVersion
  BY BoundFacts DEF Start, NextVersion, sqlite_get_next_version, TableTypeOK
<1>6. PassTypeOK'
  BY <1>2, <1>3, <1>5 DEF Start, PassTypeOK, PoolTypeOK, SlotType
<1>7. PassInv'
  BY <1>6 DEF Start, PassInv, LoopInv, RoomInv
<1>8. RTypeOK'
  BY <1>2, <1>4 DEF Start, RTypeOK, Links
<1> QED
  BY <1>7, <1>8

\* Pushing, once or again.
LEMMA PushStepTypes == ASSUME PassInv, PushDone \/ PushAgain PROVE PassInv'
<1> PassTypeOK /\ LoopInv /\ RoomInv /\ Pushes /\ Pushed
  BY DEF PassInv, PushDone, PushAgain
<1>1. /\ pos \in 1 .. Len(Scan) /\ queue' \in Seq(Items) /\ Len(queue') = Len(queue) + 1
      /\ Len(queue) \in Nat
  BY PushTypes DEF PassTypeOK
<1>2. Len(queue') <= Depth
  BY <1>1, BoundFacts DEF RoomInv, Pushes, AtBlock
<1>3. CASE PushDone
  <2>1. Len(queue') < Depth
    BY <1>1, <1>3, BoundFacts DEF PushDone, Backpressure
  <2>2. /\ pos' \in 1 .. Len(Scan) + 1 /\ scanned' \in 0 .. Period - 1
        /\ pc' \in {"flush", "scan"} /\ back' = "scan"
    BY <1>1, <1>3, AdvanceTypes DEF PushDone
  <2>3. UNCHANGED <<live, snap, version, slot, next>>
    BY <1>3 DEF PushDone, poolVars
  <2> QED
    BY <1>1, <1>2, <2>1, <2>2, <2>3 DEF PassInv, PassTypeOK, LoopInv, RoomInv, PoolTypeOK
<1>4. CASE PushAgain
  BY <1>1, <1>2, <1>4, ScanType
     DEF PushAgain, passVars, poolVars, PassInv, PassTypeOK, LoopInv, RoomInv, PoolTypeOK
<1> QED
  BY <1>3, <1>4

\* Taking an entry out, whether or not it is sent.
LEMMA FlushTypes == ASSUME PassInv, FlushSent \/ FlushDrops PROVE PassInv'
<1> PassTypeOK /\ LoopInv /\ RoomInv
  BY DEF PassInv
<1>1. /\ queue' = Tail(queue) /\ queue # << >> /\ pc = "flush"
      /\ \E c \in Conns : AcquireOpen(c)
  BY DEF FlushSent, FlushDrops
<1>2. queue' \in Seq(Items) /\ Len(queue') = Len(queue) - 1 /\ Len(queue) \in Nat
  BY <1>1, SeqTail DEF PassTypeOK
<1>3. PoolTypeOK'
  BY <1>1, AcquireTypes DEF PassTypeOK
<1>4. pc' \in {"flush", "ack"} /\ UNCHANGED <<live, passVars, back>>
  BY <1>1 DEF FlushSent, FlushDrops
<1> QED
  BY <1>2, <1>3, <1>4, BoundFacts DEF passVars, PassInv, PassTypeOK, LoopInv, RoomInv

\* The other steps of the client.
LEMMA OtherTypes ==
  ASSUME PassInv,
         ScanVerifies \/ BlockFails \/ ScanEnds \/ FlushEnds \/ AckEnds \/ DrainMore \/ SendEnd
  PROVE  PassInv'
<1> PassTypeOK /\ LoopInv /\ RoomInv
  BY DEF PassInv
<1> Len(queue) \in Nat
  BY DEF PassTypeOK
<1>1. CASE ScanVerifies
  <2>1. pos \in 1 .. Len(Scan) /\ pc = "scan"
    BY <1>1, ScanType DEF ScanVerifies, AtBlock, PassTypeOK
  <2>2. /\ pos' \in 1 .. Len(Scan) + 1 /\ scanned' \in 0 .. Period - 1
        /\ pc' \in {"flush", "scan"} /\ back' = "scan"
    BY <1>1, <2>1, AdvanceTypes DEF ScanVerifies
  <2>3. UNCHANGED <<live, snap, version, slot, next, queue>>
    BY <1>1 DEF ScanVerifies, poolVars
  <2> QED
    BY <2>1, <2>2, <2>3 DEF PassInv, PassTypeOK, LoopInv, RoomInv, PoolTypeOK
<1>2. CASE BlockFails
  <2>1. pos' \in 1 .. Len(Scan) + 1 /\ pc = "scan"
    BY <1>2, ScanType DEF BlockFails, AtBlock, PassTypeOK
  <2>2. scanned' \in 0 .. Period - 1
    BY <1>2, BoundFacts DEF BlockFails, PassTypeOK
  <2>3. UNCHANGED <<live, snap, version, pc, back, queue, slot, next>>
    BY <1>2 DEF BlockFails, poolVars
  <2> QED
    BY <2>1, <2>2, <2>3 DEF PassInv, PassTypeOK, LoopInv, RoomInv, PoolTypeOK
<1>3. CASE ScanEnds \/ FlushEnds \/ AckEnds \/ DrainMore
  <2>1. UNCHANGED <<live, passVars, queue, slot, next>>
    BY <1>3 DEF ScanEnds, FlushEnds, AckEnds, DrainMore, poolVars
  <2>2. PassTypeOK' /\ LoopInv'
    BY <1>3, <2>1 DEF passVars, ScanEnds, FlushEnds, AckEnds, DrainMore, PassTypeOK, LoopInv,
                      PoolTypeOK
  <2>3. RoomInv'
    BY <1>3, <2>1, BoundFacts DEF ScanEnds, FlushEnds, AckEnds, DrainMore, RoomInv
  <2> QED
    BY <2>2, <2>3 DEF PassInv
<1>4. CASE SendEnd
  <2>1. PoolTypeOK'
    BY <1>4, AcquireTypes DEF SendEnd, PassTypeOK
  <2> QED
    BY <1>4, <2>1 DEF SendEnd, passVars, PassInv, PassTypeOK, LoopInv, RoomInv
<1> QED
  BY <1>1, <1>2, <1>3, <1>4

\* Steps that leave the client's pass alone.
LEMMA IdleTypes ==
  ASSUME PassInv, UNCHANGED <<passVars, pc, back, queue, poolVars>>,
         live' \in [Blocks -> Values]
  PROVE  PassInv'
  BY DEF PassInv, passVars, poolVars, PassTypeOK, LoopInv, RoomInv, PoolTypeOK

LEMMA PassStep == ASSUME ModelInv, [Next]_vars PROVE PassInv'
<1> PassInv /\ RTypeOK /\ live \in [Blocks -> Values]
  BY DEF ModelInv, PassInv, PassTypeOK
<1>1. CASE \E b \in Blocks, v \in Values : LiveWrite(b, v)
  BY <1>1, IdleTypes DEF LiveWrite
<1>2. ASSUME NEW c \in Conns, RecvResponse(c) PROVE PassInv'
  BY <1>2, IdleTypes DEF RecvResponse
<1>3. CASE ReceiverHandles \/ UNCHANGED vars
  BY <1>3, IdleTypes DEF ReceiverHandles, clientVars, vars
<1>4. CASE EndPass
  BY <1>4, EndTypes DEF EndPass
<1>5. CASE Fault
  <2>1. CASE Crash
    BY <2>1, EndTypes DEF Crash
  <2>2. CASE UNCHANGED clientVars
    BY <2>2, IdleTypes DEF clientVars
  <2>3. CASE StartsShort
    BY <2>3, StartTypes DEF StartsShort
  <2> QED
    BY <1>5, <2>1, <2>2, <2>3, OtherTypes DEF Fault
<1>6. CASE StartPass
  BY <1>6, StartTypes DEF StartPass
<1> QED
  BY <1>1, <1>2, <1>3, <1>4, <1>5, <1>6, PushStepTypes, FlushTypes, OtherTypes
     DEF Next, ClientStep

------------------------------------------------------------------------------
(***************************************************************************)
(* The connections and the tables.                                         *)
(***************************************************************************)

LEMMA WireTypes == ASSUME ModelInv, [Next]_vars PROVE RTypeOK'
<1> RTypeOK /\ PassTypeOK
  BY DEF ModelInv, PassInv
<1> chan \in [Conns -> Seq(Frames)] /\ resp \in [Conns -> Seq(Responses)]
  BY DEF RTypeOK
<1>1. CASE UNCHANGED rvars
  BY <1>1 DEF rvars, RTypeOK
<1>2. CASE StartPass \/ StartsShort
  BY <1>2, StartTypes DEF StartPass, StartsShort
<1>3. CASE FlushSent
  <2>1. PICK c \in Conns :
          AcquireOpen(c) /\ wire_send(c, Data(Head(queue).blk, Head(queue).val))
    BY <1>3 DEF FlushSent
  <2>2. Head(queue) \in Items
    BY <1>3, SeqTail DEF FlushSent, PassTypeOK
  <2>3. Data(Head(queue).blk, Head(queue).val) \in Frames
    BY <2>2, FrameTypes DEF Items
  <2>4. chan' \in [Conns -> Seq(Frames)]
    BY <2>1, <2>3, SendKeeps
  <2> QED
    BY <1>3, <2>1, <2>4 DEF FlushSent, AcquireOpen, RTypeOK
<1>4. CASE SendEnd
  <2>1. PICK c \in Conns : AcquireOpen(c) /\ wire_send(c, End)
    BY <1>4 DEF SendEnd
  <2>2. chan' \in [Conns -> Seq(Frames)]
    BY <2>1, FrameTypes, SendKeeps
  <2> QED
    BY <1>4, <2>1, <2>2 DEF SendEnd, AcquireOpen, RTypeOK
<1>5. ASSUME NEW c \in Conns, RecvResponse(c) PROVE RTypeOK'
  <2>1. Tail(resp[c]) \in Seq(Responses)
    BY <1>5, SeqTail DEF RecvResponse
  <2> QED
    BY <1>5, <2>1 DEF RecvResponse, RTypeOK
<1>6. ASSUME ProcessEnds, chan' \in [Conns -> Seq(Frames)],
             UNCHANGED <<live, snap, target, durable, sinceSync, pending>>
      PROVE  RTypeOK'
  <2>1. link' \in [Conns -> Links] /\ resp' \in [Conns -> Seq(Responses)]
    BY <1>6, EndTypes DEF ModelInv
  <2> QED
    BY <1>6, <2>1 DEF RTypeOK, Links
<1>7. CASE Crash
  <2>1. chan' \in [Conns -> Seq(Frames)]
    BY <1>7, EmptySeq DEF Crash
  <2> QED
    BY <1>6, <1>7, <2>1 DEF Crash
<1>8. CASE EndPass
  BY <1>6, <1>8 DEF EndPass
<1>9. CASE ReceiverHandles
  BY <1>9, StepTypes DEF ReceiverHandles, ReceiverStep
<1>10. CASE Fault
  BY <1>1, <1>2, <1>7, <1>10, StepTypes, FaultTypes DEF Fault, BlockFails, ReceiverStep
<1>11. FlushDrops => UNCHANGED rvars
  BY DEF FlushDrops, AcquireOpen, rvars
<1>12. CASE ClientStep
  BY <1>1, <1>3, <1>4, <1>5, <1>8, <1>11, <1>12
     DEF ClientStep, ScanVerifies, PushDone, PushAgain, ScanEnds, FlushEnds, AckEnds, DrainMore
<1> QED
  BY <1>1, <1>2, <1>9, <1>10, <1>12 DEF Next, LiveWrite, vars, rvars

LEMMA TableTypes == ASSUME ModelInv, [Next]_vars PROVE TableTypeOK'
<1> TableTypeOK /\ RTypeOK /\ PassTypeOK /\ LoopInv /\ version \in Nat
  BY BoundFacts DEF ModelInv, PassInv, PassTypeOK
<1>1. CASE UNCHANGED tableVars
  BY <1>1 DEF tableVars, TableTypeOK
<1>2. CASE StartPass \/ StartsShort
  <2>1. NextVersion \in Nat
    BY BoundFacts DEF NextVersion, sqlite_get_next_version, TableTypeOK
  <2> QED
    BY <1>2, <2>1 DEF StartPass, StartsShort, Start, sqlite_version_start, TableTypeOK
<1>3. CASE ScanVerifies
  <2> DEFINE b == Scan[pos]
             r == [rows[b] EXCEPT !.ack = 1, !.sent = TRUE,
                    !.version = IF version > 0 THEN version ELSE rows[b].version]
  <2>1. b \in Blocks
    BY <1>3, ScanType DEF ScanVerifies, AtBlock, PassTypeOK
  <2>2. r \in Rows
    BY <2>1 DEF TableTypeOK, Rows
  <2>3. rows' = [rows EXCEPT ![b] = r] /\ UNCHANGED maxVersion
    BY <1>3 DEF ScanVerifies, MarkStable
  <2> HIDE DEF r
  <2> QED
    BY <2>1, <2>2, <2>3 DEF TableTypeOK
<1>4. CASE PushDone
  <2>1. Scan[pos] \in Blocks
    BY <1>4, PushTypes DEF PushDone
  <2>2. HashOf[snap[Scan[pos]]] \in Hashes
    BY <2>1, HashType DEF PassTypeOK, Contents
  <2>3. [ack |-> 0, hash |-> HashOf[snap[Scan[pos]]], version |-> version, sent |-> FALSE,
         remote |-> RemoteId] \in Rows
    BY <2>2 DEF Rows
  <2> QED
    BY <1>4, <2>1, <2>3 DEF PushDone, sqlite_block_upsert_v, TableTypeOK
<1>5. ASSUME NEW c \in Conns, RecvResponse(c) PROVE TableTypeOK'
  <2>1. CASE UNCHANGED rows
    BY <1>1, <1>5, <2>1 DEF RecvResponse, tableVars
  <2>2. CASE Head(resp[c]).type = "ack" /\ sqlite_block_mark_acked(Head(resp[c]).blk)
    <3> DEFINE b == Head(resp[c]).blk
    <3>1. Head(resp[c]) \in Responses
      BY <1>5, SeqTail DEF RecvResponse, RTypeOK
    <3>2. b \in Blocks
      BY <2>2, <3>1 DEF Responses
    <3>3. [rows[b] EXCEPT !.ack = 1] \in Rows
      BY <3>2 DEF TableTypeOK, Rows
    <3> QED
      BY <1>5, <2>2, <3>2, <3>3 DEF RecvResponse, sqlite_block_mark_acked, TableTypeOK
  <2> QED
    BY <1>5, <2>1, <2>2 DEF RecvResponse
<1>6. CASE ClientStep
  BY <1>1, <1>3, <1>4, <1>5, <1>6
     DEF ClientStep, PushAgain, ScanEnds, FlushSent, FlushDrops, FlushEnds, AckEnds,
         DrainMore, SendEnd, EndPass
<1>7. CASE Fault
  BY <1>1, <1>2, <1>7 DEF Fault, Crash, BlockFails, clientVars
<1> QED
  BY <1>1, <1>2, <1>6, <1>7 DEF Next, LiveWrite, ReceiverHandles, clientVars, vars, tableVars

\* The model's own counters.
LEMMA BoundTypes ==
  ASSUME ModelInv, [Next]_vars PROVE writes' \in 0 .. MaxWrites /\ mishaps' \in 0 .. MaxMishaps
<1> writes \in 0 .. MaxWrites /\ mishaps \in 0 .. MaxMishaps
  BY DEF ModelInv
<1>1. CASE UNCHANGED boundVars
  BY <1>1 DEF boundVars
<1>2. CASE \E b \in Blocks, v \in Values : LiveWrite(b, v)
  BY <1>2, BoundFacts DEF LiveWrite
<1>3. CASE Fault
  <2>1. UNCHANGED writes
    BY <1>3 DEF Fault, Crash, BlockFails, StartsShort, Start, clientVars
  <2> QED
    BY <1>3, <2>1, BoundFacts DEF Fault
<1>4. CASE ClientStep
  BY <1>1, <1>4
     DEF ClientStep, ScanVerifies, PushDone, PushAgain, ScanEnds, FlushSent, FlushDrops,
         FlushEnds, RecvResponse, AckEnds, DrainMore, SendEnd, EndPass
<1> QED
  BY <1>1, <1>2, <1>3, <1>4 DEF Next, StartPass, Start, ReceiverHandles, clientVars, vars, boundVars

LEMMA ModelInit == Init => ModelInv
<1> SUFFICES ASSUME Init PROVE ModelInv
  OBVIOUS
<1>1. RTypeOK
  BY ReceiverAssumption, EmptySeq DEF Init, ServerInit, RTypeOK, Contents
<1>2. TableTypeOK
  <2>1. NoRow \in Rows
    BY DEF NoRow, Rows
  <2> QED
    BY <2>1 DEF Init, TableInit, TableTypeOK
<1>3. PassInv
  <2>1. live \in [Blocks -> Values] /\ snap \in [Blocks -> Values]
    BY IncSyncAssumption DEF Init
  <2>2. queue \in Seq(Items) /\ Len(queue) = 0
    BY EmptySeq DEF Init
  <2>3. PoolTypeOK /\ scanned \in 0 .. Period - 1 /\ version \in 0 .. MaxVersion
    BY SlotFacts, BoundFacts DEF Init, PoolInit, PoolTypeOK
  <2>4. pc = "off" /\ back = "scan" /\ pos = 1 /\ 1 \in 1 .. Len(Scan) + 1
    BY ScanType DEF Init
  <2> QED
    BY <2>1, <2>2, <2>3, <2>4, BoundFacts DEF PassInv, PassTypeOK, LoopInv, RoomInv
<1>4. writes \in 0 .. MaxWrites /\ mishaps \in 0 .. MaxMishaps
  BY BoundFacts DEF Init
<1> QED
  BY <1>1, <1>2, <1>3, <1>4 DEF ModelInv

LEMMA ModelStep == ModelInv /\ [Next]_vars => ModelInv'
<1> SUFFICES ASSUME ModelInv, [Next]_vars PROVE ModelInv'
  OBVIOUS
<1> QED
  BY PassStep, WireTypes, TableTypes, BoundTypes DEF ModelInv

\* Client, tables, connections and receiver keep their types in every pass,
\* interrupted or not; for this the loop that pushes a block again must never run
\* when the scan is past its end.
THEOREM IncSyncTypes == Spec => []TypeOK
<1>1. ModelInv => TypeOK
  BY DEF ModelInv, PassInv, PassTypeOK, TypeOK, Items
<1> QED
  BY <1>1, ModelInit, ModelStep, PTL DEF Spec

\* The queue never grows beyond BACKPRESSURE_QUEUE_DEPTH, although queue_push takes
\* entries at that depth and a flush ends at the first send that fails: every
\* flush takes out at least one entry before the next push.
THEOREM BacklogIsBounded == Spec => []BacklogBounded
<1>1. ModelInv => BacklogBounded
  BY DEF ModelInv, PassInv, RoomInv, BacklogBounded
<1> QED
  BY <1>1, ModelInit, ModelStep, PTL DEF Spec

------------------------------------------------------------------------------
(***************************************************************************)
(* Confirmed rows.  As long as nothing goes wrong, what a pass has on its  *)
(* way belongs to that pass, and everything has arrived when it ends.      *)
(***************************************************************************)

\* Block b has been scanned in this pass, or is at it.
Touched(b) == Pushing(b) \/ \E i \in 1 .. Len(Scan) : i < pos /\ Scan[i] = b

\* What is queued, on the wire and answered is of this pass: it carries the
\* contents of the snapshot, and an answer means that the target has them.
PassItems == {e \in Items : Touched(e.blk) /\ e.val = snap[e.blk]}

PassFrames == {f \in Frames : f.type = "data" => Touched(f.blk) /\ f.val = snap[f.blk]}

PassResponses ==
  {r \in Responses : r.type = "ack" => Touched(r.blk) /\ target[r.blk] = snap[r.blk]}

InTransit(b) ==
  \/ \E i \in 1 .. Len(queue) : queue[i].blk = b
  \/ \E c \in Conns : \E i \in 1 .. Len(chan[c]) : chan[c][i].type = "data" /\ chan[c][i].blk = b

\* The row of a block that the pass has not come to describes the target.  That of
\* one it has passed describes the snapshot, and the target does too when the row
\* is confirmed or nothing is in transit any more.
RowRight(b) ==
  IF HasRow(b)
  THEN /\ ~Touched(b) => HashOf[target[b]] = rows[b].hash
       /\ Touched(b) /\ ~Pushing(b) =>
            /\ rows[b].hash = HashOf[snap[b]]
            /\ rows[b].ack = 1 \/ ~InTransit(b) => HashOf[target[b]] = rows[b].hash
  ELSE rows[b].ack = 0

\* Between two passes nothing is on its way, and what is on its way is on
\* connections that are up, as those of the pool are.
WireInv ==
  /\ pc = "off" => pos = 1 /\ \A c \in Conns : chan[c] = << >> /\ resp[c] = << >>
  /\ \A c \in Conns : link[c] # "up" => chan[c] = << >> /\ resp[c] = << >>
  /\ \A i \in Slots : slot[i] # NoConn => link[slot[i]] = "up"
  /\ pc \in {"off", "wait"} => queue = << >>
  /\ pc \in {"drain", "wait"} => back = "drain"

TransitInv ==
  /\ queue \in Seq(PassItems)
  /\ chan \in [Conns -> Seq(PassFrames)]
  /\ resp \in [Conns -> Seq(PassResponses)]

SyncInv == mishaps = 0 => WireInv /\ TransitInv /\ \A b \in Blocks : RowRight(b)

\* The partitions do not overlap: no block is scanned twice.
NoRepeats == \A i, j \in 1 .. Len(Scan) : Scan[i] = Scan[j] => i = j

\* Where an element of a sequence is after one is added or the first one is taken.
LEMMA AppendKeeps ==
  ASSUME NEW S, NEW s \in Seq(S), NEW x \in S
  PROVE  /\ \A i \in 1 .. Len(s) : i \in 1 .. Len(Append(s, x)) /\ Append(s, x)[i] = s[i]
         /\ \E i \in 1 .. Len(Append(s, x)) : Append(s, x)[i] = x
<1>1. Len(s) \in Nat /\ Len(Append(s, x)) = Len(s) + 1 /\ Append(s, x)[Len(s) + 1] = x
  OBVIOUS
<1>2. Len(s) + 1 \in 1 .. Len(Append(s, x))
  BY <1>1
<1> QED BY <1>1, <1>2

LEMMA TailKeeps ==
  ASSUME NEW S, NEW s \in Seq(S), s # << >>
  PROVE  \A i \in 1 .. Len(s) :
           s[i] = Head(s) \/ \E j \in 1 .. Len(Tail(s)) : Tail(s)[j] = s[i]
<1> SUFFICES ASSUME NEW i \in 1 .. Len(s), i # 1
             PROVE  \E j \in 1 .. Len(Tail(s)) : Tail(s)[j] = s[i]
  OBVIOUS
<1>1. i - 1 \in 1 .. Len(Tail(s)) /\ Tail(s)[i - 1] = s[i]
  OBVIOUS
<1> QED BY <1>1

\* The position stays: so do the blocks that are touched.
LEMMA TouchedSame ==
  ASSUME pos' = pos, back' = back \/ (back = "scan" /\ back' = "drain")
  PROVE  \A b : (Touched(b)' <=> Touched(b)) /\ (Pushing(b)' <=> Pushing(b))
BY DEF Touched, Pushing

\* The scan goes on, or begins to push its block again and again.
LEMMA TouchedNext ==
  ASSUME pos \in 1 .. Len(Scan), pos' = pos + 1, back' = "scan"
  PROVE  \A b : (Touched(b)' <=> Touched(b) \/ b = Scan[pos]) /\ ~Pushing(b)'
BY ScanType DEF Touched, Pushing

LEMMA TouchedPush ==
  ASSUME pos \in 1 .. Len(Scan), pos' = pos, back' = "push"
  PROVE  \A b : (Touched(b)' <=> Touched(b) \/ b = Scan[pos]) /\ (Pushing(b)' <=> b = Scan[pos])
BY ScanType DEF Touched, Pushing

\* A block the scan comes to is not touched.
LEMMA AtBlockFresh ==
  ASSUME NoRepeats, PassTypeOK, LoopInv, AtBlock
  PROVE  pos \in 1 .. Len(Scan) /\ Scan[pos] \in Blocks /\ ~Touched(Scan[pos])
<1>1. pos \in 1 .. Len(Scan) /\ back = "scan"
  BY ScanType DEF AtBlock, PassTypeOK, LoopInv
<1>2. \A i \in 1 .. Len(Scan) : i < pos => Scan[i] # Scan[pos]
  BY <1>1, ScanType DEF NoRepeats
<1> QED BY <1>1, <1>2, ScanType DEF Touched, Pushing

\* What is in transit stays of this pass while more blocks are touched and the
\* target gets nothing but the snapshot.
LEMMA TransitMono ==
  ASSUME TransitInv, snap' = snap,
         \A b \in Blocks : Touched(b) => Touched(b)',
         \A b \in Blocks : target[b] = snap[b] => target'[b] = snap[b]
  PROVE  /\ queue \in Seq(PassItems')
         /\ chan \in [Conns -> Seq(PassFrames')]
         /\ resp \in [Conns -> Seq(PassResponses')]
<1>1. PassItems \subseteq PassItems'
  BY DEF PassItems, Items
<1>2. PassFrames \subseteq PassFrames'
  BY DEF PassFrames, Frames
<1>3. PassResponses \subseteq PassResponses'
  BY DEF PassResponses, Responses
<1>4. queue \in Seq(PassItems')
  BY <1>1, SeqMono DEF TransitInv
<1>5. chan \in [Conns -> Seq(PassFrames')]
  BY <1>2, SeqMono DEF TransitInv
<1>6. resp \in [Conns -> Seq(PassResponses')]
  BY <1>3, SeqMono DEF TransitInv
<1> QED BY <1>4, <1>5, <1>6

\* A row stays right when nothing about its block changes but what is in transit.
LEMMA RowSame ==
  ASSUME NEW b \in Blocks, RowRight(b), snap' = snap,
         rows'[b] = rows[b], target'[b] = target[b],
         Touched(b)' <=> Touched(b), Pushing(b)' <=> Pushing(b),
         InTransit(b) => InTransit(b)'
  PROVE  RowRight(b)'
BY DEF RowRight, HasRow

\* The client's steps that move nothing.
LEMMA SyncLocal ==
  ASSUME ModelInv, mishaps = 0, SyncInv, ScanEnds \/ FlushEnds \/ AckEnds \/ DrainMore
  PROVE  SyncInv'
<1>0. WireInv /\ TransitInv /\ (\A b \in Blocks : RowRight(b)) /\ LoopInv
  BY DEF SyncInv, ModelInv, PassInv
<1>1. /\ UNCHANGED <<link, chan, resp, target, rows, snap, pos, queue, slot>>
      /\ back' = back \/ (back = "scan" /\ back' = "drain")
      /\ pc \in {"scan", "flush", "ack", "drain"} /\ pc' \in {"flush", "ack", back}
  BY <1>0 DEF ScanEnds, FlushEnds, AckEnds, DrainMore, rvars, tableVars, passVars, poolVars,
                 LoopInv
<1>2. \A b : (Touched(b)' <=> Touched(b)) /\ (Pushing(b)' <=> Pushing(b))
  BY <1>1, TouchedSame
<1>3. back \in {"scan", "push", "drain"} /\ (pc' = "drain" => back' = "drain")
  BY <1>0, <1>1 DEF ModelInv, PassInv, PassTypeOK
<1>4. WireInv'
  BY <1>0, <1>1, <1>3 DEF WireInv
<1>5. TransitInv'
  BY <1>0, <1>1, <1>2, TransitMono DEF TransitInv
<1>6. ASSUME NEW b \in Blocks PROVE RowRight(b)'
  <2>1. InTransit(b) => InTransit(b)'
    BY <1>1 DEF InTransit
  <2> QED BY <1>0, <1>1, <1>2, <2>1, RowSame
<1> QED BY <1>4, <1>5, <1>6 DEF SyncInv

\* A block is found as its row says: it was not touched, so the target is too.
LEMMA SyncVerifies ==
  ASSUME NoRepeats, ModelInv, mishaps = 0, SyncInv, ScanVerifies
  PROVE  SyncInv'
<1>0. WireInv /\ TransitInv /\ (\A b \in Blocks : RowRight(b)) /\ LoopInv /\ PassTypeOK
  BY DEF SyncInv, ModelInv, PassInv
<1> DEFINE a == Scan[pos]
<1>1. /\ pos \in 1 .. Len(Scan) /\ a \in Blocks /\ ~Touched(a) /\ pc = "scan"
      /\ pos' = pos + 1 /\ back' = "scan" /\ pc' \in {"flush", "scan"}
      /\ UNCHANGED <<link, chan, resp, target, snap, queue, slot>>
  BY <1>0, AtBlockFresh DEF ScanVerifies, AtBlock, Advance, rvars, poolVars
<1>2. /\ HasRow(a) /\ rows[a].hash = HashOf[snap[a]]
      /\ rows'[a].hash = rows[a].hash
      /\ \A b \in Blocks \ {a} : rows'[b] = rows[b]
  <2>1. rows \in [Blocks -> Rows]
    BY DEF ModelInv, TableTypeOK
  <2>2. rows[a] \in Rows
    BY <1>1, <2>1
  <2>3. HasRow(a) /\ rows[a].hash = HashOf[snap[a]]
    BY DEF ScanVerifies, SameHash, sqlite_block_lookup
  <2>4. rows' = [rows EXCEPT ![a] = [rows[a] EXCEPT !.ack = 1, !.sent = TRUE,
                   !.version = IF version > 0 THEN version ELSE rows[a].version]]
    BY DEF ScanVerifies, MarkStable
  <2>5. [rows[a] EXCEPT !.ack = 1, !.sent = TRUE,
           !.version = IF version > 0 THEN version ELSE rows[a].version].hash = rows[a].hash
    BY <2>2 DEF Rows
  <2> HIDE DEF a
  <2> QED BY <1>1, <2>1, <2>3, <2>4, <2>5
<1> HIDE DEF a
<1>3. \A b : (Touched(b)' <=> Touched(b) \/ b = a) /\ ~Pushing(b)'
  BY <1>1, TouchedNext DEF a
<1>4. \A b : ~Pushing(b)
  BY <1>0, <1>1 DEF LoopInv, Pushing
<1>5. WireInv'
  BY <1>0, <1>1 DEF WireInv
<1>6. TransitInv'
  BY <1>0, <1>1, <1>3, TransitMono DEF TransitInv
<1>7. ASSUME NEW b \in Blocks PROVE RowRight(b)'
  <2>1. CASE b = a
    <3>1. HashOf[target[a]] = rows[a].hash
      BY <1>0, <1>1, <1>2 DEF RowRight
    <3> QED BY <1>1, <1>2, <1>3, <2>1, <3>1 DEF RowRight, HasRow
  <2>2. CASE b # a
    <3>1. InTransit(b) => InTransit(b)'
      BY <1>1 DEF InTransit
    <3> QED BY <1>0, <1>1, <1>2, <1>3, <1>4, <2>2, <3>1, RowSame
  <2> QED BY <2>1, <2>2
<1> QED BY <1>5, <1>6, <1>7 DEF SyncInv

\* A changed block is queued, once or again.
LEMMA SyncPush ==
  ASSUME ModelInv, mishaps = 0, SyncInv, PushDone \/ PushAgain
  PROVE  SyncInv'
<1>0. WireInv /\ TransitInv /\ (\A b \in Blocks : RowRight(b)) /\ LoopInv /\ PassTypeOK
  BY DEF SyncInv, ModelInv, PassInv
<1>01. PICK a, e : a = Scan[pos] /\ e = [blk |-> a, val |-> snap[a]]
  OBVIOUS
<1>1. /\ pos \in 1 .. Len(Scan) /\ a \in Blocks /\ pc \in {"scan", "push"}
      /\ pc' \in {"flush", "scan"} /\ queue' = Append(queue, e)
      /\ UNCHANGED <<link, chan, resp, target, snap, slot>>
      /\ rows \in [Blocks -> Rows]
  <2>1. Pushes /\ Pushed
    BY DEF PushDone, PushAgain
  <2>2. pos \in 1 .. Len(Scan) /\ a \in Blocks
    BY <1>01, <1>0, <2>1, PushTypes
  <2>3. rows \in [Blocks -> Rows]
    BY DEF ModelInv, TableTypeOK
  <2> QED BY <1>01, <2>1, <2>2, <2>3 
     DEF PushDone, PushAgain, Pushes, Pushed, AtBlock, Advance, rvars, passVars, poolVars
<1>2. \A b : Pushing(b) => b = a
  BY <1>01 DEF Pushing
<1>4. /\ \A b : (Touched(b)' <=> Touched(b) \/ b = a)
      /\ \A b : b # a => ~Pushing(b) /\ ~Pushing(b)'
      /\ \A b \in Blocks \ {a} : rows'[b] = rows[b]
      /\ \/ ~Pushing(a)' /\ rows'[a].hash = HashOf[snap[a]] /\ rows'[a].ack = 0
         \/ Pushing(a)' /\ rows'[a] = rows[a]
  <2>1. CASE PushDone
    <3>1. pos' = pos + 1 /\ back' = "scan"
      BY <2>1 DEF PushDone, Advance
    <3>2. \A b : (Touched(b)' <=> Touched(b) \/ b = a) /\ ~Pushing(b)'
      BY <1>01, <1>1, <3>1, TouchedNext
    <3>3. /\ rows'[a].hash = HashOf[snap[a]] /\ rows'[a].ack = 0
          /\ \A b \in Blocks \ {a} : rows'[b] = rows[b]
      BY <1>01, <1>1, <2>1 DEF PushDone, sqlite_block_upsert_v
    <3> QED BY <1>2, <3>2, <3>3
  <2>2. CASE PushAgain
    <3>1. pos' = pos /\ back' = "push" /\ rows' = rows
      BY <2>2 DEF PushAgain, passVars, tableVars
    <3>2. \A b : (Touched(b)' <=> Touched(b) \/ b = a) /\ (Pushing(b)' <=> b = a)
      BY <1>01, <1>1, <3>1, TouchedPush
    <3> QED BY <1>2, <3>1, <3>2
  <2> QED BY <2>1, <2>2
<1>5. e \in PassItems'
  <2>1. e \in Items
    BY <1>01, <1>0, <1>1 DEF PassTypeOK, Items
  <2> QED BY <1>01, <1>1, <1>4, <2>1 DEF PassItems
<1>6. e.blk = a
  BY <1>01
<1>7. /\ queue \in Seq(PassItems') /\ chan \in [Conns -> Seq(PassFrames')]
      /\ resp \in [Conns -> Seq(PassResponses')]
  BY <1>0, <1>1, <1>4, TransitMono
<1>8. TransitInv'
  BY <1>1, <1>5, <1>7, SeqAppend DEF TransitInv
<1>9. WireInv'
  BY <1>0, <1>1 DEF WireInv
<1>10. /\ \A i \in 1 .. Len(queue) : i \in 1 .. Len(queue') /\ queue'[i] = queue[i]
       /\ \E i \in 1 .. Len(queue') : queue'[i] = e
  BY <1>1, <1>5, <1>7, AppendKeeps
<1>11. InTransit(a)'
  BY <1>6, <1>10 DEF InTransit
<1>12. ASSUME NEW b, InTransit(b) PROVE InTransit(b)'
  <2>1. CASE \E i \in 1 .. Len(queue) : queue[i].blk = b
    BY <1>10, <2>1 DEF InTransit
  <2>2. CASE \E c \in Conns : \E i \in 1 .. Len(chan[c]) :
               chan[c][i].type = "data" /\ chan[c][i].blk = b
    BY <1>1, <2>2 DEF InTransit
  <2> QED BY <1>12, <2>1, <2>2 DEF InTransit
<1>13. ASSUME NEW b \in Blocks PROVE RowRight(b)'
  <2>1. CASE b # a
    <3>1. /\ RowRight(b) /\ snap' = snap /\ rows'[b] = rows[b] /\ target'[b] = target[b]
          /\ (Touched(b)' <=> Touched(b)) /\ (Pushing(b)' <=> Pushing(b))
      BY <1>0, <1>1, <1>4, <2>1
    <3>2. InTransit(b) => InTransit(b)'
      BY <1>12
    <3> QED BY <3>1, <3>2, RowSame
  <2>2. CASE b = a
    BY <1>0, <1>1, <1>4, <1>11, <2>2 DEF RowRight, HasRow
  <2> QED BY <2>1, <2>2
<1> QED BY <1>8, <1>9, <1>13 DEF SyncInv

\* pool_acquire returns a connection that is up.
LEMMA PoolIsUp == ASSUME WireInv, NEW c \in Conns, AcquireOpen(c) PROVE link[c] = "up"
<1>1. PICK i \in Slots : slot[i] = c
  BY DEF AcquireOpen
<1> QED BY <1>1, ClientPoolAssumption DEF WireInv

\* flush_one moves an entry from the queue to a connection.
LEMMA SyncFlush ==
  ASSUME ModelInv, mishaps = 0, SyncInv, FlushSent
  PROVE  SyncInv'
<1>0. WireInv /\ TransitInv /\ \A b \in Blocks : RowRight(b)
  BY DEF SyncInv
<1>01. PICK c \in Conns :
         AcquireOpen(c) /\ wire_send(c, Data(Head(queue).blk, Head(queue).val))
  BY DEF FlushSent
<1>1. /\ pc = "flush" /\ pc' = pc /\ queue # << >> /\ queue' = Tail(queue)
      /\ UNCHANGED <<link, resp, target, rows, snap, pos, back, slot>>
  BY <1>01 DEF FlushSent, AcquireOpen, tableVars, passVars
<1>2. PICK h, f : h = Head(queue) /\ f = Data(h.blk, h.val)
  OBVIOUS
<1>3. wire_send(c, f) /\ link[c] = "up"
  BY <1>0, <1>01, <1>2, PoolIsUp
<1>4. /\ h \in PassItems /\ Tail(queue) \in Seq(PassItems)
      /\ f \in PassFrames /\ f.type = "data" /\ f.blk = h.blk
  <2>1. h \in PassItems /\ Tail(queue) \in Seq(PassItems)
    BY <1>0, <1>1, <1>2, SeqTail DEF TransitInv
  <2>2. f \in Frames /\ f.type = "data" /\ f.blk = h.blk /\ f.val = h.val
    BY <1>2, <2>1, FrameTypes DEF PassItems, Items, Data
  <2> QED BY <2>1, <2>2 DEF PassItems, PassFrames
<1>5. \A b : (Touched(b)' <=> Touched(b)) /\ (Pushing(b)' <=> Pushing(b))
  BY <1>1, TouchedSame
<1>6. TransitInv'
  <2>1. /\ PassItems' = PassItems /\ PassFrames' = PassFrames /\ PassResponses' = PassResponses
    BY <1>1, <1>5 DEF PassItems, PassFrames, PassResponses
  <2>2. chan' \in [Conns -> Seq(PassFrames)]
    BY <1>0, <1>3, <1>4, SendKeeps DEF TransitInv
  <2> QED BY <1>0, <1>1, <1>4, <2>1, <2>2 DEF TransitInv
<1>8. chan \in [Conns -> Seq(PassFrames)] /\ chan' = [chan EXCEPT ![c] = Append(@, f)]
  BY <1>0, <1>1, <1>3 DEF TransitInv, wire_send
<1>7. WireInv'
  <2>1. \A d \in Conns : link[d] # "up" => chan'[d] = chan[d]
    BY <1>3, <1>8
  <2> QED BY <1>0, <1>1, <2>1 DEF WireInv
<1>9. /\ \A i \in 1 .. Len(chan[c]) : i \in 1 .. Len(chan'[c]) /\ chan'[c][i] = chan[c][i]
      /\ \E i \in 1 .. Len(chan'[c]) : chan'[c][i] = f
  <2>1. chan[c] \in Seq(PassFrames) /\ chan'[c] = Append(chan[c], f)
    BY <1>3, <1>8
  <2> QED BY <1>4, <2>1, AppendKeeps
<1>10. ASSUME NEW b, InTransit(b) PROVE InTransit(b)'
  <2>1. CASE \E i \in 1 .. Len(queue) : queue[i].blk = b
    <3>1. PICK i \in 1 .. Len(queue) : queue[i].blk = b
      BY <2>1
    <3>2. CASE queue[i] = h
      BY <1>3, <1>4, <1>9, <3>1, <3>2 DEF InTransit
    <3>3. CASE \E j \in 1 .. Len(queue') : queue'[j] = queue[i]
      BY <3>1, <3>3 DEF InTransit
    <3> QED BY <1>0, <1>1, <1>2, <3>2, <3>3, TailKeeps DEF TransitInv
  <2>2. CASE \E d \in Conns : \E i \in 1 .. Len(chan[d]) :
               chan[d][i].type = "data" /\ chan[d][i].blk = b
    <3>0. PICK d \in Conns : \E i \in 1 .. Len(chan[d]) :
            chan[d][i].type = "data" /\ chan[d][i].blk = b
      BY <2>2
    <3>1. PICK i \in 1 .. Len(chan[d]) : chan[d][i].type = "data" /\ chan[d][i].blk = b
      BY <3>0
    <3>2. i \in 1 .. Len(chan'[d]) /\ chan'[d][i] = chan[d][i]
      BY <1>8, <1>9, <3>1
    <3> QED BY <3>1, <3>2 DEF InTransit
  <2> QED BY <1>10, <2>1, <2>2 DEF InTransit
<1>11. ASSUME NEW b \in Blocks PROVE RowRight(b)'
  <2>1. InTransit(b) => InTransit(b)'
    BY <1>10
  <2> QED BY <1>0, <1>1, <1>5, <2>1, RowSame
<1> QED BY <1>6, <1>7, <1>11 DEF SyncInv

\* ctlEndIncremental is sent.
LEMMA SyncEnd ==
  ASSUME ModelInv, mishaps = 0, SyncInv, SendEnd
  PROVE  SyncInv'
<1>0. WireInv /\ TransitInv /\ \A b \in Blocks : RowRight(b)
  BY DEF SyncInv
<1>2. PICK c \in Conns : AcquireOpen(c) /\ wire_send(c, End)
  BY DEF SendEnd
<1>1. /\ pc = "drain" /\ pc' = "wait" /\ queue = << >>
      /\ UNCHANGED <<link, resp, target, rows, snap, pos, back, queue, slot>>
  BY <1>2 DEF SendEnd, AcquireOpen, tableVars, passVars
<1>3. wire_send(c, End) /\ End \in PassFrames /\ link[c] = "up"
  BY <1>0, <1>2, FrameTypes, PoolIsUp DEF PassFrames, End
<1>5. \A b : (Touched(b)' <=> Touched(b)) /\ (Pushing(b)' <=> Pushing(b))
  BY <1>1, TouchedSame
<1>6. TransitInv'
  <2>1. /\ PassItems' = PassItems /\ PassFrames' = PassFrames /\ PassResponses' = PassResponses
    BY <1>1, <1>5 DEF PassItems, PassFrames, PassResponses
  <2>2. chan' \in [Conns -> Seq(PassFrames)]
    BY <1>0, <1>3, SendKeeps DEF TransitInv
  <2> QED BY <1>0, <1>1, <2>1, <2>2 DEF TransitInv
<1>7. WireInv'
  <2>1. \A d \in Conns : link[d] # "up" => chan'[d] = chan[d]
    BY <1>0, <1>1, <1>3 DEF TransitInv, wire_send
  <2> QED BY <1>0, <1>1, <2>1 DEF WireInv
<1>9. \A d \in Conns : \A i \in 1 .. Len(chan[d]) :
        i \in 1 .. Len(chan'[d]) /\ chan'[d][i] = chan[d][i]
  <2>1. chan[c] \in Seq(PassFrames) /\ chan \in [Conns -> Seq(PassFrames)]
    BY <1>0, <1>3 DEF TransitInv
  <2>2. \A i \in 1 .. Len(chan[c]) :
          i \in 1 .. Len(Append(chan[c], End)) /\ Append(chan[c], End)[i] = chan[c][i]
    BY <1>3, <2>1, AppendKeeps
  <2>3. \A d \in Conns : chan'[d] = chan[d] \/ (d = c /\ chan'[d] = Append(chan[c], End))
    BY <1>3, <2>1 DEF wire_send
  <2> QED BY <2>2, <2>3
<1>10. ASSUME NEW b, InTransit(b) PROVE InTransit(b)'
  BY <1>1, <1>9, <1>10 DEF InTransit
<1>11. ASSUME NEW b \in Blocks PROVE RowRight(b)'
  <2>1. InTransit(b) => InTransit(b)'
    BY <1>10
  <2> QED BY <1>0, <1>1, <1>5, <2>1, RowSame
<1> QED BY <1>6, <1>7, <1>11 DEF SyncInv

\* A response is read: the row it confirms is of this pass, or not written yet.
LEMMA SyncResponse ==
  ASSUME ModelInv, mishaps = 0, SyncInv, NEW c \in Conns, RecvResponse(c)
  PROVE  SyncInv'
<1>0. WireInv /\ TransitInv /\ (\A b \in Blocks : RowRight(b)) /\ rows \in [Blocks -> Rows]
  BY DEF SyncInv, ModelInv, TableTypeOK
<1>1. /\ pc \in {"ack", "wait"} /\ resp[c] # << >> /\ resp' = [resp EXCEPT ![c] = Tail(@)]
      /\ UNCHANGED <<link, chan, target, snap, pos, pc, back, queue, slot>>
  BY DEF RecvResponse, passVars, poolVars
<1>2. PICK r : r = Head(resp[c])
  OBVIOUS
<1>3. r \in PassResponses /\ Tail(resp[c]) \in Seq(PassResponses)
  BY <1>0, <1>1, <1>2, SeqTail DEF TransitInv
<1>4. IF r.type = "ack" THEN sqlite_block_mark_acked(r.blk) ELSE rows' = rows
  BY <1>2 DEF RecvResponse
<1>5. \A b : (Touched(b)' <=> Touched(b)) /\ (Pushing(b)' <=> Pushing(b))
  BY <1>1, TouchedSame
<1>6. TransitInv'
  <2>1. /\ PassItems' = PassItems /\ PassFrames' = PassFrames /\ PassResponses' = PassResponses
    BY <1>1, <1>5 DEF PassItems, PassFrames, PassResponses
  <2>2. resp' \in [Conns -> Seq(PassResponses)]
    BY <1>0, <1>1, <1>3 DEF TransitInv
  <2> QED BY <1>0, <1>1, <2>1, <2>2 DEF TransitInv
<1>7. WireInv'
  <2>1. \A d \in Conns : link[d] # "up" => resp'[d] = resp[d]
    BY <1>0, <1>1 DEF TransitInv, WireInv
  <2> QED BY <1>0, <1>1, <2>1 DEF WireInv
<1>8. ASSUME NEW b \in Blocks PROVE RowRight(b)'
  <2>1. InTransit(b) => InTransit(b)'
    BY <1>1 DEF InTransit
  <2>2. CASE rows'[b] = rows[b]
    BY <1>0, <1>1, <1>5, <2>1, <2>2, RowSame
  <2>3. CASE rows'[b] # rows[b]
    <3>1. r.type = "ack" /\ sqlite_block_mark_acked(r.blk)
      BY <1>4, <2>3
    <3>2. b = r.blk /\ HasRow(b) /\ rows'[b].hash = rows[b].hash
      <4>1. r.blk \in Blocks
        BY <1>3, <3>1 DEF PassResponses, Responses
      <4>2. HasRow(r.blk) /\ rows' = [rows EXCEPT ![r.blk].ack = 1]
        BY <2>3, <3>1 DEF sqlite_block_mark_acked
      <4>3. b = r.blk
        BY <1>0, <2>3, <4>1, <4>2
      <4> QED BY <1>0, <4>1, <4>2, <4>3 DEF Rows
    <3>3. Touched(b) /\ target[b] = snap[b]
      BY <1>3, <3>1, <3>2 DEF PassResponses
    <3>4. RowRight(b)
      BY <1>0
    <3> QED BY <1>1, <1>5, <3>2, <3>3, <3>4 DEF RowRight, HasRow
  <2> QED BY <2>2, <2>3
<1> QED BY <1>6, <1>7, <1>8 DEF SyncInv

\* What the receiver takes off a connection is the only thing that arrives.
LEMMA DecodeTransit ==
  ASSUME chan \in [Conns -> Seq(Frames)], NEW c \in Conns, NEW f, protocol_decode(c, f),
         queue' = queue, NEW b, ~(f.type = "data" /\ f.blk = b), InTransit(b)
  PROVE  InTransit(b)'
<1>1. CASE \E i \in 1 .. Len(queue) : queue[i].blk = b
  BY <1>1 DEF InTransit
<1>2. CASE \E d \in Conns : \E i \in 1 .. Len(chan[d]) :
             chan[d][i].type = "data" /\ chan[d][i].blk = b
  <2>1. PICK d \in Conns : \E i \in 1 .. Len(chan[d]) :
          chan[d][i].type = "data" /\ chan[d][i].blk = b
    BY <1>2
  <2>2. PICK i \in 1 .. Len(chan[d]) : chan[d][i].type = "data" /\ chan[d][i].blk = b
    BY <2>1
  <2>3. \E j \in 1 .. Len(chan'[d]) : chan'[d][j] = chan[d][i]
    <3>1. CASE d = c
      <4>1. chan[c] \in Seq(Frames) /\ chan[c] # << >> /\ chan'[c] = Tail(chan[c])
        BY DEF protocol_decode
      <4>2. chan[c][i] # Head(chan[c])
        BY <2>2, <3>1 DEF protocol_decode
      <4> QED BY <3>1, <4>1, <4>2, TailKeeps
    <3>2. CASE d # c
      BY <3>2 DEF protocol_decode
    <3> QED BY <3>1, <3>2
  <2> QED BY <2>2, <2>3 DEF InTransit
<1> QED BY <1>1, <1>2 DEF InTransit

\* The receiver handles a control frame.
LEMMA SyncControl ==
  ASSUME ModelInv, mishaps = 0, SyncInv, NEW c \in Conns, RecvIncremental(c) \/ RecvEnd(c),
         UNCHANGED <<clientVars, mishaps>>
  PROVE  SyncInv'
<1>0. WireInv /\ TransitInv /\ \A b \in Blocks : RowRight(b)
  BY DEF SyncInv
<1>1. UNCHANGED <<link, target, rows, snap, pos, pc, back, queue, slot>>
  BY DEF RecvIncremental, RecvEnd, clientVars, passVars, tableVars, poolVars
<1>2. PICK f : protocol_decode(c, f) /\ f \in {Incremental, End}
  BY DEF RecvIncremental, RecvEnd
<1>3. f.type # "data" /\ chan[c] # << >>
  BY <1>2 DEF Incremental, End, protocol_decode
<1>4. pc # "off" /\ link[c] = "up"
  BY <1>0, <1>3 DEF WireInv
<1>5. \A b : (Touched(b)' <=> Touched(b)) /\ (Pushing(b)' <=> Pushing(b))
  BY <1>1, TouchedSame
<1>6. TransitInv'
  <2>1. /\ PassItems' = PassItems /\ PassFrames' = PassFrames /\ PassResponses' = PassResponses
    BY <1>1, <1>5 DEF PassItems, PassFrames, PassResponses
  <2>2. chan' \in [Conns -> Seq(PassFrames)]
    BY <1>0, <1>2, DecodeKeeps DEF TransitInv
  <2>3. resp' \in [Conns -> Seq(PassResponses)]
    <3>1. Done \in PassResponses
      BY ResponseTypes DEF PassResponses, Done
    <3>2. <<Done>> \in Seq(PassResponses)
      BY <3>1
    <3> QED BY <1>0, <3>2, RespondKeeps DEF TransitInv, RecvIncremental, RecvEnd
  <2> QED BY <1>0, <1>1, <2>1, <2>2, <2>3 DEF TransitInv
<1>7. WireInv'
  <2>1. \A d \in Conns : link[d] # "up" => chan'[d] = chan[d]
    BY <1>0, <1>2, <1>4 DEF TransitInv, protocol_decode
  <2>2. \A d \in Conns : link[d] # "up" => resp'[d] = resp[d]
    BY <1>0, <1>4 DEF TransitInv, RecvIncremental, RecvEnd, send_response
  <2> QED BY <1>0, <1>1, <1>4, <2>1, <2>2 DEF WireInv
<1>8. ASSUME NEW b \in Blocks PROVE RowRight(b)'
  <2>1. InTransit(b) => InTransit(b)'
    BY <1>1, <1>2, <1>3, DecodeTransit DEF ModelInv, RTypeOK
  <2> QED BY <1>0, <1>1, <1>5, <2>1, RowSame
<1> QED BY <1>6, <1>7, <1>8 DEF SyncInv

\* The receiver writes a block: it is the snapshot's, and so is its row unless the
\* client is still pushing it.
LEMMA SyncBlock ==
  ASSUME ModelInv, mishaps = 0, SyncInv, NEW c \in Conns, RecvBlock(c),
         UNCHANGED <<clientVars, mishaps>>
  PROVE  SyncInv'
<1>0. WireInv /\ TransitInv /\ \A b \in Blocks : RowRight(b)
  BY DEF SyncInv
<1>1. UNCHANGED <<link, rows, snap, pos, pc, back, queue, slot>>
  BY DEF RecvBlock, clientVars, passVars, tableVars, poolVars
<1>2. PICK a \in Blocks, v \in Values :
        /\ protocol_decode(c, Data(a, v))
        /\ block_writer_write(a, v)
        /\ send_response(c, IF block_writer_pending_bytes >= BinlogLimit
                            THEN <<Ack(a), Binlog(a)>> ELSE <<Ack(a)>>)
  BY DEF RecvBlock
<1>3. Data(a, v) \in PassFrames /\ chan' \in [Conns -> Seq(PassFrames)] /\ chan[c] # << >>
  BY <1>0, <1>2, DecodeKeeps DEF TransitInv, protocol_decode
<1>4. Touched(a) /\ v = snap[a]
  BY <1>3 DEF PassFrames, Data
<1>5. target \in [Blocks -> Contents] /\ target' = [target EXCEPT ![a] = snap[a]]
  BY <1>2, <1>4 DEF block_writer_write, ModelInv, RTypeOK
<1>6. \A b : (Touched(b)' <=> Touched(b)) /\ (Pushing(b)' <=> Pushing(b))
  BY <1>1, TouchedSame
<1>7. TransitInv'
  <2>1. PassItems' = PassItems /\ PassFrames' = PassFrames
    BY <1>1, <1>6 DEF PassItems, PassFrames
  <2>2. resp \in [Conns -> Seq(PassResponses')]
    BY <1>0, <1>1, <1>5, <1>6, TransitMono
  <2>3. Ack(a) \in PassResponses' /\ Binlog(a) \in PassResponses'
    BY <1>1, <1>4, <1>5, <1>6, ResponseTypes DEF PassResponses, Ack, Binlog
  <2>4. <<Ack(a), Binlog(a)>> \in Seq(PassResponses') /\ <<Ack(a)>> \in Seq(PassResponses')
    BY <2>3
  <2>5. resp' \in [Conns -> Seq(PassResponses')]
    BY <1>2, <2>2, <2>4, RespondKeeps
  <2> QED BY <1>0, <1>1, <1>3, <2>1, <2>5 DEF TransitInv
<1>8. WireInv'
  <2>1. pc # "off" /\ link[c] = "up"
    BY <1>0, <1>3 DEF WireInv
  <2>2. \A d \in Conns : link[d] # "up" => chan'[d] = chan[d]
    BY <1>0, <1>2, <2>1 DEF TransitInv, protocol_decode
  <2>3. \A d \in Conns : link[d] # "up" => resp'[d] = resp[d]
    BY <1>0, <1>2, <2>1 DEF TransitInv, send_response
  <2> QED BY <1>0, <1>1, <2>1, <2>2, <2>3 DEF WireInv
<1>9. ASSUME NEW b \in Blocks PROVE RowRight(b)'
  <2>1. CASE b = a
    BY <1>0, <1>1, <1>4, <1>5, <1>6, <2>1 DEF RowRight, HasRow
  <2>2. CASE b # a
    <3>1. ~(Data(a, v).type = "data" /\ Data(a, v).blk = b)
      BY <2>2 DEF Data
    <3>2. InTransit(b) => InTransit(b)'
      BY <1>1, <1>2, <3>1, DecodeTransit DEF ModelInv, RTypeOK
    <3>3. target'[b] = target[b]
      BY <1>5, <2>2
    <3> QED BY <1>0, <1>1, <1>6, <3>2, <3>3, RowSame
  <2> QED BY <2>1, <2>2
<1> QED BY <1>7, <1>8, <1>9 DEF SyncInv

\* A pass ends when everything has arrived: every row describes the target.
LEMMA SyncEndPass ==
  ASSUME ModelInv, mishaps = 0, SyncInv, EndPass
  PROVE  SyncInv'
<1>0. WireInv /\ \A b \in Blocks : RowRight(b)
  BY DEF SyncInv
<1>1. /\ pc = "wait" /\ Quiet /\ pc' = "off" /\ back' = "scan" /\ pos' = 1 /\ queue' = << >>
      /\ CloseSlots(Slots)
      /\ UNCHANGED <<chan, target, rows, snap>>
  BY DEF EndPass, ProcessEnds, pool_destroy, tableVars
<1>2. /\ queue = << >> /\ back = "drain"
      /\ \A d \in Conns : chan[d] = << >> /\ resp[d] = << >>
  BY <1>0, <1>1 DEF WireInv, Quiet
<1>21. resp' = [d \in Conns |-> << >>] /\ \A i \in Slots : slot'[i] = NoConn
  BY <1>1, <1>2 DEF CloseSlots
<1>3. \A b : ~InTransit(b) /\ ~Pushing(b)
  BY <1>2 DEF InTransit, Pushing
<1>4. \A b : ~Touched(b)' /\ ~Pushing(b)'
  BY <1>1 DEF Touched, Pushing
<1>5. WireInv'
  BY <1>1, <1>2, <1>21 DEF WireInv
<1>6. TransitInv'
  <2>1. chan \in [Conns -> Seq(PassFrames')]
    BY <1>2, EmptySeq DEF ModelInv, RTypeOK
  <2> QED BY <1>1, <1>21, <2>1, EmptySeq DEF TransitInv
<1>7. ASSUME NEW b \in Blocks PROVE RowRight(b)'
  BY <1>0, <1>1, <1>3, <1>4 DEF RowRight, HasRow
<1> QED BY <1>5, <1>6, <1>7 DEF SyncInv

\* A pass begins with nothing scanned.
LEMMA SyncStart ==
  ASSUME ModelInv, mishaps = 0, SyncInv, StartPass
  PROVE  SyncInv'
<1>0. WireInv /\ (\A b \in Blocks : RowRight(b)) /\ LoopInv
  BY DEF SyncInv, ModelInv, PassInv
<1>1. /\ pc = "off" /\ pc' = "scan" /\ pool_init(NConns)
      /\ chan' = [chan EXCEPT ![NewConns[0]] = <<Incremental>>]
      /\ UNCHANGED <<resp, target, rows, back, pos, queue>>
  BY DEF StartPass, Start
<1>2. /\ queue = << >> /\ back = "scan" /\ pos = 1
      /\ \A d \in Conns : chan[d] = << >> /\ resp[d] = << >>
  BY <1>0, <1>1 DEF WireInv, LoopInv
<1>21. /\ \A i \in Slots : slot'[i] = NewConns[i] /\ link'[NewConns[i]] = "up"
       /\ \A i \in Slots : NewConns[i] \in Conns
  <2>1. \A i \in Slots : i < NConns /\ i # NConns
    BY ClientPoolAssumption DEF Slots
  <2>2. \A i \in Slots : NewConns[i] \in Conns
    BY <1>1, NewConnIsFresh
  <2> HIDE DEF NewConns
  <2> QED BY <1>1, <2>1, <2>2 DEF pool_init
<1>22. PICK c : c = NewConns[0]
  OBVIOUS
<1>23. /\ c \in Conns /\ link'[c] = "up"
       /\ chan' = [d \in Conns |-> IF d = c THEN <<Incremental>> ELSE << >>]
       /\ resp' = [d \in Conns |-> << >>]
  <2>1. c \in Conns /\ link'[c] = "up"
    BY <1>21, <1>22, SlotFacts
  <2>2. chan \in [Conns -> Seq(Frames)] /\ resp \in [Conns -> Seq(Responses)]
    BY DEF ModelInv, RTypeOK
  <2>3. chan' = [chan EXCEPT ![c] = <<Incremental>>]
    BY <1>1, <1>22
  <2> QED BY <1>1, <1>2, <2>1, <2>2, <2>3
<1>3. \A b : ~Touched(b) /\ ~Touched(b)' /\ ~Pushing(b)'
  BY <1>1, <1>2 DEF Touched, Pushing
<1>4. WireInv'
  <2>1. \A i \in Slots : slot'[i] # NoConn => link'[slot'[i]] = "up"
    BY <1>21
  <2> QED BY <1>1, <1>23, <2>1 DEF WireInv
<1>5. TransitInv'
  <2>1. Incremental \in PassFrames'
    BY FrameTypes DEF PassFrames, Incremental
  <2>2. <<Incremental>> \in Seq(PassFrames')
    BY <2>1
  <2>3. queue' \in Seq(PassItems') /\ << >> \in Seq(PassFrames')
    BY <1>1, <1>2, EmptySeq
  <2>4. chan' \in [Conns -> Seq(PassFrames')]
    BY <1>23, <2>2, <2>3
  <2>5. resp' \in [Conns -> Seq(PassResponses')]
    BY <1>23, EmptySeq
  <2> QED BY <2>3, <2>4, <2>5 DEF TransitInv
<1>6. ASSUME NEW b \in Blocks PROVE RowRight(b)'
  BY <1>0, <1>1, <1>3 DEF RowRight, HasRow
<1> QED BY <1>4, <1>5, <1>6 DEF SyncInv

LEMMA SyncIdle ==
  ASSUME SyncInv,
         UNCHANGED <<link, chan, resp, target, rows, snap, pos, pc, back, queue, slot, mishaps>>
  PROVE  SyncInv'
<1>1. \A b : /\ (Touched(b)' <=> Touched(b)) /\ (Pushing(b)' <=> Pushing(b))
             /\ (InTransit(b)' <=> InTransit(b))
  BY TouchedSame DEF InTransit
<1>2. PassItems' = PassItems /\ PassFrames' = PassFrames /\ PassResponses' = PassResponses
  BY <1>1 DEF PassItems, PassFrames, PassResponses
<1>3. WireInv' <=> WireInv
  BY DEF WireInv
<1>4. TransitInv' <=> TransitInv
  BY <1>2 DEF TransitInv
<1>5. \A b \in Blocks : RowRight(b) => RowRight(b)'
  BY <1>1 DEF RowRight, HasRow
<1> QED BY <1>3, <1>4, <1>5 DEF SyncInv

LEMMA SyncInit == Init => SyncInv
<1> SUFFICES ASSUME Init PROVE WireInv /\ TransitInv /\ \A b \in Blocks : RowRight(b)
  BY DEF SyncInv
<1>1. /\ pc = "off" /\ pos = 1 /\ queue = << >>
      /\ chan = [d \in Conns |-> << >>] /\ resp = [d \in Conns |-> << >>]
      /\ \A i \in Slots : slot[i] = NoConn
  BY DEF Init, ServerInit, PoolInit
<1>2. WireInv
  BY <1>1 DEF WireInv
<1>3. TransitInv
  BY <1>1, EmptySeq DEF TransitInv
<1>4. \A b \in Blocks : RowRight(b)
  BY DEF RowRight, HasRow, Init, TableInit, NoRow
<1> QED BY <1>2, <1>3, <1>4

LEMMA SyncStep == ASSUME NoRepeats PROVE ModelInv /\ SyncInv /\ [Next]_vars => SyncInv'
<1> SUFFICES ASSUME ModelInv, SyncInv, [Next]_vars, mishaps' = 0 PROVE SyncInv'
  BY DEF SyncInv
<1>1. mishaps \in Nat
  BY BoundFacts DEF ModelInv
<1>2. CASE Fault
  BY <1>1, <1>2 DEF Fault
<1>3. CASE UNCHANGED vars \/ \E b \in Blocks, v \in Values : LiveWrite(b, v)
  BY <1>3, SyncIdle DEF LiveWrite, vars, rvars, tableVars, passVars, poolVars, boundVars
<1>4. CASE StartPass
  <2>1. mishaps = 0
    BY <1>4 DEF StartPass, boundVars
  <2> QED BY <1>4, <2>1, SyncStart
<1>5. CASE ReceiverHandles
  <2>1. mishaps = 0 /\ UNCHANGED <<clientVars, mishaps>>
    BY <1>5 DEF ReceiverHandles
  <2>2. PICK c \in Conns : RecvBlock(c) \/ RecvIncremental(c) \/ RecvEnd(c)
    BY <1>5 DEF ReceiverHandles
  <2> QED BY <2>1, <2>2, SyncBlock, SyncControl
<1>6. CASE ClientStep
  <2>1. mishaps = 0
    BY <1>6
       DEF ClientStep, boundVars, ScanVerifies, PushDone, PushAgain, ScanEnds, FlushSent,
           FlushDrops, FlushEnds, RecvResponse, AckEnds, DrainMore, SendEnd, EndPass
  <2>2. ~FlushDrops
    <3>1. WireInv
      BY <2>1 DEF SyncInv
    <3> QED BY <3>1, PoolIsUp DEF FlushDrops
  <2> QED
    BY <1>6, <2>1, <2>2, SyncVerifies, SyncPush, SyncLocal, SyncFlush, SyncResponse, SyncEnd,
       SyncEndPass
       DEF ClientStep
<1> QED BY <1>2, <1>3, <1>4, <1>5, <1>6 DEF Next

\* Unless a fault has happened, a row with ack=1 describes what the target holds,
\* though queue_push puts a block into the queue several times, its copies travel
\* over different connections and process_ack confirms whatever row there is.  What
\* makes it true: all copies carry the snapshot's contents, and a pass ends only
\* when everything has arrived, so a response never meets a row of a later pass.
THEOREM ConfirmedRowsMatch == ASSUME NoRepeats PROVE Spec => []ConfirmedMatches
<1>1. Init => ModelInv /\ SyncInv
  BY ModelInit, SyncInit
<1>2. ModelInv /\ SyncInv /\ [Next]_vars => (ModelInv /\ SyncInv)'
  BY ModelStep, SyncStep
<1>3. ModelInv /\ SyncInv => ConfirmedMatches
  <2> SUFFICES ASSUME ModelInv, SyncInv, mishaps = 0, NEW b \in Blocks,
                      rows[b].ack = 1, ~Pushing(b)
               PROVE  HashOf[target[b]] = rows[b].hash
    BY DEF ConfirmedMatches
  <2>1. RowRight(b)
    BY DEF SyncInv
  <2> QED BY <2>1 DEF RowRight
<1> QED BY <1>1, <1>2, <1>3, PTL DEF Spec
=============================================================================
