------------------------------- MODULE IncSync -------------------------------
(***************************************************************************)
(* The incsync command (cmd_incsync in client/main.c): one pass over all   *)
(* active partitions, run again and again by the operator.                 *)
(*                                                                         *)
(* A pass takes a snapshot, compares every block with the hash in T_BLOCK, *)
(* marks the equal ones as verified and queues the others.  It flushes the *)
(* queue every Period blocks and whenever queue_push answers 2, which      *)
(* means that the entry is in the queue and the queue is long: the command *)
(* then flushes, reads responses and pushes the same block again, until    *)
(* the answer is 0.  Only then is the block's row written.                 *)
(*                                                                         *)
(* The receiver, the pool and the database are those of Receiver,          *)
(* ClientPool and BlockTable.                                              *)
(***************************************************************************)
EXTENDS ClientPool, BlockTable

CONSTANTS
  Source,         \* what the source disk may hold at first
  Scan,           \* the blocks of the active partitions, in order
  Depth,          \* BACKPRESSURE_QUEUE_DEPTH
  Period,         \* blocks between two flushes: 1024
  MaxWrites,      \* bound: writes to the live disk
  MaxMishaps,     \* bound: faults
  MaxVersion      \* bound: later version numbers are not told apart

ASSUME IncSyncAssumption ==
  /\ Source \subseteq [Blocks -> Values]
  /\ Scan \in Seq(Blocks)
  /\ NoHash \notin Hashes
  /\ Depth \in Nat \ {0} /\ Period \in Nat \ {0}
  /\ MaxWrites \in Nat /\ MaxMishaps \in Nat /\ MaxVersion \in Nat \ {0}

VARIABLES
  live,           \* the source disk
  snap,           \* the VSS snapshot of this pass
  pc,             \* off, scan, push (again), flush, ack, drain, wait
  back,           \* where flush and ack return to: scan, push, drain
  pos,            \* the next element of Scan
  scanned,        \* blocks_scanned & 1023
  queue,          \* send_queue_t, as the FIFO it implements
  version,        \* current_version
  writes,         \* writes to the live disk so far
  mishaps         \* faults so far

passVars == <<snap, pos, scanned, version>>
tableVars == <<rows, maxVersion>>
boundVars == <<writes, mishaps>>
vars == <<rvars, tableVars, live, passVars, pc, back, queue, poolVars, boundVars>>

Init ==
  /\ ServerInit
  /\ link = [c \in Conns |-> "closed"]
  /\ PoolInit
  /\ TableInit
  /\ live \in Source
  /\ snap = live
  /\ pc = "off" /\ back = "scan" /\ pos = 1 /\ scanned = 0
  /\ queue = << >> /\ version = 0
  /\ writes = 0 /\ mishaps = 0

\* The process is gone, and its connections with it.
ProcessEnds ==
  /\ pc' = "off" /\ back' = "scan" /\ pos' = 1 /\ scanned' = 0
  /\ queue' = << >> /\ version' = 0
  /\ pool_destroy

\* Another program writes to the source disk.
LiveWrite(b, v) ==
  /\ writes < MaxWrites
  /\ live[b] # v
  /\ live' = [live EXCEPT ![b] = v]
  /\ writes' = writes + 1
  /\ UNCHANGED <<rvars, tableVars, passVars, pc, back, queue, poolVars, mishaps>>

NextVersion ==
  IF sqlite_get_next_version > MaxVersion THEN MaxVersion ELSE sqlite_get_next_version

\* Make k connections, send ctlIncremental on the first, take the snapshot and open
\* a version.  Scan may be the end of a longer scan whose other blocks never
\* change: those only move the counter.
Start(k) ==
  /\ pc = "off"
  /\ pool_init(k)
  /\ pc' = "scan"
  /\ snap' = live
  /\ chan' = [chan EXCEPT ![NewConns[0]] = <<Incremental>>]
  /\ next' = After(0)
  /\ version' = NextVersion
  /\ scanned' \in 0 .. Period - 1
  /\ sqlite_version_start(NextVersion)
  /\ UNCHANGED <<resp, target, durable, sinceSync, pending, rows, live, back, pos, queue,
                 writes>>

StartPass == Start(NConns) /\ UNCHANGED mishaps

\* pool_init is content with one connection.
StartsShort ==
  /\ "connect" \in Faults
  /\ \E k \in 1 .. NConns - 1 : Start(k)

(***************************************************************************)
(* The scan.                                                               *)
(***************************************************************************)

AtBlock == pc = "scan" /\ pos <= Len(Scan)

\* Mutant: a block with any row counts as unchanged.
SameHash_any_row(b) == HasRow(b)

SameHash(b) == sqlite_block_lookup(b, HashOf[snap[b]])

\* On to the next block, with a flush after every Period blocks.
Advance ==
  /\ pos' = pos + 1
  /\ scanned' = (scanned + 1) % Period
  /\ pc' = IF scanned' = 0 THEN "flush" ELSE "scan"
  /\ back' = "scan"

\* The block is as T_BLOCK says: verified in this version, confirmed or not.
ScanVerifies ==
  /\ AtBlock
  /\ SameHash(Scan[pos])
  /\ MarkStable(Scan[pos], version)
  /\ Advance
  /\ UNCHANGED <<rvars, maxVersion, live, snap, version, queue, poolVars, boundVars>>

\* The read fails, before the block is counted, or the encoding of a changed
\* block, after; either is logged, and the flush that may be due is left out.
BlockFails ==
  /\ "read_error" \in Faults
  /\ AtBlock
  /\ pos' = pos + 1
  /\ \/ scanned' = scanned
     \/ ~SameHash(Scan[pos]) /\ scanned' = (scanned + 1) % Period
  /\ UNCHANGED <<rvars, tableVars, live, snap, version, pc, back, queue, poolVars,
                 writes>>

\* queue_push is called for the current block: because it changed, or again.
Pushes == (AtBlock /\ ~SameHash(Scan[pos])) \/ pc = "push"

Pushed == queue' = Append(queue, [blk |-> Scan[pos], val |-> snap[Scan[pos]]])

\* Mutant: the flag stays up once it is up.
Backpressure_sticks == Len(queue) + 1 >= Depth \/ pc = "push"

\* Whether queue_push answers 2; the entry is in the queue either way.
Backpressure == Len(queue) + 1 >= Depth

\* queue_push answers 0, and the row is written.
PushDone ==
  /\ Pushes
  /\ ~Backpressure
  /\ Pushed
  /\ sqlite_block_upsert_v(Scan[pos], HashOf[snap[Scan[pos]]], version)
  /\ Advance
  /\ UNCHANGED <<rvars, maxVersion, live, snap, version, poolVars, boundVars>>

\* queue_push answers 2: flush, read responses and push again.
PushAgain ==
  /\ Pushes
  /\ Backpressure
  /\ Pushed
  /\ pc' = "flush"
  /\ back' = "push"
  /\ UNCHANGED <<rvars, tableVars, live, passVars, poolVars, boundVars>>

\* All blocks are scanned: the snapshot is released and the queue is drained.
ScanEnds ==
  /\ pc = "scan"
  /\ pos > Len(Scan)
  /\ pc' = "flush"
  /\ back' = "drain"
  /\ UNCHANGED <<rvars, tableVars, live, passVars, queue, poolVars, boundVars>>

(***************************************************************************)
(* flush_one and process_ack, and the end of a pass.                       *)
(***************************************************************************)

\* No slot is closed during a pass, so pool_acquire always finds an open one.
FlushSent ==
  /\ pc = "flush"
  /\ queue # << >>
  /\ queue' = Tail(queue)
  /\ \E c \in Conns :
       AcquireOpen(c) /\ wire_send(c, Data(Head(queue).blk, Head(queue).val))
  /\ UNCHANGED <<resp, target, durable, sinceSync, pending, tableVars, live,
                 passVars, pc, back, boundVars>>

\* Mutant: an entry whose send fails is left at the front of the queue.
FlushDrops_keeps ==
  /\ pc = "flush"
  /\ queue # << >>
  /\ \E c \in Conns : AcquireOpen(c) /\ link[c] = "broken"
  /\ pc' = "ack"
  /\ UNCHANGED <<chan, resp, target, durable, sinceSync, pending, tableVars, live,
                 passVars, queue, back, boundVars>>

\* The send fails: the entry is dropped and the flush ends.
FlushDrops ==
  /\ pc = "flush"
  /\ queue # << >>
  /\ \E c \in Conns : AcquireOpen(c) /\ link[c] = "broken"
  /\ queue' = Tail(queue)
  /\ pc' = "ack"
  /\ UNCHANGED <<chan, resp, target, durable, sinceSync, pending, tableVars, live,
                 passVars, back, boundVars>>

FlushEnds ==
  /\ pc = "flush"
  /\ queue = << >>
  /\ pc' = "ack"
  /\ UNCHANGED <<rvars, tableVars, live, passVars, back, queue, poolVars, boundVars>>

\* process_ack with tail_send = 0; SERVER_DONE sets a flag nobody reads.
RecvResponse(c) ==
  /\ pc \in {"ack", "wait"}
  /\ resp[c] # << >>
  /\ LET r == Head(resp[c]) IN
     IF r.type = "ack" THEN sqlite_block_mark_acked(r.blk) ELSE UNCHANGED rows
  /\ resp' = [resp EXCEPT ![c] = Tail(@)]
  /\ UNCHANGED <<link, chan, target, durable, sinceSync, pending, maxVersion, live,
                 passVars, pc, back, queue, poolVars, boundVars>>

AckEnds ==
  /\ pc = "ack"
  /\ pc' = back
  /\ UNCHANGED <<rvars, tableVars, live, passVars, back, queue, poolVars, boundVars>>

DrainMore ==
  /\ pc = "drain"
  /\ queue # << >>
  /\ pc' = "flush"
  /\ UNCHANGED <<rvars, tableVars, live, passVars, back, queue, poolVars, boundVars>>

\* ctlEndIncremental, once the queue is empty: each of up to 300 tries takes an
\* entry out, and there are at most Depth = 40.  The send's result is ignored.
SendEnd ==
  /\ pc = "drain"
  /\ queue = << >>
  /\ \E c \in Conns : AcquireOpen(c) /\ wire_send(c, End)
  /\ pc' = "wait"
  /\ UNCHANGED <<resp, target, durable, sinceSync, pending, tableVars, live,
                 passVars, back, queue, boundVars>>

\* Nothing more will arrive.
Quiet == \A c \in Conns : link[c] = "up" => chan[c] = << >> /\ resp[c] = << >>

\* The pass polls for 30 s, long enough for everything to be answered, and ends.
EndPass ==
  /\ pc = "wait"
  /\ Quiet
  /\ ProcessEnds
  /\ UNCHANGED <<chan, target, durable, sinceSync, pending, tableVars, live, snap,
                 boundVars>>

(***************************************************************************)
(* Faults.                                                                 *)
(***************************************************************************)

\* The client dies: killed, or by SIGINT, for which this command installs no
\* handler.  What it had given to TCP may or may not arrive.
Crash ==
  /\ "crash" \in Faults
  /\ pc # "off"
  /\ ProcessEnds
  /\ \E lost \in SUBSET {c \in Conns : link[c] # "closed"} :
       chan' = [c \in Conns |-> IF c \in lost THEN << >> ELSE chan[c]]
  /\ UNCHANGED <<target, durable, sinceSync, pending, tableVars, live, snap, writes>>

clientVars == <<tableVars, live, passVars, pc, back, queue, poolVars, writes>>

Fault ==
  /\ mishaps < MaxMishaps
  /\ mishaps' = mishaps + 1
  /\ \/ Crash
     \/ StartsShort
     \/ BlockFails
     \/ \E c \in Conns : (Break(c) \/ RecvBlockFails(c)) /\ UNCHANGED clientVars
     \/ (ServerExit \/ PowerLoss) /\ UNCHANGED clientVars

ReceiverHandles ==
  /\ \E c \in Conns : RecvBlock(c) \/ RecvIncremental(c) \/ RecvEnd(c)
  /\ UNCHANGED <<clientVars, mishaps>>

ClientStep ==
  \/ ScanVerifies \/ PushDone \/ PushAgain \/ ScanEnds
  \/ FlushSent \/ FlushDrops \/ FlushEnds
  \/ \E c \in Conns : RecvResponse(c)
  \/ AckEnds \/ DrainMore \/ SendEnd \/ EndPass

Next ==
  \/ \E b \in Blocks, v \in Values : LiveWrite(b, v)
  \/ StartPass
  \/ ClientStep
  \/ ReceiverHandles
  \/ Fault

Spec == Init /\ [][Next]_vars

\* The client's thread runs, the receiver serves every connection that has data,
\* and the operator runs the command again.
FairSpec ==
  Spec /\ WF_vars(ClientStep) /\ WF_vars(ReceiverHandles) /\ WF_vars(StartPass)

------------------------------------------------------------------------------
(***************************************************************************)
(* Properties.                                                             *)
(***************************************************************************)

\* All variables have their types, and the bounded counters their bounds.
TypeOK ==
  /\ RTypeOK
  /\ TableTypeOK
  /\ live \in [Blocks -> Values]
  /\ snap \in [Blocks -> Values]
  /\ pc \in {"off", "scan", "push", "flush", "ack", "drain", "wait"}
  /\ back \in {"scan", "push", "drain"}
  /\ pos \in 1 .. Len(Scan) + 1
  /\ scanned \in 0 .. Period - 1
  /\ queue \in Seq([blk : Blocks, val : Values])
  /\ version \in 0 .. MaxVersion
  /\ PoolTypeOK
  /\ writes \in 0 .. MaxWrites
  /\ mishaps \in 0 .. MaxMishaps

\* Although queue_push takes entries beyond the depth at which it complains, and
\* a failing connection ends a flush early, the queue never grows beyond that
\* depth: the answer "queue full", which the push loop would repeat for ever, is
\* never given.
BacklogBounded == Len(queue) <= Depth

\* The block whose push is repeated: it may reach the target before its row is
\* written.
Pushing(b) == back = "push" /\ pos <= Len(Scan) /\ Scan[pos] = b

\* As long as nothing goes wrong a row with ack=1 describes what the target
\* holds, though blocks are sent twice over different connections and responses
\* for both copies come in any order.
ConfirmedMatches ==
  mishaps = 0 => \A b \in Blocks :
    rows[b].ack = 1 /\ ~Pushing(b) => HashOf[target[b]] = rows[b].hash

\* The target is what the source is.
InSync ==
  \A i \in 1 .. Len(Scan) : HashOf[target[Scan[i]]] = HashOf[live[Scan[i]]]

\* Once the source is left alone, repeated passes bring the target up to date, if
\* nothing goes wrong.
ConvergesUndisturbed == [](mishaps = 0) => <>[]InSync

\* No connection of this pass works any more.
AllBroken == \A i \in Slots : slot[i] # NoConn => link[slot[i]] = "broken"

\* A pass ends unless every connection breaks under it, which the command, that
\* never reconnects, does not survive: the loop that pushes a block again until
\* the queue is short comes to an end while one connection still works.
PassEnds == (pc # "off") ~> (pc = "off" \/ AllBroken)
==============================================================================
