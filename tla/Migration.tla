------------------------------ MODULE Migration ------------------------------
(***************************************************************************)
(* A migration run: do_migrate and the functions it drives (client/main.c),*)
(* with the tracking database (BlockTable) and the receiver (Receiver).    *)
(*                                                                         *)
(* The client is one thread.  It walks Plan - the blocks of every          *)
(* partition, read from a VSS snapshot, then the GPT blocks of every disk, *)
(* read from the live disk - and after each block flushes the send queue,  *)
(* reads responses and serves its timers.  In full mode a response sets    *)
(* ack=1.  In TailSend mode it does not: rounds re-read unacknowledged     *)
(* blocks from the live disk, resend those that changed and mark the       *)
(* others, until should_finish is satisfied.                               *)
(*                                                                         *)
(* pc names the point the client is at, phase the loop it is in; flush and *)
(* ack are the two inner loops that every phase runs.  The send queue is   *)
(* the FIFO that SendQueue implements; ClientPool says how connections are *)
(* taken, and what stays on the way when they are closed.                  *)
(***************************************************************************)
EXTENDS ClientPool, BlockTable, FiniteSets

CONSTANTS
  Plan,           \* what is sent: a sequence of [blk, gpt]
  Covered,        \* blocks inside a partition some reader covers
  TailSend,       \* TRUE: incremental mode
  Depth,          \* BACKPRESSURE_QUEUE_DEPTH
  Defer,          \* a round stops while the queue is longer: 9
  ZeroRounds,     \* CONVERGENCE_ZERO_ROUNDS
  MaxRounds,      \* MAX_INCREMENTAL_ROUNDS
  DrainLimit,     \* tries to empty the queue after the scan: 300
  Threshold,      \* unacked blocks allowed at stable convergence: 512 or 5%
  MaxWrites,      \* bound: writes to the live disk
  MaxMishaps,     \* bound: faults
  MaxVersion      \* bound: round numbers at which a session may still start

PlanBlocks == {Plan[i].blk : i \in 1 .. Len(Plan)}

ASSUME MigrationAssumption ==
  /\ Plan \in Seq([blk : Blocks, gpt : BOOLEAN])
  /\ Covered \subseteq Blocks
  /\ TailSend \in BOOLEAN
  /\ NoHash \notin Hashes
  /\ RemoteId # ""
  /\ Defer \in Nat /\ Depth \in Nat /\ Threshold \in Nat
  /\ ZeroRounds \in Nat /\ MaxRounds \in Nat /\ DrainLimit \in Nat \ {0}
  /\ MaxWrites \in Nat /\ MaxMishaps \in Nat /\ MaxVersion \in Nat

VARIABLES
  live,           \* the source disk
  snap,           \* the VSS snapshot of this session
  pc,             \* where the client is
  phase,          \* the loop it is in: scan, drain, loop, finish, end
  pos,            \* the next element of Plan
  drains,         \* drain_attempts
  queue,          \* send_queue_t, as the FIFO it implements
  work,           \* blocks the current round has still to look at
  requeued,       \* whether the current round resent a block
  zero,           \* zero_change_rounds
  round,          \* inc_round, counted up to MaxRounds
  version,        \* inc_version
  running,        \* g_running
  serverDone,     \* server_done_rcvd
  crossed,        \* auxiliary: blocks queued while an earlier version was in flight
  writes,         \* writes to the live disk so far
  mishaps         \* faults so far

scanVars == <<pos, snap, drains>>
roundVars == <<work, requeued, zero, round, version>>
tableVars == <<rows, maxVersion, crossed>>
boundVars == <<writes, mishaps>>
vars == <<rvars, tableVars, live, scanVars, pc, phase, queue, roundVars, poolVars,
          running, serverDone, boundVars>>

(***************************************************************************)
(* Sessions.                                                               *)
(***************************************************************************)

\* What a client that is not running looks like.
ClientOff ==
  /\ pc = "off"
  /\ phase = "scan"
  /\ pos = 1
  /\ drains = 0
  /\ queue = << >>
  /\ work = {}
  /\ requeued = FALSE
  /\ zero = 0
  /\ round = 0
  /\ version = 0
  /\ running = TRUE
  /\ serverDone = FALSE

Init ==
  /\ ServerInit
  /\ link = [c \in Conns |-> "closed"]
  /\ PoolInit
  /\ TableInit
  /\ crossed = {}
  /\ ClientOff
  /\ live \in [Blocks -> Values]
  /\ snap = live
  /\ writes = 0
  /\ mishaps = 0

\* The process is gone: what it held in memory is lost.
ClientStops ==
  /\ pc' = "off"
  /\ phase' = "scan"
  /\ pos' = 1
  /\ drains' = 0
  /\ queue' = << >>
  /\ work' = {}
  /\ requeued' = FALSE
  /\ zero' = 0
  /\ round' = 0
  /\ version' = 0
  /\ running' = TRUE
  /\ serverDone' = FALSE
  /\ pool_destroy

\* Another program writes to the source disk.
LiveWrite(b, v) ==
  /\ writes < MaxWrites
  /\ live[b] # v
  /\ live' = [live EXCEPT ![b] = v]
  /\ writes' = writes + 1
  /\ UNCHANGED <<rvars, tableVars, scanVars, pc, phase, queue, roundVars, poolVars,
                 running, serverDone, mishaps>>

\* The client is started: the pool makes k connections, VSS takes its snapshot
\* and, in TailSend mode, ctlIncremental goes out on the first connection.
Start(k) ==
  /\ pc = "off"
  /\ ~TailSend \/ maxVersion < MaxVersion
  /\ pool_init(k)
  /\ pc' = "send"
  /\ snap' = live
  /\ chan' = IF TailSend THEN [chan EXCEPT ![NewConns[0]] = <<Incremental>>] ELSE chan
  /\ next' = IF TailSend THEN After(0) ELSE 0
  /\ UNCHANGED <<resp, target, durable, sinceSync, pending, tableVars, live, pos, drains,
                 phase, queue, roundVars, running, serverDone, writes>>

StartSession == Start(NConns) /\ UNCHANGED mishaps

\* pool_init is content with one connection.
StartsShort ==
  /\ "connect" \in Faults
  /\ \E k \in 1 .. NConns - 1 : Start(k)

\* The end of do_migrate and pool_destroy.
EndSession ==
  /\ pc = "done"
  /\ ClientStops
  /\ UNCHANGED <<chan, target, durable, sinceSync, pending, tableVars, live, snap,
                 boundVars>>

(***************************************************************************)
(* send_block: read, skip what T_BLOCK says is done, queue the rest.       *)
(***************************************************************************)

\* The reader of Plan[pos]: GPT blocks come from the live disk.
block_reader_read == LET p == Plan[pos] IN IF p.gpt THEN live[p.blk] ELSE snap[p.blk]

\* Mutant: the resume check is dropped.
Unchanged_resends_acked(b, v) == TailSend /\ sqlite_block_lookup(b, HashOf[v])

\* Mutant: hashes are compared in full mode too.
Unchanged_by_hash(b, v) ==
  sqlite_block_acked(b) \/ sqlite_block_lookup(b, HashOf[v])

\* Whether send_block leaves block b, whose contents are v, alone.
Unchanged(b, v) ==
  sqlite_block_acked(b) \/ (TailSend /\ sqlite_block_lookup(b, HashOf[v]))

\* queue_push succeeds with result 0: the depth after it is below Depth.
queue_push(b, v) ==
  /\ Len(queue) + 1 < Depth
  /\ queue' = Append(queue, [blk |-> b, val |-> v])

\* An earlier version of block b is queued or on a connection, of this session or
\* of one before; in full mode, where responses confirm, also a response for it.
Outstanding(b) ==
  \/ \E i \in 1 .. Len(queue) : queue[i].blk = b
  \/ \E c \in Conns : \E i \in 1 .. Len(chan[c]) :
       chan[c][i].type = "data" /\ chan[c][i].blk = b
  \/ /\ ~TailSend
     /\ \E c \in Conns : \E i \in 1 .. Len(resp[c]) :
          resp[c][i].type = "ack" /\ resp[c][i].blk = b

Crossing(b) == crossed' = IF Outstanding(b) THEN crossed \cup {b} ELSE crossed \ {b}

AtBlock == pc = "send" /\ running /\ pos <= Len(Plan)

send_block ==
  /\ AtBlock
  /\ LET b == Plan[pos].blk
         v == block_reader_read
     IN \/ /\ Unchanged(b, v)
           /\ UNCHANGED <<queue, rows, crossed>>
        \/ /\ ~Unchanged(b, v)
           /\ queue_push(b, v)
           /\ sqlite_block_upsert_v(b, HashOf[v], version)
           /\ Crossing(b)
  /\ pc' = "flush"
  /\ UNCHANGED <<rvars, maxVersion, live, scanVars, phase, roundVars, poolVars, running,
                 serverDone, boundVars>>

\* The read fails: logged, and the block is left out.
ReadFails ==
  /\ "read_error" \in Faults
  /\ AtBlock
  /\ pc' = "flush"
  /\ UNCHANGED <<rvars, tableVars, live, scanVars, phase, queue, roundVars, poolVars,
                 running, serverDone, writes>>

\* Both scans are over, or SIGINT stopped them.
ScanEnds ==
  /\ pc = "send"
  /\ ~running \/ pos > Len(Plan)
  /\ pc' = "check"
  /\ phase' = "drain"
  /\ UNCHANGED <<rvars, tableVars, live, scanVars, queue, roundVars, poolVars, running,
                 serverDone, boundVars>>

(***************************************************************************)
(* while (flush_one(ctx) > 0), and process_ack.                            *)
(***************************************************************************)

\* flush_one: the popped entry is on the wire.
FlushSent ==
  /\ pc = "flush"
  /\ queue # << >>
  /\ queue' = Tail(queue)
  /\ \E c \in Conns :
       pool_acquire(c) /\ wire_send(c, Data(Head(queue).blk, Head(queue).val))
  /\ UNCHANGED <<resp, target, durable, sinceSync, pending, tableVars, live, scanVars,
                 pc, phase, roundVars, running, serverDone, boundVars>>

\* Mutant: an entry whose send fails is left at the front of the queue.
FlushDrops_keeps ==
  /\ pc = "flush"
  /\ queue # << >>
  /\ \E c \in Conns : AcquireOpen(c) /\ link[c] = "broken"
  /\ pc' = "ack"
  /\ UNCHANGED <<rvars, tableVars, live, scanVars, phase, queue, roundVars, running,
                 serverDone, boundVars>>

\* flush_one: wire_send fails on a broken connection.  The entry was popped
\* already and is dropped; the result -1 ends the flush loop.
FlushDrops ==
  /\ pc = "flush"
  /\ queue # << >>
  /\ \E c \in Conns : AcquireOpen(c) /\ link[c] = "broken"
  /\ queue' = Tail(queue)
  /\ pc' = "ack"
  /\ UNCHANGED <<rvars, tableVars, live, scanVars, phase, roundVars, running,
                 serverDone, boundVars>>

\* flush_one: pool_acquire returns NULL, and the entry is dropped as well.
FlushUnconnected ==
  /\ AcquireFails
  /\ pc = "flush"
  /\ queue # << >>
  /\ queue' = Tail(queue)
  /\ pc' = "ack"
  /\ UNCHANGED <<rvars, tableVars, live, scanVars, phase, roundVars, poolVars, running,
                 serverDone, writes>>

FlushEnds ==
  /\ pc = "flush"
  /\ queue = << >>
  /\ pc' = "ack"
  /\ UNCHANGED <<rvars, tableVars, live, scanVars, phase, queue, roundVars, poolVars,
                 running, serverDone, boundVars>>

\* What process_ack does with one response.  A response names a block, not the
\* frame it answers.
Confirm(r) ==
  /\ IF r.type = "ack" /\ ~TailSend
     THEN sqlite_block_mark_acked(r.blk) ELSE UNCHANGED rows
  /\ serverDone' = (serverDone \/ r.type = "done")

\* process_ack reads the connections in turn, each until nothing has arrived.
RecvResponse(c) ==
  /\ pc \in {"ack", "wait"}
  /\ resp[c] # << >>
  /\ Confirm(Head(resp[c]))
  /\ resp' = [resp EXCEPT ![c] = Tail(@)]
  /\ UNCHANGED <<link, chan, target, durable, sinceSync, pending, maxVersion, crossed,
                 live, scanVars, pc, phase, queue, roundVars, poolVars, running,
                 boundVars>>

\* process_ack returns.  The timers are looked at after a partition's block and
\* in the incremental loop, there after do_reconnect, but not after a GPT block.
AckEnds ==
  /\ pc = "ack"
  /\ \/ phase = "scan" /\ Plan[pos].gpt /\ pc' = "send" /\ pos' = pos + 1
     \/ phase = "scan" /\ ~Plan[pos].gpt /\ pc' = "timers" /\ pos' = pos
     \/ phase = "loop" /\ pc' = "reap" /\ pos' = pos
     \/ phase \in {"drain", "finish"} /\ pc' = "check" /\ pos' = pos
  /\ UNCHANGED <<rvars, tableVars, live, snap, drains, phase, queue, roundVars, poolVars,
                 running, serverDone, boundVars>>

(***************************************************************************)
(* Timers.                                                                 *)
(***************************************************************************)

\* No timer is due: on to the next block, or round the incremental loop.
TimersEnd ==
  /\ pc = "timers"
  /\ \/ phase = "scan" /\ pc' = "send" /\ pos' = pos + 1
     \/ phase = "loop" /\ running /\ pc' = "flush" /\ pos' = pos
     \/ phase = "loop" /\ ~running /\ pc' = "done" /\ pos' = pos
  /\ UNCHANGED <<rvars, tableVars, live, snap, drains, phase, queue, roundVars, poolVars,
                 running, serverDone, boundVars>>

\* TIMER_RECONNECT.
ReconnectDue ==
  /\ pc = "timers"
  /\ pc' = "reap"
  /\ UNCHANGED <<rvars, tableVars, live, scanVars, phase, queue, roundVars, poolVars,
                 running, serverDone, boundVars>>

(***************************************************************************)
(* do_reconnect: pool_reap_stale, then pool_acquire until the pool is      *)
(* full.  pool_acquire connects only when no slot is open, so the loop     *)
(* goes on for ever once some slots are closed and others are not; it      *)
(* looks neither at g_running nor at the clock.                            *)
(***************************************************************************)

\* The slots in S have not been used for STALE_SOCKET_TIMEOUT_SEC.
pool_reap_stale(S) ==
  /\ pc = "reap"
  /\ CloseSlots(S)
  /\ pc' = IF PoolFull /\ S = {} THEN "timers" ELSE "reconnect"
  /\ UNCHANGED <<chan, target, durable, sinceSync, pending, tableVars, live, scanVars,
                 phase, queue, roundVars, next, running, serverDone, writes>>

NothingStale == pool_reap_stale({}) /\ UNCHANGED mishaps

SlotsStale ==
  /\ "stale" \in Faults
  /\ \E S \in (SUBSET {i \in Slots : slot[i] # NoConn}) \ {{}} : pool_reap_stale(S)

\* One turn of the loop.
ReconnectLoop ==
  /\ pc = "reconnect"
  /\ \E c \in Conns : pool_acquire(c)
  /\ pc' = IF \A i \in Slots : slot'[i] # NoConn THEN "timers" ELSE "reconnect"
  /\ UNCHANGED <<chan, resp, target, durable, sinceSync, pending, tableVars, live,
                 scanVars, phase, queue, roundVars, running, serverDone, boundVars>>

\* The loop is left when no connection can be made.
ReconnectFails ==
  /\ AcquireFails
  /\ pc = "reconnect"
  /\ pc' = "timers"
  /\ UNCHANGED <<rvars, tableVars, live, scanVars, phase, queue, roundVars, poolVars,
                 running, serverDone, writes>>

(***************************************************************************)
(* Rounds.                                                                 *)
(***************************************************************************)

\* The rows do_retransmit selects: the call passes "" for the remote id.
RetransmitSelection == sqlite_get_unacked("")

\* TIMER_RETRANSMIT: do_retransmit calls send_block for each row it selects.
\* No row has an empty remote id, so there is none.
do_retransmit ==
  /\ pc = "timers"
  /\ RetransmitSelection = {}
  /\ UNCHANGED vars

\* TIMER_INCREMENTAL: do_incremental_round takes every unacknowledged row of
\* this receiver.
StartRound ==
  /\ pc = "timers"
  /\ TailSend
  /\ pc' = "round"
  /\ work' = sqlite_get_unacked(RemoteId)
  /\ requeued' = FALSE
  /\ round' = IF round < MaxRounds THEN round + 1 ELSE round
  /\ UNCHANGED <<rvars, tableVars, live, scanVars, phase, queue, zero, version, poolVars,
                 running, serverDone, boundVars>>

\* One iteration of the round's loop; the order is random (shuffle_blocks).
InRound(b) == pc = "round" /\ running /\ b \in work

\* The round goes on while the queue is short.
RoundMayQueue == Len(queue) <= Defer

\* A block is passed over: sent less than 121 s ago, or no reader covers it.
RoundSkips(b) ==
  /\ InRound(b)
  /\ rows[b].sent \/ (RoundMayQueue /\ b \notin Covered)
  /\ work' = work \ {b}
  /\ UNCHANGED <<rvars, tableVars, live, scanVars, pc, phase, queue, requeued, zero,
                 round, version, poolVars, running, serverDone, boundVars>>

RoundReadFails(b) ==
  /\ "read_error" \in Faults
  /\ InRound(b)
  /\ RoundMayQueue
  /\ b \in Covered
  /\ work' = work \ {b}
  /\ UNCHANGED <<rvars, tableVars, live, scanVars, pc, phase, queue, requeued, zero,
                 round, version, poolVars, running, serverDone, writes>>

\* The queue is too long: the rest is left for a later round.
RoundDefers(b) ==
  /\ InRound(b)
  /\ ~RoundMayQueue
  /\ work' = {}
  /\ UNCHANGED <<rvars, tableVars, live, scanVars, pc, phase, queue, requeued, zero,
                 round, version, poolVars, running, serverDone, boundVars>>

\* The live block hashes to what T_BLOCK holds: it counts as stable.
RoundVerifies(b) ==
  /\ InRound(b)
  /\ RoundMayQueue
  /\ b \in Covered
  /\ HashOf[live[b]] = rows[b].hash
  /\ MarkStable(b, version)
  /\ work' = work \ {b}
  /\ UNCHANGED <<rvars, maxVersion, crossed, live, scanVars, pc, phase, queue, requeued,
                 zero, round, version, poolVars, running, serverDone, boundVars>>

\* The live block changed: it is queued again with its new hash.
RoundResends(b) ==
  /\ InRound(b)
  /\ RoundMayQueue
  /\ b \in Covered
  /\ HashOf[live[b]] # rows[b].hash
  /\ queue_push(b, live[b])
  /\ UpsertSent(b, HashOf[live[b]], version)
  /\ Crossing(b)
  /\ requeued' = TRUE
  /\ work' = work \ {b}
  /\ UNCHANGED <<rvars, maxVersion, live, scanVars, pc, phase, zero, round, version,
                 poolVars, running, serverDone, boundVars>>

RoundOver == pc = "round" /\ (work = {} \/ ~running)

\* A round during the scan has no further consequence.
ScanRoundEnds ==
  /\ RoundOver
  /\ phase = "scan"
  /\ pc' = "timers"
  /\ work' = {}
  /\ UNCHANGED <<rvars, tableVars, live, scanVars, phase, queue, requeued, zero, round,
                 version, poolVars, running, serverDone, boundVars>>

\* should_finish's three conditions, with z the new zero_change_rounds.
Unacknowledged == sqlite_count_unacked_v(version)

StableRounds ==
  IF Unacknowledged = {} THEN zero
  ELSE IF requeued THEN 0
  ELSE IF zero < ZeroRounds THEN zero + 1 ELSE zero

should_finish ==
  \/ Unacknowledged = {}
  \/ ~requeued /\ StableRounds >= ZeroRounds
               /\ Cardinality(Unacknowledged) <= Threshold
  \/ round >= MaxRounds

\* A round of the incremental loop ends: finish, or begin the next version.
LoopRoundEnds ==
  /\ RoundOver
  /\ phase = "loop"
  /\ work' = {}
  /\ zero' = StableRounds
  /\ \/ /\ should_finish
        /\ pc' = "check"
        /\ phase' = "finish"
        /\ UNCHANGED <<version, maxVersion>>
     \/ /\ ~should_finish
        /\ pc' = "timers"
        /\ version' = version + 1
        /\ sqlite_version_start(version + 1)
        /\ UNCHANGED phase
  /\ UNCHANGED <<rvars, rows, crossed, live, scanVars, queue, requeued, round, poolVars,
                 running, serverDone, boundVars>>

(***************************************************************************)
(* The ends of do_migrate.                                                 *)
(***************************************************************************)

\* The loop after the scan makes DrainLimit attempts, whether or not SIGINT came;
\* the one in timer_cb_real has no limit, but looks at g_running.
Drained == queue = << >> \/ drains >= DrainLimit

DrainMore ==
  /\ pc = "check"
  /\ \/ phase = "drain" /\ ~Drained /\ drains' = drains + 1
     \/ phase = "finish" /\ queue # << >> /\ running /\ drains' = drains
  /\ pc' = "flush"
  /\ UNCHANGED <<rvars, tableVars, live, pos, snap, phase, queue, roundVars, poolVars,
                 running, serverDone, boundVars>>

\* TailSend: the incremental loop starts under a new version.
EnterLoop ==
  /\ pc = "check"
  /\ phase = "drain"
  /\ Drained
  /\ TailSend
  /\ zero' = 0
  /\ version' = sqlite_get_next_version
  /\ sqlite_version_start(sqlite_get_next_version)
  /\ phase' = "loop"
  /\ pc' = IF running THEN "flush" ELSE "done"
  /\ UNCHANGED <<rvars, rows, crossed, live, scanVars, queue, work, requeued, round,
                 poolVars, running, serverDone, boundVars>>

\* ctlEndIncremental is due: at the end of full mode, or in timer_cb_real.
EndIsDue ==
  /\ pc = "check"
  /\ \/ phase = "drain" /\ Drained /\ ~TailSend
     \/ phase = "finish" /\ (queue = << >> \/ ~running)

\* It goes out on one connection; the result of the send is not looked at.
SendEnd ==
  /\ EndIsDue
  /\ \E c \in Conns : pool_acquire(c) /\ wire_send(c, End)
  /\ serverDone' = FALSE
  /\ pc' = "wait"
  /\ phase' = IF phase = "drain" THEN "end" ELSE phase
  /\ UNCHANGED <<resp, target, durable, sinceSync, pending, tableVars, live, scanVars,
                 queue, roundVars, running, boundVars>>

\* There is no connection for it: full mode ends without it, timer_cb_real returns
\* 0 and the incremental loop goes on.
EndUnconnected ==
  /\ AcquireFails
  /\ EndIsDue
  /\ pc' = IF phase = "drain" THEN "done" ELSE "timers"
  /\ phase' = IF phase = "drain" THEN "end" ELSE "loop"
  /\ UNCHANGED <<rvars, tableVars, live, scanVars, queue, roundVars, poolVars, running,
                 serverDone, writes>>

\* Nothing more will arrive.
Quiet == \A c \in Conns : link[c] = "up" => chan[c] = << >> /\ resp[c] = << >>

\* Mutant: the wait has no time limit.
WaitEnds_no_timeout ==
  /\ pc = "wait"
  /\ pc' = IF serverDone THEN "done" ELSE pc
  /\ UNCHANGED <<rvars, tableVars, live, scanVars, phase, queue, roundVars, poolVars,
                 running, serverDone, boundVars>>

\* The wait is over.  Full mode polls for 30 s whatever arrives; timer_cb_real
\* until SERVER_DONE, SIGINT or 300 s.  Unless "slow" is a fault those times
\* are long enough for the receiver to answer everything.
WaitEnds ==
  /\ pc = "wait"
  /\ \/ Quiet
     \/ "slow" \in Faults
     \/ phase = "finish" /\ (serverDone \/ ~running)
  /\ pc' = "done"
  /\ UNCHANGED <<rvars, tableVars, live, scanVars, phase, queue, roundVars, poolVars,
                 running, serverDone, boundVars>>

(***************************************************************************)
(* Faults of the client.                                                   *)
(***************************************************************************)

\* SIGINT, SIGTERM: the loops that look at g_running wind down.
signal_handler ==
  /\ "sigint" \in Faults
  /\ pc # "off"
  /\ running
  /\ running' = FALSE
  /\ UNCHANGED <<rvars, tableVars, live, scanVars, pc, phase, queue, roundVars, poolVars,
                 serverDone, writes>>

\* The client dies.  What it had given to TCP may or may not arrive.
Crash ==
  /\ "crash" \in Faults
  /\ pc # "off"
  /\ ClientStops
  /\ \E lost \in SUBSET {c \in Conns : link[c] # "closed"} :
       chan' = [c \in Conns |-> IF c \in lost THEN << >> ELSE chan[c]]
  /\ UNCHANGED <<target, durable, sinceSync, pending, tableVars, live, snap, writes>>

clientVars == <<tableVars, live, scanVars, pc, phase, queue, roundVars, poolVars,
                running, serverDone, writes>>

Fault ==
  /\ mishaps < MaxMishaps
  /\ mishaps' = mishaps + 1
  /\ \/ signal_handler
     \/ Crash
     \/ StartsShort
     \/ ReadFails
     \/ FlushUnconnected
     \/ SlotsStale
     \/ ReconnectFails
     \/ EndUnconnected
     \/ \E b \in Blocks : RoundReadFails(b)
     \/ \E c \in Conns : (Break(c) \/ RecvBlockFails(c)) /\ UNCHANGED clientVars
     \/ (ServerExit \/ PowerLoss) /\ UNCHANGED clientVars

ReceiverHandles ==
  /\ \E c \in Conns : RecvBlock(c) \/ RecvIncremental(c) \/ RecvEnd(c)
  /\ UNCHANGED <<clientVars, mishaps>>

RoundBlock(b) == RoundSkips(b) \/ RoundDefers(b) \/ RoundVerifies(b) \/ RoundResends(b)

ClientStep ==
  \/ send_block \/ ScanEnds
  \/ FlushSent \/ FlushDrops \/ FlushEnds
  \/ \E c \in Conns : RecvResponse(c)
  \/ AckEnds
  \/ TimersEnd \/ StartRound
  \/ NothingStale \/ ReconnectLoop
  \/ \E b \in Blocks : RoundBlock(b)
  \/ ScanRoundEnds \/ LoopRoundEnds
  \/ DrainMore \/ EnterLoop \/ SendEnd \/ WaitEnds
  \/ EndSession

Next ==
  \/ \E b \in Blocks, v \in Values : LiveWrite(b, v)
  \/ StartSession
  \/ ClientStep
  \/ do_retransmit
  \/ ReconnectDue
  \/ ReceiverHandles
  \/ Fault

Spec == Init /\ [][Next]_vars

\* The client's thread runs, the receiver's select loop serves every connection
\* that has data, an interrupted migration is started again, and timers of
\* seconds neither fire back to back for ever nor stay away for ever.
Fairness ==
  /\ WF_vars(ClientStep)
  /\ WF_vars(ReceiverHandles)
  /\ WF_vars(StartSession)
  /\ SF_vars(TimersEnd)
  /\ SF_vars(StartRound)

FairSpec == Spec /\ Fairness

------------------------------------------------------------------------------
(***************************************************************************)
(* Properties.                                                             *)
(***************************************************************************)

Items == [blk : Blocks, val : Values]

ClientTypeOK ==
  /\ live \in [Blocks -> Values]
  /\ snap \in [Blocks -> Values]
  /\ pc \in {"off", "send", "flush", "ack", "timers", "reap", "reconnect", "round",
              "check", "wait", "done"}
  /\ phase \in {"scan", "drain", "loop", "finish", "end"}
  /\ pos \in Nat \ {0}
  /\ drains \in 0 .. DrainLimit
  /\ queue \in Seq(Items)
  /\ work \subseteq Blocks
  /\ requeued \in BOOLEAN
  /\ zero \in 0 .. ZeroRounds
  /\ round \in 0 .. MaxRounds
  /\ version \in Nat
  /\ PoolTypeOK
  /\ running \in BOOLEAN
  /\ serverDone \in BOOLEAN

\* All variables have their types, and the bounded counters their bounds.
TypeOK ==
  /\ RTypeOK
  /\ TableTypeOK
  /\ ClientTypeOK
  /\ crossed \subseteq Blocks
  /\ writes \in 0 .. MaxWrites
  /\ mishaps \in 0 .. MaxMishaps

\* Full mode, no power loss: a row with ack=1 describes what the target holds,
\* unless the block was queued while an earlier version of it was in flight.
\* Sessions may be killed, interrupted and repeated with new snapshots while
\* frames of earlier ones still arrive, connections break and writes fail; a
\* response never confirms the hash of another version than the one written.
AckedMatchesHash ==
  ~TailSend => \A b \in Blocks :
    rows[b].ack = 1 /\ b \notin crossed => HashOf[target[b]] = rows[b].hash

\* What the documentation takes retransmission to be (idempotent): the same,
\* whatever was in flight.
OverwriteIsHarmless ==
  ~TailSend => \A b \in Blocks :
    rows[b].ack = 1 => HashOf[target[b]] = rows[b].hash

\* No operation of a migration takes ack=1 back: send_block skips such rows,
\* rounds do not select them and sqlite_reset_acked is not called.
AckNeverRetracted ==
  [][\A b \in Blocks : rows[b].ack = 1 => rows'[b].ack = 1]_rows

\* However flushes fail and rounds pile up, the queue never gets near
\* BACKPRESSURE_QUEUE_DEPTH in do_migrate, so queue_push never answers 2, which
\* would make send_block and the rounds push the same block again.
QueueStaysShort == Len(queue) <= IF pc = "flush" THEN Defer + 2 ELSE Defer + 1

\* The versions of block b that are queued or on a connection.
OnTheWay(b) ==
  {v \in Values :
     \/ \E i \in 1 .. Len(queue) : queue[i].blk = b /\ queue[i].val = v
     \/ \E c \in Conns : \E i \in 1 .. Len(chan[c]) : chan[c][i] = Data(b, v)}

\* The hash in T_BLOCK, which rounds compare the live disk with, is that of every
\* version on its way to the target, over any number of connections and whatever
\* goes wrong; and when none is left, and none was lost, of what the target holds.
\* Only a block queued again before its last version had arrived is excepted.
RowIsLastSent ==
  \A b \in Blocks : HasRow(b) /\ b \notin crossed =>
    /\ \A v \in OnTheWay(b) : HashOf[v] = rows[b].hash
    /\ OnTheWay(b) = {} /\ mishaps = 0 => HashOf[target[b]] = rows[b].hash

\* When timer_cb_real sets allDone, every tracked block has reached stable
\* storage in the version T_BLOCK describes.
FinishedIsDurable ==
  pc = "done" /\ phase = "finish" =>
    \A b \in Blocks : HasRow(b) => HashOf[durable[b]] = rows[b].hash

\* A session ends, whatever faults it meets, unless do_reconnect never returns:
\* that loop is the only one that can hold the client for ever.
SessionEnds ==
  []<>(pc # "reconnect") => ((pc # "off") ~> (pc = "off"))

\* Full mode: after finitely many faults, repeating the migration leaves every
\* block of the plan confirmed for good, if no session is held by do_reconnect.
AllConfirmed ==
  []<>(pc # "reconnect") => <>[](\A b \in PlanBlocks : rows[b].ack = 1)

------------------------------------------------------------------------------
(***************************************************************************)
(* The inductive invariant behind AckedMatchesHash.  A response names only *)
(* a block, so what makes it safe to set ack=1 is that whatever is in      *)
(* flight for a block - queued, on a connection, or as a response -        *)
(* belongs to the one version its row describes.  That holds as long as    *)
(* the block is queued only while nothing is in flight for it.             *)
(***************************************************************************)

ItemsOK == {q \in Items : q.blk \notin crossed => HashOf[q.val] = rows[q.blk].hash}

FramesOK ==
  {f \in Frames : f.type = "data" /\ f.blk \notin crossed
                   => HashOf[f.val] = rows[f.blk].hash}

ResponsesOK ==
  {r \in Responses : r.type = "ack" /\ r.blk \notin crossed
                     => HashOf[target[r.blk]] = rows[r.blk].hash}

FlightInv == queue \in Seq(ItemsOK) /\ chan \in [Conns -> Seq(FramesOK)]

\* In full mode.
ConfirmInv ==
  /\ resp \in [Conns -> Seq(ResponsesOK)]
  /\ pc # "round"
  /\ \A b \in Blocks : rows[b].ack = 1 /\ b \notin crossed => HashOf[target[b]] = rows[b].hash
==============================================================================
