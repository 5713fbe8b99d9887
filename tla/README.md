# A TLA+ model of go2cloud

go2cloud copies the disks of a running Windows machine to a receiver. The client
(`src/client`) reads blocks of 1 MB, hashes them, records them in a SQLite
database and sends them over a pool of TCP connections; the receiver
(`src/server`) writes them to its target disks and answers. This directory
models the protocol between the two, from the bytes on a connection to repeated
sessions, the data structures it rests on, the client's commands, and what
happens when processes, connections, disks or machines fail.

Contents: 1 the system, 2 the modules, 3 the runs, 4 bounds, 5 fairness,
6 proofs, 7 disagreements between code and documents, 8 what is abstracted or
left out, 9 plan.

## 1. The system

| Component | State | Operations | Talks to |
|---|---|---|---|
| send queue (`client/queue.c`) | ring of entries, head, tail, count, flag | `queue_push`, `queue_pop`, `queue_ack` | called by the migration driver |
| migration driver (`client/main.c`) | `migrate_ctx_t`: position of the scan, round counters, `server_done_rcvd`, `g_running` | `do_migrate`, `send_block`, `flush_one`, `process_ack`, `do_retransmit`, `do_incremental_round`, `should_finish`, `timer_cb_real`, `do_reconnect` | queue, database, pool, readers, timers |
| tracking database (`client/sqlite.c`) | `T_BLOCK`: a row per block with hash, ack, version, last_sent, remote id; `T_VERSION` | one SQL statement per function, autocommitted | migration driver, `cmd_incsync` |
| connection pool (`client/pool.c`) | slots, count, next_index | `pool_init`, `pool_acquire`, `pool_release`, `pool_touch`, `pool_reap_stale`, `pool_recv_ack` | migration driver, TCP |
| wire format (`client/wire.c`, `client/msgpack.c`, `server/protocol_decoder.c`, `include/protocol.h`) | decoder state per session | encode, send, decode | both sides |
| receiver (`server/main.c`, `block_writer.c`, `ack.c`) | open disks, blocks since the last fsync, pending bytes | `handle_session` per frame, `block_writer_write`, `block_writer_fsync_all`, `ack_send_*` | session table, TCP, target disks |
| session table (`server/session.c`) | array of sessions, each with its receive buffer | `session_create`, `session_remove`, `session_foreach` under `select` | receiver, TCP |
| block readers, volumes (`client/block_io.c`, `volume.c`) | volume list, handles, sizes | enumerate, open, read, count | migration driver, `cmd_incsync`, system check |
| VSS (`client/vss.c`) | library, COM apartment, backup components; the copies | `vss_init_ex`, `vss_create_snapshots`, `vss_backup_complete`, `vss_cleanup`, query, delete | migration driver, `cmd_incsync`, VSS commands |
| timers (`client/timer.c`) | last firing and interval of four timers | `timer_init`, `timer_check`, `timer_reset` | migration driver |
| block hash (`client/hash.c`, `tools/hash_block.c`) | none | `hash_block` | migration driver |
| incremental sync (`cmd_incsync` in `client/main.c`) | own queue and pool | one pass over the changed blocks | queue, database, pool |
| driver injection (`client/driver_inject.c`) | none of its own; the driver store of Windows | find INF, probe, install, check, through `devcon.exe` | `inject_driver`, `check_drivers`, system check |
| system check (`client/syschk.c`) | none | seven checks and a verdict | volumes, driver injection |
| command line (`main` in `client/main.c`) | none between commands but the database, the driver store and persistent copies | one command per process | all |
| logging | none | | |

The client is one thread. The receiver is one thread as well: a `select` loop
that takes the frames of one connection in order. Concurrency comes from the two
machines, the connections between them and other programs that write to the
source disk. What makes it hard:

- A block travels over one of seven connections and nothing orders two of them.
- A response names a block, not the frame it answers, nor a version.
- The row of a block is written when the block is queued. Queueing, sending,
  writing, acknowledging and syncing are five different moments, and the client
  may die, the connection break or the receiver lose power between any two.
- The source disk changes during the migration. In TailSend mode the client
  decides by comparing hashes when it may stop.
- Sessions are repeated. A later one works from the rows an earlier one left.
- A connection is a stream: `recv()` cuts frames and responses in any place, and
  both sides stop reading while they write.
- The same block has one offset on the disk and another in a shadow copy, and a
  copy lives only as long as the VSS context.
- Timers are looked at between blocks, and their handlers may take longer than
  their intervals.

What makes each part correct:

- *send queue*: a bounded FIFO; a payload lives until it is sent; flag and count
  agree.
- *receiver*: acknowledged means written; `SERVER_DONE` means synced.
- *migration, full mode*: a row with `ack=1` describes what the target holds; a
  confirmation is final; repeated sessions confirm everything.
- *migration, TailSend*: the row holds the hash of what was sent last; a session
  ends; when it ends, everything tracked is on stable storage.
- *incremental sync*: a pass ends; the queue stays within its depth; repeated passes
  make the target what the source is.
- *pool and session table*: count and descriptors agree, both sides agree on which
  connections exist, none is starved or left unread, broken ones come back, dead
  ones make room.
- *wire format*: however the stream is cut, the handler gets the client's frames
  whole, once and in order; the buffer never overflows; nobody waits for ever.
- *volumes, readers, snapshots*: every read is of the place it is sent under, from
  a copy that exists; all blocks are sent; nothing is held afterwards.
- *timers*: what is due is served, and the scan goes on.
- *drivers, system check*: a yes means a yes of `devcon.exe` to every boot driver.

`PROJECT.json` lists the places where these can go wrong under `hazards`.

## 2. The modules

| Module | Models |
|---|---|
| `FifoQueue` | abstract: a bounded FIFO, what `queue.h` promises |
| `SendQueue` | `queue.c`, the ring; refines `FifoQueue` |
| `Disks` | blocks, contents and the hash both machines agree on |
| `BlockTable` | `sqlite.c`: one operator per SQL statement the migration uses |
| `Receiver` | `server/main.c`, `block_writer.c`, `ack.c` and the TCP connections, with an arbitrary well-behaved peer |
| `ClientPool` | how a command uses its pool: which connection a block goes out on, and what stays on the way when one is closed; on top of `Receiver` |
| `Migration` | `do_migrate` and all it calls, on top of `ClientPool` and `BlockTable` |
| `SocketPool` | `pool.c` and `do_reconnect` |
| `Sessions` | `session.c`, the listening socket and `server_run` |
| `Connections` | `SocketPool` and `Sessions` together |
| `FrameChannel` | abstract: a channel of whole frames, what `Receiver` builds on |
| `MsgPack` | `msgpack.c` and the decoder's half of it |
| `Framing` | one connection as a stream: `wire.c`, `handle_session`, `protocol_decode`, `ack.c`, `pool_recv_ack`; refines `FrameChannel` |
| `Timers` | `timer.c` |
| `Snapshot` | `vss.c` |
| `DiskScan` | `volume.c`, `block_io.c` and the loops of `do_migrate` and `cmd_incsync` over them, on top of `Timers` and `Snapshot` |
| `DriverStore` | `driver_inject.c` |
| `SystemCheck` | `syschk.c` |
| `Commands` | the command line: `DiskScan`, `DriverStore` and `SystemCheck` together |
| `IncSync` | `cmd_incsync`, on top of `ClientPool` and `BlockTable` |
| `SendQueueProofs`, `ReceiverProofs`, `MigrationProofs`, `IncSyncProofs`, `SocketPoolProofs`, `ConnectionsProofs`, `FramingProofs`, `CommandsProofs` | theorems and proofs |
| `MCSendQueue`, `MCReceiver`, `MCMigration`, `MCIncSync`, `MCSocketPool`, `MCConnections`, `MCFraming`, `MCCommands` | plans, machines, hash functions and the like for the model checker |

**SendQueue.** `entries`, `head`, `tail`, `count` and `backpressure` are the
fields of `send_queue_t`; `flight` counts the frames of a block whose response
has not come. Each operation holds the mutex throughout and is one action.
`Resent` is the set of blocks that callers push again while a response is
outstanding: none in full mode, the blocks of a round in TailSend mode. For those
the refinement follows only the key, for the others the payload as well.

**Receiver.** `chan[c]` holds the frames that were sent on connection `c` and not
handled, `resp[c]` the responses not read, `target` what the files hold and
`durable` what is certain to survive a power loss. `RecvBlock`,
`RecvIncremental` and `RecvEnd` are the three branches of `handle_session`, each
with everything the branch does: write, periodic fsync, response, backlog
warning. `RecvBlockFails` is the branch after a failed `lseek` or `write`.
`Break` cuts a connection: a prefix of either direction still arrives.
`ServerExit` is SIGTERM (which syncs), `PowerLoss` leaves either version of an
unsynced block.

**ClientPool.** A slot holds a connection or nothing, and connections have identities
of their own. When a slot is closed, by the end of a session, its death or
`pool_reap_stale`, the frames it carried stay in `chan` and the receiver handles them
whenever it likes, also after a later session has begun. A new connection takes an
identity with nothing left on it; the proofs are for any number of them. In a run there
are one or two to spare (section 4), and a session that would need more does not start
until the receiver has taken what is on one. `pool_init(k)` makes `k` connections;
the slots behind the first failure have descriptor 0, on which every send fails.
`pool_acquire` connects only when no slot is open. `SocketPool` has the same pool with
its counters, descriptors and times.

**Migration.** `pc` is where the thread is, `phase` which loop of `do_migrate` it
is in (scan, drain, incremental loop, finish, end). The inner loops
`while (flush_one(ctx) > 0)` and `process_ack` occur in every phase and are
written once. The table below gives the correspondence.

| Action | Code in `client/main.c` |
|---|---|
| `StartSession`, `StartsShort`, `EndSession` | opening and closing lines of `do_migrate`, `pool_init`, VSS, `ctlIncremental` |
| `send_block`, `ReadFails` | `send_block` |
| `FlushSent`, `FlushDrops`, `FlushUnconnected`, `FlushEnds` | `flush_one` and its loop |
| `RecvResponse`, `AckEnds` | `process_ack` |
| `TimersEnd`, `do_retransmit`, `StartRound`, `ReconnectDue` | the timer switch |
| `NothingStale`, `SlotsStale`, `ReconnectLoop`, `ReconnectFails` | `do_reconnect`, from its timer and in every pass of the incremental loop |
| `RoundSkips`, `RoundReadFails`, `RoundDefers`, `RoundVerifies`, `RoundResends` | the body of `do_incremental_round`, one per way through it |
| `ScanRoundEnds`, `LoopRoundEnds` | what follows a round; the second with `should_finish` |
| `ScanEnds`, `DrainMore`, `EnterLoop` | between the scan and the incremental loop |
| `SendEnd`, `EndUnconnected`, `WaitEnds` | `timer_cb_real` and the last lines of full mode |
| `signal_handler`, `Crash` | SIGINT; a killed process |
| `LiveWrite` | other programs writing to the source disk |

`ReceiverHandles` and the receiver's faults are taken from `Receiver` unchanged.

`crossed` is an auxiliary variable: the blocks that were queued while an earlier
version of them was queued, on a connection (of this session or of one before) or, in
full mode, answered and the response not read. It depends on the code's variables and
decides nothing. `AckedMatchesHash` and `RowIsLastSent` except these blocks and only
these; run `overwrite` shows that the exception is needed.

**IncSync.** One pass: `StartPass` (`StartsShort` with fewer connections) connects, announces the pass, takes the snapshot
and opens a version; the scan takes one block at a time. `ScanVerifies` is the
branch for a block whose hash is in its row, `PushDone` and `PushAgain` are
`queue_push` with result 0 and 2, `BlockFails` is the two `continue`s after a
failed read or encoding. The entry is in the queue when the result is 2, so the
loop around `queue_push` (`PushAgain`, flush, responses, push) sends copies of one
block, over different connections, before its row is written. `back` says where
the loops of `flush_one` and `process_ack` return to. `DrainMore`, `SendEnd` and
`EndPass` are the lines after the scan. The command is dispatched before `main`
installs its signal handler, so SIGINT is a `Crash` here. The receiver may exit or lose
power during a pass; the command never reconnects.

**SocketPool.** A slot's descriptor is an error, a connected socket, or the 0
that `memset` left there. Acquire, use and release happen in one step of the one
thread. `pool_destroy` is the end of a command or the death of the process,
`Restart` the next one.

**Sessions, Connections.** `table` is `g_sessions`, `backlog` what the kernel has
connected and nobody accepted, `eof` and `refused` the connections only one side
has closed. One pass of `server_run` is `Select`, `Accept` (one connection, before
the sessions are looked at) and the steps of `session_foreach`: `idx` moves past a
session that is not ready, `recv` reads the one at `idx` until it is empty,
`recv_eof` removes it, moves the later ones up and goes on behind; `session_fails` does
the same after an error of `recv()` or of the decoder, which the client may not notice. `Connections`
gives every slot of the pool its connection, so that a slot's opening, sending,
reaping and closing are events of the session table.

**Framing.** `stream` holds the units the client has produced and the decoder has
not consumed; `recv_len` and `inflight` say how many of them are in `recv_buf` and
in the sockets, the rest the client still holds inside `send_all`. `recv` appends
any number of units up to `sizeof(tmp_buf)`; `protocol_decode`, `decode_error` and
`decode_pending` are the three results of the decoder; after a frame
`handle_session` decodes again before it reads again (`AfterFrame`). In the other
direction `send_response` stops at the first full buffer and `pool_recv_ack`
forgets a response whose rest is late; `whole` says that neither has happened.
`FrameChannel` is reached by looking at the last unit of every frame (`FramesIn`).

**MsgPack.** Encoder and decoder work on sequences of bytes; the data of a block are
only counted. The 64-bit offset is its eight bytes, of which the encoder always
writes all. `PayloadsAssumption` says what a block is: an `int32_t`, an `int64_t`
and a length that fits into an `int`.

**DiskScan, Timers, Snapshot.** `volume_enumerate` is a function of the machine:
`Entries` are the entries of its partition tables, `Place` is the position one of
them gets in the list. `MachinesAssumption`: a disk that can be opened is not empty,
and a partition whose volume Windows has mounted under a drive letter lies on its
disk; other partitions may end anywhere. Units are fractions of a block, so that partitions
may begin and end inside one. `Reader` is a `reader_entry_t` with its
`block_reader_t`; every step keeps in `reads` what it read: the offset in the
reader (`ro`), the place on the disk this amounts to (`at`) and the offset under
which it is sent (`off`). `held` is what a VSS context has acquired, `shadow` the
copies that live with it, `kept` the persistent ones. `InitFails` is one of the six
error paths of `vss_init_ex`. `TransferRaises` is the `__except` handler around the
transfer loop: `do_migrate` returns at once, without `vss_cleanup` and without closing
its readers, and `RaisedEnds` is the rest of `main`, after which the process is gone and
the system takes back what it held. A timer is its age; `TimerFires` serves the first due
one with all its reads, and the handler of one timer (`slow`) may take `SlowTime`.

| Action | Code in `client/main.c` |
|---|---|
| `VssReady`, `VssMissing`, `TakeSnapshots`, `NoSnapshots` | the VSS part of `do_migrate` and `cmd_incsync` |
| `OpenReader`, `ReadersOpen` | the loop that fills `readers[]` |
| `ScanBlock`, `PartitionDone`, `ScanDone` | the transfer loop with its clamp |
| `TransferRaises`, `RaisedEnds` | its exception handler, and the end of `main` |
| `TimerFires`, `TimersDone`, `RoundsWait`, `RoundsDone` | the timer loop in the scan and in the loop of rounds |
| `GptBackup`, `GptDone` | the metadata blocks |
| `MigrateEnds`, `Cleanup` | the ends of the commands |
| `IncOpen`, `IncBlock`, `IncPartitionDone`, `IncDone` | the scan of `cmd_incsync` |
| `VssCommand` | `cmd_test_vss`, `cmd_vss_query`, `cmd_vss_delete` |

**DriverStore, SystemCheck, Commands.** `store` is the driver store, `late` the
installations that `devcon_run` gave up after 30 seconds, `answered` the drivers to which
`devcon.exe` said yes in the last command. What `devcon.exe` answers is free: `devcon
find` may show devices for any set of drivers, and `devcon install` may end with any
code whether or not it has put the driver into the store; it never does so from another
driver's INF. `InjectDriver` is one turn of the loop of `driver_inject_virtio`. The
checks of `syschk.c` are operators from what the system answers to PASS, WARN or FAIL.
`ready` is the result of the last `inject_driver`, `check_drivers` or `checkenv`.

## 3. The runs

Runs that pass:

| Run | Shows |
|---|---|
| `queue` | The ring implements a FIFO, flag and count agree, and no waiting payload is freed unless its block was pushed while a response for it was outstanding. Blocks pushed that way still leave in order and exactly once. |
| `receiver` | Acknowledged blocks are written, and `SERVER_DONE` covers every block acknowledged before it on its connection, through breaks, failed and torn writes, restarts and power losses. |
| `full` | Full mode on two connections, a plan with a GPT block that is also a block of a partition, one fault of nine kinds (crash, break, stale connections, failing connects, failed reads, failed or torn writes, SIGINT, a receiver that exits), new snapshots, and frames of killed sessions that arrive late: a confirmed row describes what the target holds unless the block was queued while an earlier version of it was in flight; a confirmation is never taken back; a session ends unless `do_reconnect` holds it for ever, and if none is held so, repeated sessions confirm every block for good. |
| `tail` | TailSend, two connections, two faults out of breaks, read errors, SIGINT, timeouts, stale connections and failing connects, with a GPT block no round ever verifies: the queue stays far below its backpressure depth, a row holds the hash of whatever version of its block is on its way, and a session ends unless `do_reconnect` holds it for ever. |
| `connections` | Pool and session table through partial first connections, reaping, reconnects, deaths and restarts: `count` equals the number of descriptors in use when `pool_init` reached every slot; a connection of the client is in the backlog, in the table once, or refused; one is refused only while sessions of a dead client are in the table; every session with data is read although `session_foreach` skips one after a removal; dead sessions are removed; the search from `next_index` starves no connection. |
| `framing` | A stream cut in every place in both directions, clients that leave in the middle of a frame and unknown control frames: the decoder hands out the client's frames whole, once and in order (a refinement of `FrameChannel`); `recv_buf` never overflows; encoder and decoder agree at every limit of an integer's encodings; responses are read as sent unless one was cut; `send_all` never spins for ever though nobody reads responses meanwhile. |
| `client` | The commands on three machines (small disks, disks of uneven size, partitions that end behind the disk, volumes longer and shorter than their partition) with failing opens, reads and VSS calls, exceptions in the transfer loop, SIGINT and kills: every read is of the place it is sent under, within its reader, and from a copy that exists; partitions read from the disk and the metadata blocks are sent; rounds find what was sent; no command leaves anything held; a scan ends and a due timer is served although one handler takes longer than every interval; a yes of `inject_driver`, `check_drivers` or `checkenv` means that `devcon.exe` said yes to each boot driver in that command. |
| `incsync` | Repeated passes on two connections, with a write to the source and a break, failed read, failed write, partial first connection, crash, or a receiver that exits or loses power: the queue never exceeds its backpressure depth, a confirmed row describes the target until something goes wrong, a pass ends unless all its connections break, and undisturbed passes bring the target up to date. |

Runs that end in a violation each show one statement of the documents or
comments that the code does not keep; see section 7.

Every property of a passing run is also checked against a mutant of the code
(definitions marked *Mutant*, listed in `PROJECT.json`): a response before the
write, a sync left out, a lost guard, a missing timeout, a limit off by one, an
offset of the wrong origin, an error path that frees too little. Each mutant makes
its property fail.

Type invariants are proved (section 6) rather than checked in every run.

## 4. Bounds

- *Ring*: three slots, three blocks of which one may be resent, backpressure at
  two. The ring goes round, is full, is empty, and has popped unconfirmed entries
  in every position.
- *Receiver*: two connections, two blocks, at most two frames or responses on a
  connection, a sync every second block. Two connections are what it takes for
  frames to overtake each other.
- *Migration*: two blocks, two values, two connections at a time out of three or four
  identities, so that frames of one or two closed connections are on their way while a
  later session has its own; a write to the live disk, one or two faults
  (`MaxMishaps`), `MaxVersion` rounds after which no new session starts. In `tail` two
  faults are needed, for all slots to go stale and the next connect to fail; two breaks
  stand for a receiver that exits. `MaxRounds`, `ZeroRounds`, `Threshold`, `Defer` and
  `DrainLimit` are 2, 1, 1, 0 and 5 in `tail` for the 60, 3, 512, 9 and 300 of the code:
  small enough that every exit of `should_finish` and the deferral of a round are
  reached.
- *IncSync*: three blocks, two connections, backpressure at three entries, a flush
  every third block, one write to the source and one fault. Three blocks are what
  it takes to reach backpressure and also, when a connection breaks, to leave
  entries for a second try of the drain. With one fault one of the two connections
  works, unless the receiver goes (section 7). All blocks hold the same value at first:
  nothing compares two blocks. Version numbers stop at `MaxVersion`: the pass only
  stores them.
- *Pool*: three slots for seven in `pool_reconnect`, so that one can be open, one
  closed and one never reached by `pool_init`.
- *Connections*: two slots, a receiver that takes two, three names of connections:
  enough for a table full of a dead client's sessions with a new client in the
  backlog, and for a removal that moves a session under the loop. A name is used
  again when both sides have closed it.
- *Framing*: headers of two units, bodies of one or two, chunks of up to four, so
  that a chunk ends in a header, in a body, at a frame's end, or holds two frames. The
  buffer is as small as the assumption allows. One response fits into the sockets
  and half of the next. The blocks of `MCPayloads` are at both sides of each limit of
  each encoding.
- *Client*: blocks of two units, disks of three to eleven, at most two volumes, so
  that `MAX_VOLUMES` cuts the list of one machine; timers of one or two units, a
  slow handler of two; one failing open or read per command; one persistent copy.
  An operator uses either the commands about disks or those about drivers, which
  share nothing.

The counters `round` and `zero` stop at their limits, above which the code only
compares them. In runs with `MaxVersion` the model may stop after the last
session; those cfgs turn deadlock checking off. `MaxFrames` only bounds the
arbitrary peer of `Receiver` and is 0 in `Migration`, which has its own client.

## 5. Fairness

`FairSpec` of `Migration` assumes that

- the client's thread runs (`WF` on `ClientStep`): none of its loops waits for
  anything but time;
- the receiver's `select` loop serves a connection with data (`WF` on
  `ReceiverHandles`);
- an interrupted migration is started again (`WF` on `StartSession`): the
  operator's part, and what `T_BLOCK` exists for;
- timers of 18 seconds neither fire back to back for ever nor stay away for ever
  (`SF` on `TimersEnd` and `StartRound`). Strong fairness is needed because the
  thread passes the timers again and again without one being due.

Nothing is assumed that would make `do_reconnect` return: its loop takes its turns as
part of `ClientStep`, and when a turn changes nothing the client stays there.
`SessionEnds` and `AllConfirmed` therefore begin with `[]<>(pc # "reconnect")`: among all
loops of `do_migrate` this is the only one that can hold the client.

`FairSpec` of `IncSync` assumes the first two and that the operator runs the command
again (`WF` on `StartPass`), as `client.md` 3.12 tells him to.

Faults, writes to the live disk and `do_retransmit` have no fairness. In
`SocketPool` the client keeps sending and its reconnect timer keeps firing (`SF`,
since either is impossible while the other runs), and the loop of `do_reconnect`
keeps running (`WF`). `ReconnectComesBack` asks only that this loop is left, by the end
of the process if need be, so that a process that is killed and not started again does
not violate it.

`CFair` of `Connections`: the receiver's loop runs (`WF`), and a client that is there
again and again sends again and again (`SF`, since a full socket stops it for a
while). `FrFair` of `Framing`: the receiver's loop runs (`WF`), and a `send()` for
which there is room again and again returns (`SF`); nothing makes the client read
responses or close. `CmdFair`: the client's thread runs (`WF` on `DStep`); nothing
makes an operator give a command or `devcon.exe` end.

## 6. Proofs

All are for every value of the constants that satisfies the named `ASSUME`s.

`SendQueueProofs` proves `RingInv` inductive and from it `RingTypeOK`,
`BackpressureAgrees` and `PayloadsSurvive`. Of `RingInv`, `WindowExact`
(`head` is `count` slots ahead of `tail`) is needed because `queue_push` writes at
`head` and must not hit a waiting slot; `WaitingDistinct` (no waiting block has a
frame outstanding, none waits twice) because otherwise `queue_ack`, which matches
by key, could free a waiting payload. `RingIsFifo` is the refinement of `FifoQueue`:
a push appends to the waiting entries, a pop takes the first of them, a response is
invisible.

`ReceiverProofs` proves `ReceiverTypes`, `AckedBlocksAreWritten` and, without fsync
errors, `DoneIsDurable` against an arbitrary peer. The second rests on `AckInv`:
every response on a connection names a block that is written. A response is sent
after the write, a write never blanks a block, and a power loss takes the responses
with it. The third adds that what is durable is written, and that on each connection
every acknowledgement in front of a `SERVER_DONE` is covered.
Lemmas on sequences say that appending to, taking from and cutting a connection
keeps every element in its set; they are shared with the modules below.

`FramingProofs` proves, for all lengths that satisfy `FramingAssumption` and
`ResponseAssumption`:

- `FramingInvariant`, with `HandledFramesAreIntact`, `BufferNeverOverflows` and
  `FramingTypes`. `FrInv`: the stream is a sequence of frames, each unit followed by
  the next one of its frame or, after the last, by the first of another one (a
  client that leaves may cut the last frame), and before each `recv()` the buffer
  holds less than a frame.
- `ResponsesAreWhole`. `RespInv` is the same statement about the way back: as long as
  `whole` holds, what `pool_recv_ack` has read and what is still on its way are
  together a sequence of responses. The lemmas about frames are stated for any set of
  kinds and lengths and used for both.
- `StreamIsChannel`, the refinement of `FrameChannel`. `FramesIn` numbers the last
  units by counting those in front; the proof carries a list of their places along
  (`Lists`). A frame that is laid out extends the list, `protocol_decode` takes its
  first entry, a client that leaves cuts it, and `session_remove` empties it.
- `DecodedBlocksAreSent`, the MessagePack round trip for every payload that satisfies
  `PayloadsAssumption`. `BytesOf` gives an integer from its bytes and the sign of the
  highest; `HeadIs` says where each part of a message lies; `ReadsDevno`,
  `ReadsLength` and `ReadsTagged` go through the encodings. The theorem does not
  depend on the state: it is a fact about two functions, stated where it is used.

`SocketPoolProofs` proves `PoolTypes` and `CountIsExact`: counting what
`pool_reap_stale` closes needs only that the set of slots is finite.

`ConnectionsProofs` proves `ConnInv` inductive for any finite set of connections.
`SessionTableIsExact` needs that slots have distinct connections, open
ones only, and that a connection one side has closed is not yet known as such to the
other (`SocksExact`, `EndsApart`). `RefusedForTheDead` follows by counting, from two
assumptions that the defaults of the code satisfy (7 slots, `MaxConnections` 7, 16
sessions): if the table is full and nobody in it is dead, the client holds more
connections than it has slots.

`CommandsProofs` is about the composition `Commands`, for every set of machines that
satisfies `MachinesAssumption`, every block size and every limit of the volume list:

- `ScanInvariant`: `ScanInv`, at the end of `DiskScan`, says what a reader may look
  like (`GoodReaders`), what each place in the code knows about the VSS context, the
  readers and the position of the scan, and which blocks have been sent so far.
- `ReadsAreInPlace`, `ReadsAreInRange`, `CopiesExistWhileRead`, `CommandsHoldNothing`,
  `PartitionsAreSent`, `MetadataIsSent` and `RoundsReachWhatWasSent` follow from it.
  `CommandsHoldNothing` includes the exception handler and kills, where it is the end of
  the process that gives everything back. The reader a round chooses is the first that covers a block, so the last of these
  uses that a set of numbers has a smallest one.
- `ReadyIsAnswered`, from `DriverInv`: as long as no driver failed, `devcon.exe` said yes
  to all those the loop has passed. What its yes is worth is another question (section 7).

`IncSyncProofs` proves `IncSyncTypes` and `BacklogIsBounded`. The invariant
`ModelInv` says where in the loops the queue has room: after a push that met
backpressure the thread has to pass through a flush, which makes the queue shorter
by at least one entry whether or not the connections work. `ConfirmedRowsMatch`
assumes that the scan has no block twice (`NoRepeats`: partitions do not overlap).
`SyncInv` relates all that is under way for a block - queued, on a connection, as a
response, or being pushed - to its row, until the first mishap: like the property,
the theorem says nothing about passes that were disturbed.

`MigrationProofs` proves

- `MigrationTypes`: type correctness of the composition;
- `QueueIsShort`: the queue never exceeds `Defer + 2` = 11, so that with a
  backpressure depth of 40 `queue_push` never gives the result 2, whose
  handling pushes a block again;
- `ConfirmationIsFinal`: no step in either mode, under any fault, takes `ack=1`
  back. It needs `WorkInv`: what a round still has to look at is unacknowledged;
- `ConfirmedIsOnTarget`: in full mode without power losses and torn writes, a row with
  `ack=1` describes what the target holds, unless the block is `crossed`. `FlightInv`:
  every version of a block that is queued or on a connection, whichever session it is
  of, has the hash its row has; `ConfirmInv`: a response names a block the target holds
  as its row says. Both except crossed blocks: a block is queued with a new hash
  while nothing is in flight for it, or it joins `crossed`;
- `RowsDescribeTheLastSent`: for any number of connections and under every fault the row
  has the hash of what is on its way (`FlightInv` again), and until the first fault,
  when nothing is, that of what the target holds. The second half needs `LandedInv`
  (nothing on its way means landed) and `CalmInv`: as long as nothing went wrong all
  connections are up and what is closed is empty, so nothing was lost.

Only model-checked: liveness (`SessionEnds`, `AllConfirmed`, `PassEnds`,
`ConvergesUndisturbed`, `EveryConnUsed`, `SentIsRead`, `DeadSessionRemoved`,
`SendEnds`, `ScanEnds`, `DueIsServed`), which the prover does not do under fairness,
and `AckedMatchesHash` with torn writes. Every other property of a passing run is a
theorem, under the assumptions named here.

## 7. Disagreements between the code and its documents

| Run | What the code does |
|---|---|
| `done` | `SERVER_DONE` on one connection overtakes blocks on another. |
| `overwrite` | A session is killed and started again while its last frames are on their way. The new session sends the same block with new contents, the receiver writes the older version last, and the row is confirmed for good. |
| `pool_reconnect` | `do_reconnect` does not return while one slot is closed and another open. The trace ends in the loop, in a state that a turn of it does not change. |
| `scan_covers` | The scan's clamp compares the size of a shadow copy with an offset on the disk: a partition read from a copy loses as many blocks at its end as lie in front of it, or is skipped. |

`PROJECT.json` quotes the line that says otherwise for each.

The models show these as well, without a run of their own:

- A block in a partition and in the GPT range goes out twice on two connections; the
  older one may be written last and is confirmed (`OverwriteIsHarmless` with
  `OverlapPlan`), where `integration_test.md` calls the overwriting idempotent.
- `architecture.md` 142 and 167 say that every round of the incremental loop begins with
  `sqlite_reset_acked`; the code never calls it, and `client.md` 759 says so.
  `AckNeverRetracted` is about the code.
- An exception in the transfer loop ends `do_migrate` without `vss_cleanup`.
- TailSend skips unacknowledged blocks after a restart when their hash is
  unchanged, where `architecture.md` 6.4 says that they are sent again.
- A block lost with its connection keeps its row; every later `incsync` finds the
  hash unchanged, marks the block verified and never sends it
  (`ConvergesUndisturbed` without its premise).
- A refused connection is never noticed by the client: its slot stays open and
  swallows one block in as many as there are slots. A client that is started again
  at once meets this, since the table is still full of its predecessor's sessions.
- A response is cut when the buffer towards the client is full or when it arrives
  in two pieces; every later response on that connection is then misread
  (`ResponsesWhole` without `whole`).
- When the disk cannot be opened for the rounds, the copy stands in and is read at
  offsets of the disk (the exception `CopyStandsIn`).
- A metadata block in front of every partition is never looked at by a round.
- `gpt_done` is set before the disk is opened for the metadata: if that fails, no
  other reader of the disk tries again.
- `cmd_incsync` does not clamp: it reads behind the end of a disk that is shorter
  than its partition table says, where the length left wraps round.
- `do_migrate` gives up when VSS fails; `architecture.md` 6.3 says that it falls back
  to PhysicalDrive.
- The comment in `timer_check` gives reconnecting priority; the code serves
  retransmission first. With two slow handlers instead of one, `ScanEnds` fails.
- `driver_inject.h` 58 and 68 say that the drivers are in the store when `inject_driver`
  and `check_drivers` say yes. The code asks `devcon find`, which looks for devices, takes
  any output for a yes and any exit code up to 2 of `devcon install` for a success,
  whatever INF it found; `store` may be empty while `ready` holds.
- `inject_driver` does not use the result of its verification, and takes a folder
  for no known version of Windows when there is no other. Its yes still means that
  `devcon.exe` agreed to both boot drivers.
- `test_vss` may leave a persistent copy of which it tells nobody.
- The retransmission scan asks for the rows of remote id `""` and never finds one.
- A TailSend round confirms a block whose only frame was lost, if the source still
  has the hash the row has.
- When all connections are broken and the queue is at its depth, the push loop of
  `cmd_incsync` never ends: a flush drops one entry and the push puts one back.
- A crash inside that loop leaves the old row, with its `ack=1`, for a block that
  has been overwritten on the target (the exception `Pushing` of
  `ConfirmedMatches`).
- `client.md` 3.12 says that `incsync` reads the live disk; it reads a snapshot when
  VSS gives one.
- A response for an earlier frame of a block frees the copy that still waits in
  the ring, and `queue_pop` returns an entry without payload (`WaitingIntact`
  without its exception for `Resent`). `queue.h` speaks of the "next pending
  entry".
- A push can free the payload of a popped, unconfirmed entry, of which the comment
  in `queue_push` says that it should not happen.
- `SERVER_DONE` is sent although an fsync failed (`DoneCoversAcks` with
  `"fsync_error"` in `Faults`).
- `ack=1` is set for blocks that are written and not synced, where `protocol.md`
  says "written and fsynced".
- `should_finish` counts rows of older versions only: its "all blocks acked" does
  not include what the same round resent.
- When a first connection fails, `pool_init` leaves the slots behind it without
  address and buffer and with descriptor 0.
- A failing send touches its connection, so a dead one never goes stale.

## 8. Abstractions and omissions

- *Queue in `Migration` and `IncSync`*: the FIFO that `SendQueue` implements. `queue_ack` is
  invisible at that level. What a send of a freed payload would put on the wire
  is undefined and left out.
- *Contents*: abstract values. `HashOf` is any function, not necessarily
  injective; the runs use the identity.
- *Frames and responses* arrive whole in `Receiver`, `Migration` and `IncSync`.
  `Framing` shows this for frames; responses that are cut (section 7) are left out
  there.
- *The pool in `Migration`* has no clock: when the client calls `do_reconnect`, any set of
  open slots may be stale, as a fault. Which identity a new connection gets makes no
  difference.
- *Selections* are complete: the 4096-row limit of a round is not reached.
- *The 121 s cooldown* is "a block whose `last_sent` is set may be passed over or
  not".
- *Timers* in `Migration`: any timer may be due whenever the code looks. `DiskScan`
  has the timers themselves, and lets the handler of one of them take long.
- *Draining*: `do_migrate` (main.c:1917) tries at most 300 times to empty the queue after
  the scan; that is `DrainLimit`. `timer_cb_real` has no limit but looks at `g_running`.
  The 300 tries of `cmd_incsync` are not reached, since every try removes an entry and
  the queue holds at most `Depth` entries.
- *VSS* in `Migration`: a snapshot is a copy of the disk at the start of a session;
  a partition read from the live disk has the `gpt` flag of a plan entry.
- *`DiskScan`* sends a block by reading it: queue, pool, receiver and rows are those
  of `Migration` and `IncSync`. A round or a retransmission reads every block that
  was sent, since any of them may be unconfirmed. SIGINT falls between two steps.
- *Sessions*: what arrives is counted in pieces; frames in them are the subject of
  `Framing`, which looks at one connection, since connections share no buffer.
- *Compression* gives back what went in; a frame that does not decompress is the
  unknown control frame of `Framing` (`junk`).
- *`devcon.exe`* may answer anything; the VSS service is known only by how the code uses
  its answers.
- *The hash* is not modelled beyond being a function: its loops leave out the last
  32 bytes of a block whose length is a multiple of 8, contrary to its comment, so
  that it is not injective, which `Disks` allows.
- *Left out*: dry run, rate limiting, progress display, configuration files, logging,
  memory exhaustion, encode failures in `do_migrate`, `check_network` (never
  called), the commands that only print, `end_session` (empties `T_BLOCK`).
- *The backlog warning*: its threshold test is modelled, the client only logs it.

## 9. Plan

Done: all components of section 1 but logging, each to the extent section 8 says, and
the theorems of section 6.

Next, in this order:

1. `ConfirmedIsOnTarget` with torn writes: `ConfirmInv` has to say that a block which
   is torn on the target is still in flight or unconfirmed.
2. `DoneIsDurable` lifted to `Migration` through the connection that carries
   `endTransfer`.
3. The loop bounds of `hash_block` against a reference definition.
