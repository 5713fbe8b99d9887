------------------------------ MODULE Receiver ------------------------------
(***************************************************************************)
(* The migration receiver (server/main.c, session.c, block_writer.c,       *)
(* ack.c) and the TCP connections that feed it.                            *)
(*                                                                         *)
(* One select loop serves every connection.  handle_session takes the      *)
(* frames of one connection in order and, for each, writes the block,      *)
(* answers on the same connection and now and then syncs the target disks. *)
(* Nothing orders the frames of two connections.  A block stands for a     *)
(* (devno, offset) pair; `target' is what the files hold and `durable'     *)
(* what is certain to be left of it after a power loss.                    *)
(*                                                                         *)
(* The client appears here as whoever sends well-formed frames and reads   *)
(* responses; the module Migration puts the real one in its place.         *)
(***************************************************************************)
EXTENDS Disks

CONSTANTS
  Conns,          \* the connections
  SyncInterval,   \* FSYNC_BLOCK_INTERVAL
  BinlogLimit,    \* BINLOG_SIZE_LIMIT, in blocks
  MaxFrames,      \* bound: frames a connection holds
  Faults          \* what may go wrong in this instance

ASSUME ReceiverAssumption ==
  /\ SyncInterval \in Nat \ {0}
  /\ BinlogLimit \in Nat \ {0}
  /\ MaxFrames \in Nat

VARIABLES
  link,           \* per connection: up, broken (the peer is gone), closed
  chan,           \* per connection: frames sent and not handled
  resp,           \* per connection: responses sent and not read
  target,         \* contents of the target disks
  durable,        \* contents that survive a power loss
  sinceSync,      \* g_blocks_since_fsync
  pending         \* g_pending_bytes, in blocks

rvars == <<link, chan, resp, target, durable, sinceSync, pending>>

Data(b, v) == [type |-> "data", blk |-> b, val |-> v]
Incremental == [type |-> "incremental"]
End == [type |-> "end"]

Frames == [type : {"data"}, blk : Blocks, val : Values]
            \cup [type : {"incremental", "end"}]

Ack(b) == [type |-> "ack", blk |-> b]
Binlog(b) == [type |-> "binlog", blk |-> b]
Done == [type |-> "done"]

Responses == [type : {"ack", "binlog"}, blk : Blocks] \cup [type : {"done"}]

\* A receiver that has just been started.
ServerInit ==
  /\ chan = [c \in Conns |-> << >>]
  /\ resp = [c \in Conns |-> << >>]
  /\ target = [b \in Blocks |-> Blank]
  /\ durable = [b \in Blocks |-> Blank]
  /\ sinceSync = 0
  /\ pending = 0

RInit == link = [c \in Conns |-> "up"] /\ ServerInit

(***************************************************************************)
(* The handler of one frame.                                               *)
(***************************************************************************)

\* The next frame of connection c is f, and it is taken off the connection.
protocol_decode(c, f) ==
  /\ chan[c] # << >>
  /\ f = Head(chan[c])
  /\ chan' = [chan EXCEPT ![c] = Tail(@)]

\* Blocks whose disk fails an fsync; neither caller looks at the result.
FsyncFailures == IF "fsync_error" \in Faults THEN SUBSET Blocks ELSE {{}}

\* block_writer_fsync_all, with t the contents of the files.
block_writer_fsync_all(t) ==
  \E bad \in FsyncFailures :
    durable' = [b \in Blocks |-> IF b \in bad THEN durable[b] ELSE t[b]]

\* send_response: what is sent to a peer that has gone is lost, and no caller
\* looks at the result.
send_response(c, rs) ==
  resp' = IF link[c] = "up" THEN [resp EXCEPT ![c] = @ \o rs] ELSE resp

\* Mutant: the response leaves before the block is written.
block_writer_write_skipped(b, v) ==
  UNCHANGED <<target, durable, sinceSync>>

\* block_writer_write succeeds: every SyncInterval blocks the disks are synced.
block_writer_write(b, v) ==
  /\ target' = [target EXCEPT ![b] = v]
  /\ IF sinceSync + 1 >= SyncInterval
     THEN block_writer_fsync_all(target') /\ sinceSync' = 0
     ELSE sinceSync' = sinceSync + 1 /\ UNCHANGED durable

\* block_writer_pending_bytes reads the counter and clears it.
block_writer_pending_bytes == pending + 1

\* DECODE_DATA_BLOCK: write, acknowledge, and warn about the backlog.
RecvBlock(c) ==
  \E b \in Blocks, v \in Values :
    /\ protocol_decode(c, Data(b, v))
    /\ block_writer_write(b, v)
    /\ send_response(c, IF block_writer_pending_bytes >= BinlogLimit
                        THEN <<Ack(b), Binlog(b)>> ELSE <<Ack(b)>>)
    /\ pending' = 0
    /\ UNCHANGED link

\* DECODE_DATA_BLOCK when lseek or write fails: no response, and what was
\* written before the error stays.
RecvBlockFails(c) ==
  \E b \in Blocks, v \in Values :
    /\ "write_error" \in Faults
    /\ protocol_decode(c, Data(b, v))
    /\ \/ UNCHANGED target
       \/ "torn" \in Faults /\ target' = [target EXCEPT ![b] = Torn]
    /\ UNCHANGED <<link, resp, durable, sinceSync, pending>>

\* DECODE_CTL_INCREMENTAL only sets a flag that nothing reads.
RecvIncremental(c) ==
  /\ protocol_decode(c, Incremental)
  /\ UNCHANGED <<link, resp, target, durable, sinceSync, pending>>

\* Mutant: SERVER_DONE is sent without the sync.
RecvEnd_no_sync(c) ==
  /\ protocol_decode(c, End)
  /\ send_response(c, <<Done>>)
  /\ UNCHANGED <<link, target, durable, sinceSync, pending>>

\* DECODE_CTL_END_INCREMENTAL: sync all disks, then SERVER_DONE.  The counter
\* of the periodic sync is not reset.
RecvEnd(c) ==
  /\ protocol_decode(c, End)
  /\ block_writer_fsync_all(target)
  /\ send_response(c, <<Done>>)
  /\ UNCHANGED <<link, target, sinceSync, pending>>

(***************************************************************************)
(* What happens to connections and to the receiver's machine.              *)
(***************************************************************************)

\* A prefix of what is in flight reaches the other side.
Cut(s) == {SubSeq(s, 1, n) : n \in 0 .. Len(s)}

\* Connection c breaks.  handle_session removes the session; the client keeps
\* the descriptor.
Break(c) ==
  /\ "break" \in Faults
  /\ link[c] = "up"
  /\ link' = [link EXCEPT ![c] = "broken"]
  /\ \E s \in Cut(chan[c]) : chan' = [chan EXCEPT ![c] = s]
  /\ \E s \in Cut(resp[c]) : resp' = [resp EXCEPT ![c] = s]
  /\ UNCHANGED <<target, durable, sinceSync, pending>>

\* Every connection is gone, with what was on it.
DropConnections ==
  /\ link' = [c \in Conns |-> IF link[c] = "up" THEN "broken" ELSE link[c]]
  /\ chan' = [c \in Conns |-> << >>]
  /\ resp' = [c \in Conns |-> << >>]
  /\ sinceSync' = 0
  /\ pending' = 0

\* SIGTERM: server_run returns and block_writer_close_all syncs every disk.
ServerExit ==
  /\ "server_exit" \in Faults
  /\ DropConnections
  /\ block_writer_fsync_all(target)
  /\ UNCHANGED target

\* The machine loses power: of each block that is not synced, either the old
\* or the new contents are left.
PowerLoss ==
  /\ "power_loss" \in Faults
  /\ DropConnections
  /\ target' \in {t \in [Blocks -> Contents] :
                    \A b \in Blocks : t[b] \in {target[b], durable[b]}}
  /\ durable' = target'

ReceiverStep(c) ==
  RecvBlock(c) \/ RecvBlockFails(c) \/ RecvIncremental(c) \/ RecvEnd(c)

(***************************************************************************)
(* The peer: wire_send and wire_send_control put a frame on a connection,  *)
(* pool_recv_ack takes a response off it.                                  *)
(***************************************************************************)

\* The peer's send succeeds, on a connection that may just have been made.  On a
\* broken connection the frame may still be taken by the socket buffer, where it
\* is lost.
wire_send(c, f) ==
  chan' = IF link'[c] = "up" THEN [chan EXCEPT ![c] = Append(@, f)] ELSE chan

PeerSends(c) ==
  /\ link[c] = "up"
  /\ Len(chan[c]) + Len(resp[c]) < MaxFrames
  /\ UNCHANGED link
  /\ \E f \in Frames : wire_send(c, f)
  /\ UNCHANGED <<resp, target, durable, sinceSync, pending>>

PeerReads(c) ==
  /\ resp[c] # << >>
  /\ resp' = [resp EXCEPT ![c] = Tail(@)]
  /\ UNCHANGED <<link, chan, target, durable, sinceSync, pending>>

\* A connection that is gone and drained is opened again: accept().
PeerConnects(c) ==
  /\ link[c] = "broken"
  /\ chan[c] = << >>
  /\ link' = [link EXCEPT ![c] = "up"]
  /\ resp' = [resp EXCEPT ![c] = << >>]
  /\ UNCHANGED <<chan, target, durable, sinceSync, pending>>

RNext ==
  \/ \E c \in Conns : ReceiverStep(c) \/ Break(c)
  \/ \E c \in Conns : PeerSends(c) \/ PeerReads(c) \/ PeerConnects(c)
  \/ ServerExit
  \/ PowerLoss

RSpec == RInit /\ [][RNext]_rvars

------------------------------------------------------------------------------
(***************************************************************************)
(* Properties.                                                             *)
(***************************************************************************)

\* The receiver's variables have their types.
RTypeOK ==
  /\ link \in [Conns -> {"up", "broken", "closed"}]
  /\ chan \in [Conns -> Seq(Frames)]
  /\ resp \in [Conns -> Seq(Responses)]
  /\ target \in [Blocks -> Contents]
  /\ durable \in [Blocks -> Contents]
  /\ sinceSync \in 0 .. SyncInterval - 1
  /\ pending = 0

\* A block that handle_session has acknowledged has been written: no response
\* for a block that still holds what it held before the migration.
AckMeansWritten ==
  \A c \in Conns : \A i \in 1 .. Len(resp[c]) :
    resp[c][i].type = "ack" => target[resp[c][i].blk] # Blank

\* SERVER_DONE covers its own connection: every block acknowledged before it on
\* the same connection has reached stable storage, whatever the other
\* connections do meanwhile, as long as no fsync fails.
DoneCoversAcks ==
  \A c \in Conns : \A i, j \in 1 .. Len(resp[c]) :
    i < j /\ resp[c][i].type = "ack" /\ resp[c][j].type = "done"
      => durable[resp[c][i].blk] # Blank
=============================================================================
