------------------------------ MODULE Framing -------------------------------
(***************************************************************************)
(* One connection as a stream of bytes: send_all and wire_send (client/    *)
(* wire.c), recv() and recv_buf in handle_session (server/main.c),         *)
(* protocol_decode (server/protocol_decoder.c), and in the other direction *)
(* send_response (server/ack.c) and pool_recv_ack (client/pool.c).         *)
(*                                                                         *)
(* A frame is a header of HeaderLen units followed by a body; a unit is a  *)
(* piece of the stream that the network does not split further.  `stream'  *)
(* holds the units that are not decoded: the first recv_len are in         *)
(* recv_buf, the next `inflight' in the sockets, and the rest the client   *)
(* still has in its hands inside send_all.  The buffers belong to a        *)
(* connection and nothing here is shared with another one.                 *)
(***************************************************************************)
EXTENDS MsgPack, FiniteSets

CONSTANTS
  Kinds,          \* kinds of frames: data, incremental, end, and junk
  BodyLen,        \* units of a frame's body
  HeaderLen,      \* TCP_FRAME_HEADER_SIZE
  ChunkMax,       \* sizeof(tmp_buf): what one recv() may return
  BufSize,        \* sizeof(recv_buf)
  SockBuf,        \* what the sockets hold on the way to the receiver
  RespLen,        \* SERVER_RESPONSE_SIZE
  RespBuf,        \* what the sockets hold on the way back
  Batch,          \* frames sent between two calls of process_ack
  Payloads,       \* (devno, offset, length) of data blocks
  Faults          \* "split": responses may arrive in pieces

FrameLen(k) == HeaderLen + BodyLen[k]

\* 1 MB blocks compress to little more than 1 MB, tmp_buf has 64 KB and
\* recv_buf 4 MB.
ASSUME FramingAssumption ==
  /\ Kinds # {}
  /\ BodyLen \in [Kinds -> Nat \ {0}]
  /\ HeaderLen \in Nat \ {0}
  /\ ChunkMax \in Nat \ {0}
  /\ SockBuf \in Nat \ {0}
  /\ BufSize \in Nat
  /\ \A k \in Kinds : FrameLen(k) - 1 + ChunkMax <= BufSize

ASSUME ResponseAssumption ==
  /\ RespLen \in Nat \ {0}
  /\ RespBuf \in Nat
  /\ Batch \in Nat \ {0}

\* devno is an int32_t, offset an int64_t, and len fits into an int.
ASSUME PayloadsAssumption ==
  \A b \in Payloads :
    /\ b = [devno |-> b.devno, offset |-> b.offset, len |-> b.len]
    /\ b.devno \in Int32s /\ b.offset \in Bytes8 /\ b.len \in Nat \cap Int32s

VARIABLES
  cpc,            \* client: flush, send, ack, or down (the connection is closed)
  batch,          \* frames sent since the last process_ack
  stream,         \* units not decoded
  recv_len,       \* session_t.recv_len
  inflight,       \* units in the sockets
  spc,            \* receiver: idle, recv, decode, handle, gone (session removed)
  frame,          \* the units protocol_decode took for one frame
  resp,           \* response units on their way
  part,           \* units the running pool_recv_ack has read
  got,            \* the last response pool_recv_ack returned
  whole           \* no response has been sent or read in pieces

fvars == <<cpc, batch, stream, recv_len, inflight, spc, frame, resp, part, got, whole>>

Unit(k, i) == [kind |-> k, pos |-> i]

Units == [kind : Kinds, pos : Nat \ {0}]

FrInit ==
  /\ cpc = "flush" /\ batch = 0
  /\ stream = << >> /\ recv_len = 0 /\ inflight = 0
  /\ spc = "idle" /\ frame = << >>
  /\ resp = << >> /\ part = << >> /\ got = << >> /\ whole = TRUE

(***************************************************************************)
(* The client's side.                                                      *)
(***************************************************************************)

\* wire_send and wire_send_control lay out a frame in front of send_all.
wire_send(k) ==
  /\ cpc = "flush"
  /\ batch < Batch
  /\ stream' = stream \o [i \in 1 .. FrameLen(k) |-> Unit(k, i)]
  /\ batch' = batch + 1
  /\ cpc' = "send"
  /\ UNCHANGED <<recv_len, inflight, spc, frame, resp, part, got, whole>>

Unsent == Len(stream) - recv_len - inflight

\* send_all: send() takes what fits.  While nothing fits it spins on EAGAIN.
send_all ==
  /\ cpc = "send" /\ spc # "gone"
  /\ \E n \in 1 .. Unsent :
       /\ inflight + n <= SockBuf
       /\ inflight' = inflight + n
       /\ cpc' = IF n = Unsent THEN "flush" ELSE "send"
  /\ UNCHANGED <<batch, stream, recv_len, spc, frame, resp, part, got, whole>>

\* send() to a socket that the receiver has closed fails, or is lost.
SendFails ==
  /\ cpc = "send" /\ spc = "gone"
  /\ cpc' = "flush"
  /\ stream' = << >>
  /\ UNCHANGED <<batch, recv_len, inflight, spc, frame, resp, part, got, whole>>

\* The queue is empty: process_ack reads this connection.
process_ack ==
  /\ cpc = "flush"
  /\ cpc' = "ack"
  /\ UNCHANGED <<batch, stream, recv_len, inflight, spc, frame, resp, part, got, whole>>

\* What one recv() of a response may return.
Arriving ==
  LET most == IF Len(resp) < RespLen - Len(part) THEN Len(resp) ELSE RespLen - Len(part)
  IN  IF "split" \in Faults THEN 1 .. most ELSE {most} \ {0}

\* Mutant: the last unit of a response is not waited for.
pool_recv_ack_short ==
  /\ cpc = "ack" /\ resp # << >>
  /\ \E n \in Arriving :
       LET read == part \o SubSeq(resp, 1, n) IN
       /\ resp' = SubSeq(resp, n + 1, Len(resp))
       /\ IF Len(read) >= RespLen - 1
          THEN got' = read /\ part' = << >> ELSE part' = read /\ UNCHANGED got
       /\ UNCHANGED whole
  /\ UNCHANGED <<cpc, batch, stream, recv_len, inflight, spc, frame>>

\* pool_recv_ack reads a piece; a complete response is returned.
pool_recv_ack ==
  /\ cpc = "ack" /\ resp # << >>
  /\ \E n \in Arriving :
       LET read == part \o SubSeq(resp, 1, n) IN
       /\ resp' = SubSeq(resp, n + 1, Len(resp))
       /\ IF Len(read) = RespLen
          THEN got' = read /\ part' = << >> ELSE part' = read /\ UNCHANGED got
       /\ UNCHANGED whole
  /\ UNCHANGED <<cpc, batch, stream, recv_len, inflight, spc, frame>>

\* Nothing to read: pool_recv_ack returns, and forgets what it has read so far.
NoMoreResponses ==
  /\ cpc = "ack"
  /\ resp = << >> \/ "split" \in Faults
  /\ part' = << >> /\ got' = << >>
  /\ whole' = (whole /\ part = << >>)
  /\ cpc' = "flush" /\ batch' = 0
  /\ UNCHANGED <<stream, recv_len, inflight, spc, frame, resp>>

\* The client closes the connection or dies, perhaps in the middle of a frame.
Close ==
  /\ cpc # "down"
  /\ cpc' = "down"
  /\ stream' = SubSeq(stream, 1, recv_len + inflight)
  /\ resp' = << >> /\ part' = << >> /\ got' = << >> /\ batch' = 0
  /\ UNCHANGED <<recv_len, inflight, spc, frame, whole>>

(***************************************************************************)
(* The receiver's side.                                                    *)
(***************************************************************************)

\* select() reports the socket, and session_foreach comes to it.
Select ==
  /\ spc = "idle"
  /\ inflight > 0 \/ cpc = "down"
  /\ spc' = "recv"
  /\ UNCHANGED <<cpc, batch, stream, recv_len, inflight, frame, resp, part, got, whole>>

\* session_remove: the socket is closed with what it holds, and what the client
\* is sending can no longer arrive.
session_remove ==
  /\ spc' = "gone"
  /\ stream' = << >>
  /\ recv_len' = 0 /\ inflight' = 0
  /\ UNCHANGED <<cpc, batch, resp, part, got, whole>>

\* recv() returns a piece, and protocol_decode appends it to recv_buf unless it
\* does not fit.
recv ==
  /\ spc = "recv"
  /\ \E n \in 1 .. inflight :
       /\ n <= ChunkMax
       /\ IF recv_len + n > BufSize
          THEN session_remove /\ UNCHANGED frame
          ELSE /\ recv_len' = recv_len + n
               /\ inflight' = inflight - n
               /\ spc' = "decode"
               /\ UNCHANGED <<cpc, batch, stream, frame, resp, part, got, whole>>

\* recv() answers EAGAIN.
recv_again ==
  /\ spc = "recv" /\ inflight = 0 /\ cpc # "down"
  /\ spc' = "idle"
  /\ UNCHANGED <<cpc, batch, stream, recv_len, inflight, frame, resp, part, got, whole>>

\* recv() answers 0: the client is gone.
recv_eof ==
  /\ spc = "recv" /\ inflight = 0 /\ cpc = "down"
  /\ session_remove
  /\ UNCHANGED frame

\* protocol_decode finds a whole frame: the header tells its length.
FrameComplete ==
  /\ recv_len >= HeaderLen
  /\ recv_len >= FrameLen(stream[1].kind)

\* Mutant: the body is removed from recv_buf and the header is not.
Consume_body_only(k) ==
  /\ frame' = SubSeq(stream, 1, FrameLen(k))
  /\ stream' = SubSeq(stream, BodyLen[k] + 1, Len(stream))
  /\ recv_len' = recv_len - BodyLen[k]

\* Mutant: what recv_buf holds behind the frame is dropped.
Consume_all(k) ==
  /\ frame' = SubSeq(stream, 1, FrameLen(k))
  /\ stream' = SubSeq(stream, recv_len + 1, Len(stream))
  /\ recv_len' = 0

\* The frame is taken out of recv_buf.
Consume(k) ==
  /\ frame' = SubSeq(stream, 1, FrameLen(k))
  /\ stream' = SubSeq(stream, FrameLen(k) + 1, Len(stream))
  /\ recv_len' = recv_len - FrameLen(k)

\* protocol_decode returns 1.
protocol_decode ==
  /\ spc = "decode" /\ FrameComplete
  /\ LET k == stream[1].kind IN
     /\ k # "junk"
     /\ Consume(k)
  /\ spc' = "handle"
  /\ UNCHANGED <<cpc, batch, inflight, resp, part, got, whole>>

\* protocol_decode returns -1: neither data nor a known control string.
decode_error ==
  /\ spc = "decode" /\ FrameComplete
  /\ stream[1].kind = "junk"
  /\ session_remove
  /\ UNCHANGED frame

\* protocol_decode returns 0.
decode_pending ==
  /\ spc = "decode" /\ ~FrameComplete
  /\ spc' = "recv"
  /\ UNCHANGED <<cpc, batch, stream, recv_len, inflight, frame, resp, part, got, whole>>

\* Mutant: send_response waits until the response fits.
send_response_waits(a) ==
  /\ cpc = "down" \/ Len(resp) + RespLen <= RespBuf
  /\ resp' = IF cpc = "down" THEN resp ELSE resp \o [i \in 1 .. RespLen |-> Unit(a, i)]
  /\ UNCHANGED whole

\* send_response: it stops at the first EAGAIN with part of the response sent.
send_response(a) ==
  LET n == IF Len(resp) + RespLen <= RespBuf THEN RespLen ELSE RespBuf - Len(resp) IN
  /\ resp' = IF cpc = "down" THEN resp ELSE resp \o [i \in 1 .. n |-> Unit(a, i)]
  /\ whole' = (whole /\ (cpc = "down" \/ n = RespLen))

\* Mutant: handle_session goes back to recv() after one frame.
AfterFrame_recv == "recv"

\* The next frame that may already be in recv_buf.
AfterFrame == "decode"

\* The switch in handle_session: write and acknowledge, note, or sync and report.
handle ==
  /\ spc = "handle"
  /\ CASE frame[1].kind = "data" -> send_response("ack")
       [] frame[1].kind = "end" -> send_response("done")
       [] OTHER -> UNCHANGED <<resp, whole>>
  /\ spc' = AfterFrame
  /\ frame' = << >>
  /\ UNCHANGED <<cpc, batch, stream, recv_len, inflight, part, got>>

\* A new connection in the place of one that both sides have left.
Connect ==
  /\ cpc = "down" /\ spc = "gone"
  /\ cpc' = "flush" /\ batch' = 0
  /\ stream' = << >> /\ recv_len' = 0 /\ inflight' = 0
  /\ spc' = "idle" /\ frame' = << >>
  /\ resp' = << >> /\ part' = << >> /\ got' = << >> /\ whole' = TRUE

ClientSends == send_all \/ SendFails

ServerStep ==
  \/ Select \/ recv \/ recv_again \/ recv_eof
  \/ protocol_decode \/ decode_error \/ decode_pending \/ handle

FrNext ==
  \/ \E k \in Kinds : wire_send(k)
  \/ ClientSends
  \/ process_ack \/ pool_recv_ack \/ NoMoreResponses \/ Close \/ Connect
  \/ ServerStep

FrSpec == FrInit /\ [][FrNext]_fvars

\* The receiver runs, and send() returns when there is room.
FrFair == FrSpec /\ WF_fvars(ServerStep) /\ SF_fvars(ClientSends)

------------------------------------------------------------------------------
(***************************************************************************)
(* Properties.                                                             *)
(***************************************************************************)

\* The lengths describe the stream, and a frame is at hand when it is handled.
FrTypeOK ==
  /\ stream \in Seq(Units)
  /\ recv_len \in Nat /\ inflight \in Nat
  /\ recv_len + inflight <= Len(stream)
  /\ inflight <= SockBuf
  /\ cpc \in {"flush", "send", "ack", "down"}
  /\ spc \in {"idle", "recv", "decode", "handle", "gone"}
  /\ frame \in Seq(Units)

\* However recv() cuts the stream into pieces, what protocol_decode hands to the
\* handler is one frame of the client, from its first byte to its last.
FramesIntact ==
  spc = "handle" =>
    /\ frame # << >>
    /\ frame = [i \in 1 .. FrameLen(frame[1].kind) |-> Unit(frame[1].kind, i)]

\* recv_buf never overflows: before each recv() less than one frame is left in
\* it, so that what recv() may return fits.
NoOverflow == spc \in {"idle", "recv"} => recv_len + ChunkMax <= BufSize

\* The encoder's and the decoder's MessagePack agree: the block written is the
\* block sent, whichever encodings its numbers take.
Decoded == [b \in Payloads |-> msgpack_decode_block(msgpack_encode_block(b))]

DecodedIsSent ==
  spc = "handle" /\ frame[1].kind = "data" => \A b \in Payloads : Decoded[b] = b

\* As long as no response was sent or received in pieces, process_ack reads
\* responses as they were sent.
ResponsesWhole ==
  whole /\ got # << >> => got = [i \in 1 .. RespLen |-> Unit(got[1].kind, i)]

\* send_all's busy loop ends: the receiver goes on reading although nobody reads
\* its responses.
SendEnds == cpc = "send" ~> cpc # "send"

\* The frames of a stream, each known by its last unit.
Ends(s) == {i \in 1 .. Len(s) : s[i].pos = FrameLen(s[i].kind)}

Nth(S, n) == CHOOSE i \in S : Cardinality({j \in S : j <= i}) = n

FramesIn(s) ==
  LET ends == Ends(s) IN [n \in 1 .. Cardinality(ends) |-> s[Nth(ends, n)].kind]

\* The stream of bytes implements a channel of whole frames.
Channel == INSTANCE FrameChannel WITH
  chan <- FramesIn(stream),
  up <- cpc # "down" /\ spc # "gone"

ImplementsChannel == Channel!ChanSpec
=============================================================================
