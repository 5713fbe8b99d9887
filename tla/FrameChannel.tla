---------------------------- MODULE FrameChannel ----------------------------
(***************************************************************************)
(* What a connection promises to the receiver's handler: the frames of the *)
(* client arrive whole, once and in order as long as both sides keep the   *)
(* connection; when one of them leaves, what is behind some frame is lost. *)
(* The module Receiver builds on channels of this kind; the module Framing *)
(* shows that recv(), recv_buf and protocol_decode make one out of a       *)
(* stream of bytes.                                                        *)
(***************************************************************************)
EXTENDS Sequences, Integers

CONSTANT Kinds

VARIABLES
  chan,           \* frames the client has begun to send and not yet handled
  up              \* neither side has left

ChanInit == chan = << >> /\ up = TRUE

Send(k) == chan' = Append(chan, k) /\ UNCHANGED up

Handle == chan # << >> /\ chan' = Tail(chan) /\ UNCHANGED up

Cut == up' = FALSE /\ \E n \in 0 .. Len(chan) : chan' = SubSeq(chan, 1, n)

Open == ~up /\ up' = TRUE /\ chan' = << >>

ChanNext == Handle \/ Cut \/ Open \/ \E k \in Kinds : Send(k)

ChanSpec == ChanInit /\ [][ChanNext]_<<chan, up>>
=============================================================================
