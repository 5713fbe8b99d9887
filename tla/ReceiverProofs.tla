--------------------------- MODULE ReceiverProofs ---------------------------
(***************************************************************************)
(* Theorems about the receiver for every set of connections and blocks,    *)
(* every fault and every interval between syncs; and, for the proofs about *)
(* the commands that use it, what the client's pool keeps.                 *)
(***************************************************************************)
EXTENDS ClientPool, TLAPS

\* What a sequence of frames, responses or items is made of after the three
\* operations the model uses.
LEMMA SeqAppend ==
  ASSUME NEW S, NEW s \in Seq(S), NEW x \in S PROVE Append(s, x) \in Seq(S)
  OBVIOUS

LEMMA SeqTail ==
  ASSUME NEW S, NEW s \in Seq(S), s # << >>
  PROVE  Head(s) \in S /\ Tail(s) \in Seq(S)
  OBVIOUS

LEMMA SeqCat ==
  ASSUME NEW S, NEW s \in Seq(S), NEW t \in Seq(S) PROVE s \o t \in Seq(S)
  OBVIOUS

LEMMA SeqCut ==
  ASSUME NEW S, NEW s \in Seq(S), NEW t \in Cut(s) PROVE t \in Seq(S)
  BY DEF Cut

LEMMA SeqMono ==
  ASSUME NEW S, NEW T, S \subseteq T, NEW s \in Seq(S) PROVE s \in Seq(T)
  OBVIOUS

LEMMA EmptySeq == ASSUME NEW S PROVE << >> \in Seq(S)
  OBVIOUS

LEMMA SeqElement ==
  ASSUME NEW S, NEW s \in Seq(S), NEW i \in 1 .. Len(s) PROVE s[i] \in S
  OBVIOUS

------------------------------------------------------------------------------
(***************************************************************************)
(* Connections.  S is any set of frames, or of responses, that the         *)
(* connections are known to hold.                                          *)
(***************************************************************************)

\* What is decoded was on the connection, and the rest stays there.
LEMMA DecodeKeeps ==
  ASSUME NEW S, chan \in [Conns -> Seq(S)], NEW c \in Conns, NEW f,
         protocol_decode(c, f)
  PROVE  f \in S /\ chan' \in [Conns -> Seq(S)]
<1>1. chan[c] \in Seq(S) /\ chan[c] # << >>
  BY DEF protocol_decode
<1>2. Head(chan[c]) \in S /\ Tail(chan[c]) \in Seq(S)
  BY <1>1, SeqTail
<1> QED
  BY <1>2 DEF protocol_decode

\* A frame that is sent is the only addition.
LEMMA SendKeeps ==
  ASSUME NEW S, chan \in [Conns -> Seq(S)], NEW c \in Conns, NEW f \in S,
         wire_send(c, f)
  PROVE  chan' \in [Conns -> Seq(S)]
<1>1. Append(chan[c], f) \in Seq(S)
  BY SeqAppend
<1> QED
  BY <1>1 DEF wire_send

\* The responses that are sent are the only additions.
LEMMA RespondKeeps ==
  ASSUME NEW S, resp \in [Conns -> Seq(S)], NEW c \in Conns, NEW rs \in Seq(S),
         send_response(c, rs)
  PROVE  resp' \in [Conns -> Seq(S)]
<1>1. resp[c] \o rs \in Seq(S)
  BY SeqCat
<1> QED
  BY <1>1 DEF send_response

\* A connection that breaks loses frames and responses and gets no new ones.
LEMMA BreakKeeps ==
  ASSUME NEW S, NEW T, chan \in [Conns -> Seq(S)], resp \in [Conns -> Seq(T)],
         NEW c \in Conns, Break(c)
  PROVE  chan' \in [Conns -> Seq(S)] /\ resp' \in [Conns -> Seq(T)]
<1>1. \A s \in Cut(chan[c]) : s \in Seq(S)
  BY SeqCut
<1>2. \A s \in Cut(resp[c]) : s \in Seq(T)
  BY SeqCut
<1> QED
  BY <1>1, <1>2 DEF Break

\* Connections that are dropped are empty.
LEMMA DropKeeps ==
  ASSUME NEW S, NEW T, DropConnections
  PROVE  chan' \in [Conns -> Seq(S)] /\ resp' \in [Conns -> Seq(T)]
  BY EmptySeq DEF DropConnections

\* What is known of every response may be weakened.
LEMMA RespMono ==
  ASSUME NEW S, NEW T, S \subseteq T, NEW r \in [Conns -> Seq(S)]
  PROVE  r \in [Conns -> Seq(T)]
  BY SeqMono

------------------------------------------------------------------------------
(***************************************************************************)
(* Type correctness.                                                       *)
(***************************************************************************)

LEMMA FrameTypes ==
  /\ \A b \in Blocks, v \in Values : Data(b, v) \in Frames
  /\ Incremental \in Frames
  /\ End \in Frames
  BY DEF Data, Incremental, End, Frames

LEMMA ResponseTypes ==
  /\ \A b \in Blocks : Ack(b) \in Responses /\ Binlog(b) \in Responses
  /\ Done \in Responses
  BY DEF Ack, Binlog, Done, Responses

\* A sync leaves a state of the files.
LEMMA FsyncTypes ==
  ASSUME durable \in [Blocks -> Contents], NEW t \in [Blocks -> Contents],
         block_writer_fsync_all(t)
  PROVE  durable' \in [Blocks -> Contents]
  BY DEF block_writer_fsync_all

\* A write keeps the types of the disks and the bound of the counter.
LEMMA WriteTypes ==
  ASSUME RTypeOK, NEW b \in Blocks, NEW v \in Values, block_writer_write(b, v)
  PROVE  /\ target' \in [Blocks -> Contents]
         /\ durable' \in [Blocks -> Contents]
         /\ sinceSync' \in 0 .. SyncInterval - 1
<1>1. target' \in [Blocks -> Contents]
  BY DEF block_writer_write, RTypeOK, Contents
<1>2. durable' \in [Blocks -> Contents]
  BY <1>1, FsyncTypes DEF block_writer_write, RTypeOK
<1>3. sinceSync' \in 0 .. SyncInterval - 1
  BY ReceiverAssumption DEF block_writer_write, RTypeOK
<1> QED
  BY <1>1, <1>2, <1>3

\* Handling a frame keeps the types.
LEMMA StepTypes ==
  ASSUME RTypeOK, NEW c \in Conns, ReceiverStep(c) PROVE RTypeOK'
<1> chan \in [Conns -> Seq(Frames)] /\ resp \in [Conns -> Seq(Responses)]
  BY DEF RTypeOK
<1>1. CASE RecvBlock(c)
  <2>1. PICK b \in Blocks, v \in Values :
          /\ protocol_decode(c, Data(b, v))
          /\ block_writer_write(b, v)
          /\ send_response(c, IF block_writer_pending_bytes >= BinlogLimit
                              THEN <<Ack(b), Binlog(b)>> ELSE <<Ack(b)>>)
          /\ pending' = 0
          /\ UNCHANGED link
    BY <1>1 DEF RecvBlock
  <2>2. chan' \in [Conns -> Seq(Frames)]
    BY <2>1, DecodeKeeps
  <2>3. resp' \in [Conns -> Seq(Responses)]
    <3> DEFINE rs == IF block_writer_pending_bytes >= BinlogLimit
                     THEN <<Ack(b), Binlog(b)>> ELSE <<Ack(b)>>
    <3>1. Ack(b) \in Responses /\ Binlog(b) \in Responses
      BY ResponseTypes
    <3>2. rs \in Seq(Responses)
      BY <3>1
    <3>3. send_response(c, rs)
      BY <2>1
    <3> HIDE DEF rs
    <3> QED
      BY <3>2, <3>3, RespondKeeps
  <2>4. /\ target' \in [Blocks -> Contents]
        /\ durable' \in [Blocks -> Contents]
        /\ sinceSync' \in 0 .. SyncInterval - 1
    BY <2>1, WriteTypes
  <2> QED
    BY <2>1, <2>2, <2>3, <2>4 DEF RTypeOK
<1>2. CASE RecvBlockFails(c)
  <2>1. PICK b \in Blocks, v \in Values :
          /\ protocol_decode(c, Data(b, v))
          /\ target' \in {target, [target EXCEPT ![b] = Torn]}
          /\ UNCHANGED <<link, resp, durable, sinceSync, pending>>
    BY <1>2 DEF RecvBlockFails
  <2>2. chan' \in [Conns -> Seq(Frames)]
    BY <2>1, DecodeKeeps
  <2>3. target' \in [Blocks -> Contents]
    BY <2>1 DEF RTypeOK, Contents
  <2> QED
    BY <2>1, <2>2, <2>3 DEF RTypeOK
<1>3. CASE RecvIncremental(c)
  <2>1. chan' \in [Conns -> Seq(Frames)]
    BY <1>3, DecodeKeeps DEF RecvIncremental
  <2> QED
    BY <1>3, <2>1 DEF RecvIncremental, RTypeOK
<1>4. CASE RecvEnd(c)
  <2>1. chan' \in [Conns -> Seq(Frames)]
    BY <1>4, DecodeKeeps DEF RecvEnd
  <2>2. <<Done>> \in Seq(Responses)
    BY ResponseTypes
  <2>3. resp' \in [Conns -> Seq(Responses)]
    BY <1>4, <2>2, RespondKeeps DEF RecvEnd
  <2>4. durable' \in [Blocks -> Contents]
    BY <1>4, FsyncTypes DEF RecvEnd, RTypeOK
  <2> QED
    BY <1>4, <2>1, <2>3, <2>4 DEF RecvEnd, RTypeOK
<1> QED
  BY <1>1, <1>2, <1>3, <1>4 DEF ReceiverStep

\* So do the faults.
LEMMA FaultTypes ==
  ASSUME RTypeOK, (\E c \in Conns : Break(c)) \/ ServerExit \/ PowerLoss
  PROVE  RTypeOK'
<1>1. ASSUME NEW c \in Conns, Break(c) PROVE RTypeOK'
  <2>1. chan' \in [Conns -> Seq(Frames)] /\ resp' \in [Conns -> Seq(Responses)]
    BY <1>1, BreakKeeps DEF RTypeOK
  <2> QED
    BY <1>1, <2>1 DEF Break, RTypeOK
<1>2. ASSUME DropConnections,
             target' \in [Blocks -> Contents], durable' \in [Blocks -> Contents]
      PROVE  RTypeOK'
  <2>1. chan' \in [Conns -> Seq(Frames)] /\ resp' \in [Conns -> Seq(Responses)]
    BY <1>2, DropKeeps
  <2> QED
    BY <1>2, <2>1, ReceiverAssumption DEF DropConnections, RTypeOK
<1>3. CASE ServerExit
  <2>1. durable' \in [Blocks -> Contents]
    BY <1>3, FsyncTypes DEF ServerExit, RTypeOK
  <2> QED
    BY <1>2, <1>3, <2>1 DEF ServerExit, RTypeOK
<1>4. CASE PowerLoss
  BY <1>2, <1>4 DEF PowerLoss
<1> QED
  BY <1>1, <1>3, <1>4

\* And so do the peer's sends, reads and connects.
LEMMA PeerTypes ==
  ASSUME RTypeOK, NEW c \in Conns, PeerSends(c) \/ PeerReads(c) \/ PeerConnects(c)
  PROVE  RTypeOK'
<1> chan \in [Conns -> Seq(Frames)] /\ resp \in [Conns -> Seq(Responses)]
  BY DEF RTypeOK
<1>1. CASE PeerSends(c)
  <2>1. chan' \in [Conns -> Seq(Frames)]
    BY <1>1, SendKeeps DEF PeerSends
  <2> QED
    BY <1>1, <2>1 DEF PeerSends, RTypeOK
<1>2. CASE PeerReads(c)
  <2>1. Tail(resp[c]) \in Seq(Responses)
    BY <1>2, SeqTail DEF PeerReads
  <2> QED
    BY <1>2, <2>1 DEF PeerReads, RTypeOK
<1>3. CASE PeerConnects(c)
  BY <1>3, EmptySeq DEF PeerConnects, RTypeOK
<1> QED
  BY <1>1, <1>2, <1>3

LEMMA RInitTypes == RInit => RTypeOK
  BY EmptySeq, ReceiverAssumption DEF RInit, ServerInit, RTypeOK, Contents

LEMMA RTypesStep == RTypeOK /\ [RNext]_rvars => RTypeOK'
<1> SUFFICES ASSUME RTypeOK, [RNext]_rvars PROVE RTypeOK'
  OBVIOUS
<1>1. CASE UNCHANGED rvars
  BY <1>1 DEF rvars, RTypeOK
<1>2. CASE RNext
  BY <1>2, StepTypes, FaultTypes, PeerTypes DEF RNext
<1> QED
  BY <1>1, <1>2

\* The receiver's variables keep their types; in particular the counter of the
\* periodic sync stays below FSYNC_BLOCK_INTERVAL and g_pending_bytes is cleared
\* by every block.
THEOREM ReceiverTypes == RSpec => []RTypeOK
  BY RInitTypes, RTypesStep, PTL DEF RSpec

------------------------------------------------------------------------------
(***************************************************************************)
(* An acknowledgement means the block has been written.                    *)
(***************************************************************************)

\* The responses a receiver may have sent: those whose block is written.
WrittenOnly == {r \in Responses : r.type = "ack" => target[r.blk] # Blank}

AckInv == RTypeOK /\ resp \in [Conns -> Seq(WrittenOnly)]

LEMMA AckInvImplies == AckInv => AckMeansWritten
<1> SUFFICES ASSUME AckInv, NEW c \in Conns, NEW i \in 1 .. Len(resp[c])
             PROVE  resp[c][i].type = "ack" => target[resp[c][i].blk] # Blank
  BY DEF AckMeansWritten
<1>1. resp[c][i] \in WrittenOnly
  BY SeqElement DEF AckInv
<1> QED
  BY <1>1 DEF WrittenOnly

\* A block that is written stays written.
LEMMA WrittenGrows ==
  ASSUME RTypeOK, NEW b \in Blocks, NEW v \in Contents \ {Blank},
         target' \in {target, [target EXCEPT ![b] = v]}
  PROVE  WrittenOnly \subseteq WrittenOnly'
<1>1. \A a \in Blocks : target[a] # Blank => target'[a] # Blank
  BY DEF RTypeOK
<1>2. \A r \in Responses : r.type = "ack" => r.blk \in Blocks
  BY DEF Responses
<1> QED
  BY <1>1, <1>2 DEF WrittenOnly

LEMMA AckInvStep == AckInv /\ [RNext]_rvars => AckInv'
<1> SUFFICES ASSUME AckInv, [RNext]_rvars PROVE resp' \in [Conns -> Seq(WrittenOnly')]
  BY RTypesStep DEF AckInv
<1> RTypeOK /\ resp \in [Conns -> Seq(WrittenOnly)]
  BY DEF AckInv
<1>1. CASE UNCHANGED rvars
  BY <1>1 DEF rvars, WrittenOnly
<1>2. ASSUME NEW c \in Conns, RecvBlock(c) PROVE resp' \in [Conns -> Seq(WrittenOnly')]
  <2>1. PICK b \in Blocks, v \in Values :
          /\ target' = [target EXCEPT ![b] = v]
          /\ send_response(c, IF block_writer_pending_bytes >= BinlogLimit
                              THEN <<Ack(b), Binlog(b)>> ELSE <<Ack(b)>>)
    BY <1>2 DEF RecvBlock, block_writer_write
  <2>2. v \in Contents \ {Blank}
    BY DisksAssumption DEF Contents
  <2>3. resp \in [Conns -> Seq(WrittenOnly')]
    BY <2>1, <2>2, WrittenGrows, RespMono
  <2> DEFINE rs == IF block_writer_pending_bytes >= BinlogLimit
                   THEN <<Ack(b), Binlog(b)>> ELSE <<Ack(b)>>
  <2>4. Ack(b) \in WrittenOnly' /\ Binlog(b) \in WrittenOnly'
    BY <2>1, <2>2, ResponseTypes DEF WrittenOnly, Ack, Binlog, RTypeOK
  <2>5. rs \in Seq(WrittenOnly')
    BY <2>4
  <2>6. send_response(c, rs)
    BY <2>1
  <2> HIDE DEF rs
  <2> QED
    BY <2>3, <2>5, <2>6, RespondKeeps
<1>3. ASSUME NEW c \in Conns, RecvBlockFails(c)
      PROVE  resp' \in [Conns -> Seq(WrittenOnly')]
  <2>1. PICK b \in Blocks : target' \in {target, [target EXCEPT ![b] = Torn]}
                            /\ UNCHANGED resp
    BY <1>3 DEF RecvBlockFails
  <2>2. Torn \in Contents \ {Blank}
    BY DisksAssumption DEF Contents
  <2> QED
    BY <2>1, <2>2, WrittenGrows, RespMono
<1>4. ASSUME NEW c \in Conns, RecvEnd(c) PROVE resp' \in [Conns -> Seq(WrittenOnly')]
  <2>1. <<Done>> \in Seq(WrittenOnly)
    BY ResponseTypes DEF WrittenOnly, Done
  <2> QED
    BY <1>4, <2>1, RespondKeeps DEF RecvEnd, WrittenOnly
<1>5. ASSUME NEW c \in Conns, Break(c) PROVE resp' \in [Conns -> Seq(WrittenOnly')]
  <2>1. resp' \in [Conns -> Seq(WrittenOnly)]
    BY <1>5, BreakKeeps DEF RTypeOK
  <2> QED
    BY <1>5, <2>1 DEF Break, WrittenOnly
<1>6. ASSUME NEW c \in Conns, PeerReads(c) PROVE resp' \in [Conns -> Seq(WrittenOnly')]
  <2>1. Tail(resp[c]) \in Seq(WrittenOnly)
    BY <1>6, SeqTail DEF PeerReads
  <2> QED
    BY <1>6, <2>1 DEF PeerReads, WrittenOnly
<1>7. ASSUME NEW c \in Conns, RecvIncremental(c) \/ PeerSends(c) \/ PeerConnects(c)
      PROVE  resp' \in [Conns -> Seq(WrittenOnly')]
  BY <1>7, EmptySeq DEF RecvIncremental, PeerSends, PeerConnects, WrittenOnly
<1>8. ASSUME DropConnections PROVE resp' \in [Conns -> Seq(WrittenOnly')]
  BY <1>8, DropKeeps
<1> QED
  BY <1>1, <1>2, <1>3, <1>4, <1>5, <1>6, <1>7, <1>8
     DEF RNext, ReceiverStep, ServerExit, PowerLoss

\* No response names a block that still holds what it held before the migration,
\* whatever connections break, writes fail and machines lose power: handle_session
\* answers only after block_writer_write has succeeded, and a power loss takes the
\* responses that were on their way with it.
THEOREM AckedBlocksAreWritten == RSpec => []AckMeansWritten
<1>1. RInit => AckInv
  BY RInitTypes, EmptySeq DEF RInit, ServerInit, AckInv
<1> QED
  BY <1>1, AckInvStep, AckInvImplies, PTL DEF RSpec
------------------------------------------------------------------------------
(***************************************************************************)
(* SERVER_DONE covers what was acknowledged before it on its connection.   *)
(***************************************************************************)

\* Of the responses s, with d the contents of stable storage.
CoveredBy(s, d) ==
  \A i, j \in 1 .. Len(s) :
    i < j /\ s[i].type = "ack" /\ s[j].type = "done" => d[s[i].blk] # Blank

\* What is durable has been written before: a sync never takes a block back to
\* what it was before the migration.
DurableIsWritten == \A b \in Blocks : durable[b] # Blank => target[b] # Blank

DoneInv == AckInv /\ DurableIsWritten /\ \A c \in Conns : CoveredBy(resp[c], durable)

LEMMA DoneInvImplies == DoneInv => DoneCoversAcks
  BY DEF DoneInv, CoveredBy, DoneCoversAcks

LEMMA CoveredTail ==
  ASSUME NEW d, NEW s \in Seq(Responses), s # << >>, CoveredBy(s, d)
  PROVE  CoveredBy(Tail(s), d)
<1>1. Len(Tail(s)) = Len(s) - 1 /\ \A i \in 1 .. Len(Tail(s)) : Tail(s)[i] = s[i + 1]
  OBVIOUS
<1>2. \A i \in 1 .. Len(Tail(s)) : i + 1 \in 1 .. Len(s)
  BY <1>1
<1> QED
  BY <1>1, <1>2 DEF CoveredBy

LEMMA CoveredCut ==
  ASSUME NEW d, NEW s \in Seq(Responses), NEW t \in Cut(s), CoveredBy(s, d)
  PROVE  CoveredBy(t, d)
<1>1. PICK n \in 0 .. Len(s) : t = SubSeq(s, 1, n)
  BY DEF Cut
<1>2. Len(t) = n /\ \A i \in 1 .. n : t[i] = s[i]
  BY <1>1
<1> QED
  BY <1>2 DEF CoveredBy

\* More is durable now.
LEMMA CoveredGrows ==
  ASSUME NEW d, NEW e, NEW s \in Seq(Responses), CoveredBy(s, d),
         \A b \in Blocks : d[b] # Blank => e[b] # Blank
  PROVE  CoveredBy(s, e)
<1>1. \A i \in 1 .. Len(s) : s[i].type = "ack" => s[i].blk \in Blocks
  BY SeqElement DEF Responses
<1> QED
  BY <1>1 DEF CoveredBy

\* Responses other than SERVER_DONE may follow.
LEMMA CoveredMore ==
  ASSUME NEW d, NEW s \in Seq(Responses), NEW t \in Seq(Responses), CoveredBy(s, d),
         \A j \in 1 .. Len(t) : t[j].type # "done"
  PROVE  CoveredBy(s \o t, d)
<1> SUFFICES ASSUME NEW i \in 1 .. Len(s \o t), NEW j \in 1 .. Len(s \o t), i < j,
                    (s \o t)[i].type = "ack", (s \o t)[j].type = "done"
             PROVE  d[(s \o t)[i].blk] # Blank
  BY DEF CoveredBy
<1>1. CASE j <= Len(s)
  <2>1. (s \o t)[i] = s[i] /\ (s \o t)[j] = s[j] /\ i \in 1 .. Len(s) /\ j \in 1 .. Len(s)
    BY <1>1
  <2> QED
    BY <2>1 DEF CoveredBy
<1>2. CASE j > Len(s)
  <2>1. (s \o t)[j] = t[j - Len(s)] /\ j - Len(s) \in 1 .. Len(t)
    BY <1>2
  <2> QED
    BY <2>1
<1> QED
  BY <1>1, <1>2

\* SERVER_DONE may follow when every block acknowledged before it is durable.
LEMMA CoveredDone ==
  ASSUME NEW d, NEW s \in Seq(Responses),
         \A i \in 1 .. Len(s) : s[i].type = "ack" => d[s[i].blk] # Blank
  PROVE  CoveredBy(s \o <<Done>>, d)
<1>1. Len(s \o <<Done>>) = Len(s) + 1 /\ \A i \in 1 .. Len(s) : (s \o <<Done>>)[i] = s[i]
  OBVIOUS
<1> QED
  BY <1>1 DEF CoveredBy

\* A sync in which no disk fails leaves the contents of the files.
LEMMA FsyncAll ==
  ASSUME "fsync_error" \notin Faults, NEW t \in [Blocks -> Contents],
         block_writer_fsync_all(t)
  PROVE  durable' = t
  BY DEF block_writer_fsync_all, FsyncFailures

\* Handling a data block.
LEMMA DoneBlock ==
  ASSUME "fsync_error" \notin Faults, DoneInv, AckInv', NEW c \in Conns, RecvBlock(c)
  PROVE  DoneInv'
<1> RTypeOK /\ DurableIsWritten
  BY DEF DoneInv, AckInv
<1>1. PICK b \in Blocks, v \in Values :
        /\ block_writer_write(b, v)
        /\ send_response(c, IF block_writer_pending_bytes >= BinlogLimit
                            THEN <<Ack(b), Binlog(b)>> ELSE <<Ack(b)>>)
  BY DEF RecvBlock
<1> DEFINE rs == IF block_writer_pending_bytes >= BinlogLimit
                 THEN <<Ack(b), Binlog(b)>> ELSE <<Ack(b)>>
<1>2. /\ target' \in [Blocks -> Contents]
      /\ \A a \in Blocks : target[a] # Blank => target'[a] # Blank
  BY <1>1, DisksAssumption DEF block_writer_write, RTypeOK, Contents
<1>3. durable' = durable \/ durable' = target'
  BY <1>1, <1>2, FsyncAll DEF block_writer_write
<1>4. DurableIsWritten' /\ \A a \in Blocks : durable[a] # Blank => durable'[a] # Blank
  BY <1>2, <1>3 DEF DurableIsWritten
<1>5. rs \in Seq(Responses) /\ \A j \in 1 .. Len(rs) : rs[j].type # "done"
  BY ResponseTypes DEF Ack, Binlog
<1>6. send_response(c, rs)
  BY <1>1
<1> HIDE DEF rs
<1>7. ASSUME NEW a \in Conns PROVE CoveredBy(resp'[a], durable')
  <2>1. resp[a] \in Seq(Responses) /\ CoveredBy(resp[a], durable)
    BY DEF DoneInv, RTypeOK
  <2>2. CoveredBy(resp[a], durable') /\ CoveredBy(resp[a] \o rs, durable')
    BY <2>1, <1>4, <1>5, CoveredGrows, CoveredMore
  <2>3. resp'[a] \in {resp[a], resp[a] \o rs}
    BY <1>6 DEF send_response, RTypeOK
  <2> QED
    BY <2>2, <2>3
<1> QED
  BY <1>4, <1>7 DEF DoneInv

\* Handling ctlEndIncremental.
LEMMA DoneEnd ==
  ASSUME "fsync_error" \notin Faults, DoneInv, AckInv', NEW c \in Conns, RecvEnd(c)
  PROVE  DoneInv'
<1> RTypeOK /\ DurableIsWritten /\ AckMeansWritten
  BY AckInvImplies DEF DoneInv, AckInv
<1>1. durable' = target /\ target' = target /\ send_response(c, <<Done>>)
  BY FsyncAll DEF RecvEnd, RTypeOK
<1>2. ASSUME NEW a \in Conns PROVE CoveredBy(resp'[a], durable')
  <2>1. resp[a] \in Seq(Responses) /\ CoveredBy(resp[a], durable)
    BY DEF DoneInv, RTypeOK
  <2>2. CoveredBy(resp[a], durable')
    BY <2>1, <1>1, CoveredGrows DEF DurableIsWritten
  <2>3. CoveredBy(resp[a] \o <<Done>>, durable')
    BY <2>1, <1>1, CoveredDone DEF AckMeansWritten
  <2>4. resp'[a] \in {resp[a], resp[a] \o <<Done>>}
    BY <1>1 DEF send_response, RTypeOK
  <2> QED
    BY <2>2, <2>3, <2>4
<1> QED
  BY <1>1, <1>2 DEF DoneInv, DurableIsWritten

LEMMA DoneInvStep ==
  ASSUME "fsync_error" \notin Faults PROVE DoneInv /\ [RNext]_rvars => DoneInv'
<1> SUFFICES ASSUME DoneInv, [RNext]_rvars PROVE DoneInv'
  OBVIOUS
<1> AckInv' /\ RTypeOK /\ DurableIsWritten
  BY AckInvStep DEF DoneInv, AckInv
<1>0. \A a \in Conns : resp[a] \in Seq(Responses) /\ CoveredBy(resp[a], durable)
  BY DEF DoneInv, RTypeOK
<1>1. ASSUME NEW c \in Conns, RecvBlockFails(c) PROVE DoneInv'
  <2>1. UNCHANGED <<resp, durable>> /\ DurableIsWritten'
    BY <1>1, DisksAssumption DEF RecvBlockFails, DurableIsWritten, RTypeOK
  <2> QED
    BY <2>1 DEF DoneInv
<1>2. ASSUME UNCHANGED <<target, durable>>,
             \A a \in Conns : \/ resp'[a] = resp[a] \/ resp'[a] \in Cut(resp[a]) \/ resp'[a] = << >>
                              \/ resp[a] # << >> /\ resp'[a] = Tail(resp[a])
      PROVE  DoneInv'
  <2>1. CoveredBy(<< >>, durable)
    BY DEF CoveredBy
  <2>2. \A a \in Conns : CoveredBy(resp'[a], durable)
    BY <1>0, <1>2, <2>1, CoveredCut, CoveredTail
  <2> QED
    BY <1>2, <2>2 DEF DoneInv, DurableIsWritten
<1>3. ASSUME NEW c \in Conns, Break(c) \/ PeerReads(c) \/ PeerConnects(c) PROVE DoneInv'
  BY <1>2, <1>3 DEF Break, PeerReads, PeerConnects, RTypeOK
<1>4. ASSUME NEW c \in Conns, RecvIncremental(c) \/ PeerSends(c) PROVE DoneInv'
  BY <1>2, <1>4 DEF RecvIncremental, PeerSends
<1>5. CASE UNCHANGED rvars
  BY <1>2, <1>5 DEF rvars
<1>6. ASSUME DropConnections, durable' = target' PROVE DoneInv'
  BY <1>6 DEF DropConnections, DoneInv, DurableIsWritten, CoveredBy
<1>7. CASE ServerExit \/ PowerLoss
  BY <1>6, <1>7, FsyncAll DEF ServerExit, PowerLoss, RTypeOK
<1> QED
  BY <1>1, <1>3, <1>4, <1>5, <1>7, DoneBlock, DoneEnd DEF RNext, ReceiverStep

\* As long as no fsync fails, a SERVER_DONE on a connection says that every block
\* acknowledged before it on that connection is in stable storage, for any number
\* of connections served in any order and whatever fails otherwise.  The proof
\* needs that a sync never makes a block blank again.
THEOREM DoneIsDurable ==
  ASSUME "fsync_error" \notin Faults PROVE RSpec => []DoneCoversAcks
<1>1. RInit => DoneInv
  <2>1. RInit => AckInv
    BY RInitTypes, EmptySeq DEF RInit, ServerInit, AckInv
  <2> QED
    BY <2>1 DEF RInit, ServerInit, DoneInv, DurableIsWritten, CoveredBy
<1> QED
  BY <1>1, DoneInvStep, DoneInvImplies, PTL DEF RSpec

------------------------------------------------------------------------------
(***************************************************************************)
(* The client's pool.                                                      *)
(***************************************************************************)

Links == {"up", "broken", "closed"}

SlotType == slot \in [Slots -> Conns \cup {NoConn}]

\* The indices of the pool: next_index wraps round inside them.
LEMMA SlotFacts ==
  /\ 0 \in Slots
  /\ \A i \in Slots : After(i) \in Slots
  /\ \A i \in Slots : i < NConns
  BY ClientPoolAssumption DEF Slots, After

\* The connections pool_init makes are new and distinct.
LEMMA NewConnsFacts ==
  ASSUME NEW k, pool_init(k) PROVE NewConns \in [Slots -> Fresh] /\ Distinct(NewConns)
<1>1. \E f \in [Slots -> Fresh] : Distinct(f)
  BY DEF pool_init
<1> QED
  BY <1>1 DEF NewConns

LEMMA NewConnIsFresh ==
  ASSUME NEW k, pool_init(k), NEW i \in Slots
  PROVE  /\ NewConns[i] \in Conns
         /\ link[NewConns[i]] = "closed"
         /\ chan[NewConns[i]] = << >>
<1>1. NewConns[i] \in Fresh
  BY NewConnsFacts
<1> QED
  BY <1>1 DEF Fresh

LEMMA PoolInitKeeps ==
  ASSUME link \in [Conns -> Links], NEW k, pool_init(k)
  PROVE  SlotType' /\ link' \in [Conns -> Links]
<1>1. \A i \in Slots : NewConns[i] \in Conns
  BY NewConnIsFresh
<1> HIDE DEF NewConns
<1>2. SlotType'
  BY <1>1 DEF pool_init, SlotType
<1>3. link' \in [Conns -> Links]
  BY DEF pool_init, Links
<1> QED
  BY <1>2, <1>3

LEMMA AcquireKeeps ==
  ASSUME PoolTypeOK, link \in [Conns -> Links], NEW c \in Conns, pool_acquire(c)
  PROVE  PoolTypeOK' /\ link' \in [Conns -> Links]
<1>1. CASE AcquireOpen(c)
  BY <1>1, SlotFacts DEF AcquireOpen, PoolTypeOK
<1>2. CASE AcquireNew(c)
  <2>1. slot' \in [Slots -> Conns \cup {NoConn}] /\ next' \in Slots
    BY <1>2, SlotFacts DEF AcquireNew, PoolTypeOK
  <2>2. link' \in [Conns -> Links]
    BY <1>2 DEF AcquireNew, Links
  <2> QED
    BY <2>1, <2>2 DEF PoolTypeOK
<1> QED
  BY <1>1, <1>2 DEF pool_acquire

\* The connections of slots that are closed are closed, and what was to be read
\* from them is lost.
LEMMA CloseKeeps ==
  ASSUME SlotType, link \in [Conns -> Links],
         NEW T, resp \in [Conns -> Seq(T)], NEW S, CloseSlots(S)
  PROVE  SlotType' /\ link' \in [Conns -> Links] /\ resp' \in [Conns -> Seq(T)]
<1>1. SlotType'
  BY DEF CloseSlots, SlotType
<1>2. link' \in [Conns -> Links]
  BY DEF CloseSlots, Links
<1>3. resp' \in [Conns -> Seq(T)]
  BY EmptySeq DEF CloseSlots
<1> QED
  BY <1>1, <1>2, <1>3
=============================================================================
