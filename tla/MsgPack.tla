------------------------------ MODULE MsgPack -------------------------------
(***************************************************************************)
(* The MessagePack encoding of a block (client/msgpack.c) and its decoder  *)
(* (server/protocol_decoder.c).                                            *)
(*                                                                         *)
(* A message is the bytes in front of the data and the number of data      *)
(* bytes behind them; the data are carried as they are.  devno is an       *)
(* int32_t; offset, an int64_t, is the sequence of its eight bytes, since  *)
(* the encoder always writes all of them.                                  *)
(***************************************************************************)
EXTENDS Integers, Sequences

\* The blocks that can be sent.
Int32s == {v \in Int : -2147483647 - 1 <= v /\ v <= 2147483647}
Bytes8 == [1 .. 8 -> 0 .. 255]

Int8 == 208       \* MSGPACK_INT8 ... MSGPACK_INT64
Int16 == 209
Int32 == 210
Int64 == 211
Bin8 == 196       \* MSGPACK_BIN8 ... MSGPACK_BIN32
Bin16 == 197
Bin32 == 198
Fixmap3 == 147    \* MSGPACK_FIXMAP_3

\* The bytes of v in two's complement, the lowest first.
Byte0(v) == v % 256
Byte1(v) == (v \div 256) % 256
Byte2(v) == (v \div 65536) % 256
Byte3(v) == (v \div 16777216) % 256

\* Mutant: the largest negative fixint is taken for an int8 tag's range.
msgpack_write_int32_wide_fixint(v) ==
  IF -48 <= v /\ v <= 127 THEN <<Byte0(v)>>
  ELSE IF -128 <= v /\ v <= 127 THEN <<Int8, Byte0(v)>>
  ELSE IF -32768 <= v /\ v <= 32767 THEN <<Int16, Byte1(v), Byte0(v)>>
  ELSE <<Int32, Byte3(v), Byte2(v), Byte1(v), Byte0(v)>>

\* The shortest encoding.
msgpack_write_int32(v) ==
  IF -32 <= v /\ v <= 127 THEN <<Byte0(v)>>
  ELSE IF -128 <= v /\ v <= 127 THEN <<Int8, Byte0(v)>>
  ELSE IF -32768 <= v /\ v <= 32767 THEN <<Int16, Byte1(v), Byte0(v)>>
  ELSE <<Int32, Byte3(v), Byte2(v), Byte1(v), Byte0(v)>>

msgpack_write_int64(bytes) == <<Int64>> \o bytes

\* The header of n data bytes.
msgpack_write_bin(n) ==
  IF n < 256 THEN <<Bin8, Byte0(n)>>
  ELSE IF n < 65536 THEN <<Bin16, Byte1(n), Byte0(n)>>
  ELSE <<Bin32, Byte3(n), Byte2(n), Byte1(n), Byte0(n)>>

msgpack_encode_block(b) ==
  [head |-> <<Fixmap3, 0>> \o msgpack_write_int32(b.devno)
              \o <<1>> \o msgpack_write_int64(b.offset)
              \o <<2>> \o msgpack_write_bin(b.len),
   data |-> b.len]

Signed(byte) == IF byte < 128 THEN byte ELSE byte - 256

Unreadable == [size |-> 0, bytes |-> << >>]

\* msgpack_read_int at position p: the bytes it takes, and the two's complement
\* of what it returns, highest byte first and sign-extended by the reader.
msgpack_read_int(s, p) ==
  LET tag == s[p]
      width == CASE tag = Int8 -> 1 [] tag = Int16 -> 2 [] tag = Int32 -> 4
                 [] tag = Int64 -> 8 [] OTHER -> 0
  IN  IF tag <= 127 \/ tag >= 224 THEN [size |-> 1, bytes |-> <<tag>>]
      ELSE IF width = 0 \/ p + width > Len(s) THEN Unreadable
      ELSE [size |-> 1 + width, bytes |-> SubSeq(s, p + 1, p + width)]

\* What the reader returned, as an int32_t: of more than four bytes the last.
ToInt32(bs) ==
  LET n == Len(bs) IN
  CASE n = 1 -> Signed(bs[1])
    [] n = 2 -> 256 * Signed(bs[1]) + bs[2]
    [] OTHER -> 16777216 * Signed(bs[n - 3]) + 65536 * bs[n - 2] + 256 * bs[n - 1] + bs[n]

\* The length behind a bin tag at p, and the bytes the header takes.
ReadBin(s, p) ==
  LET width == CASE s[p] = Bin8 -> 1 [] s[p] = Bin16 -> 2 [] s[p] = Bin32 -> 4 [] OTHER -> 0
      length == CASE width = 1 -> s[p + 1]
                  [] width = 2 -> 256 * s[p + 1] + s[p + 2]
                  [] OTHER -> 16777216 * s[p + 1] + 65536 * s[p + 2] + 256 * s[p + 3] + s[p + 4]
  IN  IF width = 0 \/ p + width > Len(s) THEN [size |-> 0, len |-> 0]
      ELSE [size |-> 1 + width, len |-> length]

Malformed == [devno |-> 0, offset |-> << >>, len |-> -1]

\* Keys 0, 1 and 2 in this order, and no more data announced than received.
msgpack_decode_block(m) ==
  LET s == m.head
      dev == msgpack_read_int(s, 3)
      off == msgpack_read_int(s, 4 + dev.size)
      p == 5 + dev.size + off.size
      bin == ReadBin(s, p)
  IN  IF /\ s[1] = Fixmap3 /\ s[2] = 0
         /\ dev.size > 0 /\ s[3 + dev.size] = 1
         /\ off.size > 0 /\ s[4 + dev.size + off.size] = 2
         /\ bin.size > 0 /\ p - 1 + bin.size + bin.len <= Len(s) + m.data
      THEN [devno |-> ToInt32(dev.bytes), offset |-> off.bytes, len |-> bin.len]
      ELSE Malformed
=============================================================================
