----------------------------- MODULE MCFraming ------------------------------
(* A connection on which headers, bodies and responses of two units arrive  *)
(* in any pieces, and blocks whose numbers take every MessagePack form.     *)
EXTENDS Framing

MCKinds == {"data", "incremental", "end", "junk"}

MCBodyLen == [k \in MCKinds |-> IF k = "data" THEN 2 ELSE 1]

Zero8 == <<0, 0, 0, 0, 0, 0, 0, 0>>

Block(d, o, n) == [devno |-> d, offset |-> o, len |-> n]

\* A full block far out on disk 0, and the limits of each encoding.
MCPayloads ==
  {Block(d, <<0, 0, 1, 255, 128, 16, 0, 0>>, 1048576) :
     d \in {0, 15, 127, 128, 255, 256, 32767, 32768, 2147483647, -1, -32, -33, -128, -129,
           -32768, -32769, -2147483647 - 1}}
  \cup {Block(0, Zero8, n) : n \in {1, 255, 256, 65535, 65536}}
=============================================================================
