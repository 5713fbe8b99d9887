----------------------------- MODULE MCIncSync -----------------------------
(* Two connections at a time, identities enough for late frames, and blocks *)
(* enough to reach backpressure and to leave entries for the drain.         *)
EXTENDS IncSync

CONSTANTS b1, b2, b3

IdentityHash == [v \in Contents |-> v]
ThreeBlocks == <<b1, b2, b3>>
ThreeConns == 0 .. 2

\* Contents are told apart block by block, so it does not matter which they are.
Uniform == {[b \in Blocks |-> v] : v \in {CHOOSE w \in Values : TRUE}}
==============================================================================
