----------------------------- MODULE MCReceiver -----------------------------
(* The receiver on two connections and two blocks, with an arbitrary peer.  *)
EXTENDS Receiver

IdentityHash == [v \in Values \cup {Blank, Torn} |-> v]
==============================================================================
