----------------------------- MODULE MCSendQueue -----------------------------
(* The send queue on a ring of three slots.                                 *)
EXTENDS SendQueue
==============================================================================
