--------------------------- MODULE MCConnections ----------------------------
(* A pool of two connections against a receiver that takes two.             *)
EXTENDS Connections
=============================================================================
