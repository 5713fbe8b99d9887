---------------------------- MODULE MCSocketPool ----------------------------
(* The connection pool with three slots.                                    *)
EXTENDS SocketPool
==============================================================================
