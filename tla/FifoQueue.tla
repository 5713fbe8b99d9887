------------------------------ MODULE FifoQueue ------------------------------
(***************************************************************************)
(* What client/queue.h promises of the send queue: a bounded FIFO.  An     *)
(* item enters at the back, leaves from the front exactly once, and what   *)
(* leaves is what entered.  Confirmations (queue_ack) are invisible here.  *)
(* SendQueue, the ring buffer of client/queue.c, is checked against this.  *)
(***************************************************************************)
EXTENDS Naturals, Sequences

CONSTANTS
  Items,      \* what is queued
  Bound       \* how many items fit

VARIABLE fifo

FifoInit == fifo = << >>

FifoPush(x) == /\ Len(fifo) < Bound
               /\ fifo' = Append(fifo, x)

FifoPop == /\ fifo # << >>
           /\ fifo' = Tail(fifo)

FifoNext == (\E x \in Items : FifoPush(x)) \/ FifoPop

FifoSpec == FifoInit /\ [][FifoNext]_fifo
==============================================================================
