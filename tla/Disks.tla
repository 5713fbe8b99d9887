------------------------------- MODULE Disks -------------------------------
(***************************************************************************)
(* What the two machines agree on: blocks, their contents and their hash.  *)
(* A block is a (devno, offset) pair; contents are abstract values.        *)
(***************************************************************************)
EXTENDS Integers, Sequences

CONSTANTS
  Blocks,         \* (devno, offset) pairs
  Values,         \* what a source block may contain
  Blank,          \* what a target block contains before it is written
  Torn,           \* what a failed write may leave behind
  HashOf          \* hash_block: the hash of every content

\* Contents of a target block.
Contents == Values \cup {Blank, Torn}

\* hash_block need not be injective: it leaves out the last 32 bytes of a block
\* and has 64 bits.
Hashes == {HashOf[v] : v \in Contents}

ASSUME DisksAssumption ==
  /\ Blank \notin Values
  /\ Torn \notin Values
  /\ Torn # Blank
  /\ HashOf \in [Contents -> Hashes]
==============================================================================
