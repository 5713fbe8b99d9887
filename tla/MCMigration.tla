---------------------------- MODULE MCMigration ----------------------------
(* Small disks, plans and sets of connections for the model checker.        *)
EXTENDS Migration

CONSTANTS b1, b2

IdentityHash == [v \in Contents |-> v]

Step(b, g) == [blk |-> b, gpt |-> g]

\* Two blocks of a partition, sent once each.
PlainPlan == <<Step(b1, FALSE), Step(b2, FALSE)>>

\* A partition block and a GPT block outside every partition.
GptPlan == <<Step(b1, FALSE), Step(b2, TRUE)>>

\* A GPT block that is also a block of the partition.
OverlapPlan == <<Step(b1, FALSE), Step(b2, FALSE), Step(b1, TRUE)>>

\* Connections are numbered in the order in which they are made.
OneConn == {0}
TwoConns == 0 .. 1
ThreeConns == 0 .. 2
FourConns == 0 .. 3
==============================================================================
