----------------------------- MODULE BlockTable -----------------------------
(***************************************************************************)
(* The client's tracking database (client/sqlite.c): T_BLOCK, one row per  *)
(* block keyed by (devno, offset), and the highest round number recorded   *)
(* in T_VERSION.  Each operator is one SQL statement, committed on its     *)
(* own, so the table survives a crash of the client.                       *)
(***************************************************************************)
EXTENDS Disks

CONSTANTS
  NoHash,         \* marks a block without a row
  RemoteId        \* "ip:port" of the receiver, stored in every row

VARIABLES
  rows,           \* T_BLOCK
  maxVersion      \* MAX(version) of T_VERSION, 0 when it is empty

NoRow == [ack |-> 0, hash |-> NoHash, version |-> 0, sent |-> FALSE, remote |-> ""]

\* sent stands for last_sent > 0.
Rows == [ack : {0, 1}, hash : Hashes \cup {NoHash}, version : Nat,
         sent : BOOLEAN, remote : {"", RemoteId}]

TableInit == rows = [b \in Blocks |-> NoRow] /\ maxVersion = 0

HasRow(b) == rows[b].hash # NoHash

sqlite_block_acked(b) == HasRow(b) /\ rows[b].ack = 1

sqlite_block_lookup(b, h) == HasRow(b) /\ rows[b].hash = h

\* Mutant: the row is written as if it had been confirmed.
upsert_v_confirmed(b, h, v) ==
  rows' = [rows EXCEPT ![b] = [ack |-> 1, hash |-> h, version |-> v,
                               sent |-> FALSE, remote |-> RemoteId]]

\* INSERT OR REPLACE: clears last_sent along with ack.
sqlite_block_upsert_v(b, h, v) ==
  rows' = [rows EXCEPT ![b] = [ack |-> 0, hash |-> h, version |-> v,
                               sent |-> FALSE, remote |-> RemoteId]]

\* Mutant: a resent block keeps the hash of what was sent before.
UpsertSent_old_hash(b, h, v) ==
  rows' = [rows EXCEPT ![b] = [@ EXCEPT !.ack = 0, !.version = v, !.sent = TRUE]]

\* The same followed by sqlite_update_last_sent.
UpsertSent(b, h, v) ==
  rows' = [rows EXCEPT ![b] = [ack |-> 0, hash |-> h, version |-> v,
                               sent |-> TRUE, remote |-> RemoteId]]

\* UPDATE ... SET ack=1: no row, no effect; the hash is not consulted.
sqlite_block_mark_acked(b) ==
  rows' = IF HasRow(b) THEN [rows EXCEPT ![b].ack = 1] ELSE rows

\* A round found the block unchanged: mark_verified (or mark_acked while the
\* round has no number), then sqlite_update_last_sent.
MarkStable(b, v) ==
  LET row == rows[b]
  IN rows' = [rows EXCEPT ![b] = [row EXCEPT !.ack = 1, !.sent = TRUE,
                                     !.version = IF v > 0 THEN v ELSE row.version]]

sqlite_get_unacked(remote) ==
  {b \in Blocks : HasRow(b) /\ rows[b].ack = 0 /\ rows[b].remote = remote}

sqlite_count_unacked_v(before) ==
  {b \in sqlite_get_unacked(RemoteId) : rows[b].version < before}

sqlite_version_start(v) == maxVersion' = IF v > maxVersion THEN v ELSE maxVersion

sqlite_get_next_version == maxVersion + 1

TableTypeOK == rows \in [Blocks -> Rows] /\ maxVersion \in Nat
==============================================================================
