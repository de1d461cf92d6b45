--------------------------- MODULE ReplacingTable ---------------------------
(***************************************************************************)
(* A ClickHouse table ENGINE = ReplacingMergeTree(_version, _is_deleted)   *)
(* ORDER BY (primary key), seen through FINAL: per key the row with the    *)
(* highest _version, the last one inserted among equals.  The *_current    *)
(* view keeps the rows whose _is_deleted is 0.                             *)
(*                                                                         *)
(* A key that has no row and a key with no row yet are the same cell,      *)
(* Absent; a batch of rows is a table whose missing keys are Absent.  No   *)
(* row ch-sync writes equals Absent: snapshot rows are live and tombstones *)
(* carry the positive version of the delete.                               *)
(***************************************************************************)
EXTENDS ChangeTracking

Cell == [ver : Nat, val : Nat, live : BOOLEAN]

Absent == [ver |-> 0, val |-> 0, live |-> FALSE]

Empty == [k \in Keys |-> Absent]

Rows == [Keys -> Cell]

\* The keys a batch has a row for.
KeysOf(batch) == {k \in Keys : batch[k] # Absent}

\* The rows of a batch whose key is in S.
Only(batch, S) == [k \in Keys |-> IF k \in S THEN batch[k] ELSE Absent]

\* A mutated form: the newest insert wins whatever its version.
UpsertLastWins(rows, batch) ==
    [k \in Keys |-> IF batch[k] # Absent THEN batch[k] ELSE rows[k]]

\* Insert a batch: ReplacingMergeTree keeps the highest _version per key and,
\* between equal versions, the row inserted last.
Upsert(rows, batch) ==
    [k \in Keys |-> IF batch[k] # Absent /\ batch[k].ver >= rows[k].ver
                    THEN batch[k] ELSE rows[k]]

\* The view shows key k exactly as the source has it now.
Agrees(rows, k) ==
    /\ rows[k].live = row[k].live
    /\ row[k].live => rows[k].val = row[k].ver

\* The view agrees with the source on every key no commit after v has touched.
Complete(rows, v) == \A k \in Keys : row[k].ver <= v => Agrees(rows, k)
=============================================================================
