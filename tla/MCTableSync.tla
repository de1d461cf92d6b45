---------------------------- MODULE MCTableSync ----------------------------
(* TableSync for TLC: workers are interchangeable model values. *)
EXTENDS TableSyncReplica, TableSyncOrphans, TLC

WorkerSymmetry == Permutations(Workers)
=============================================================================
