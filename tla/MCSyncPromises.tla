---------------------------- MODULE MCSyncPromises ----------------------------
(* Small instances of SyncPromises for TLC. *)
EXTENDS SyncPromises, MCTrees
=============================================================================
