---------------------------- MODULE MCSyncCycle ----------------------------
(* Small instances of SyncCycle for TLC. *)
EXTENDS SyncCycle, MCTrees
=============================================================================
