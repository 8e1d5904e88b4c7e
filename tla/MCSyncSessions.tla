--------------------------- MODULE MCSyncSessions ---------------------------
(* A small instance of SyncSessions for TLC. *)
EXTENDS SyncSessions

\* Two sessions of nested roots, for two sandboxes.
Nested == [i \in Id |-> Id]
OwnSandbox == [i \in Id |-> IF i = "work" THEN "box" ELSE "other"]
=============================================================================
