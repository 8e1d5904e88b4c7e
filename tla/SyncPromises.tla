---------------------------- MODULE SyncPromises ----------------------------
(***************************************************************************)
(* What comments of workspace sync promise and the code does not do.  The  *)
(* steps are those of SyncCycle; a history variable remembers what users   *)
(* wrote.  Each property quotes its source and each run of this module     *)
(* ends in a counterexample.                                               *)
(***************************************************************************)
EXTENDS SyncCycle

VARIABLE fresh  \* fresh[s]: files and links s's user wrote, unknown to the other side

StillFresh(s) ==
  {p \in fresh[s] : tree'[s][p] = tree[s][p] /\ tree'[Other(s)][p] # tree'[s][p]}

FreshAfterEdit(s, p, node) ==
  (fresh[s] \ Under(p)) \cup
    (IF node \in {Absent, Directory} \/ tree[Other(s)][p] = node THEN {} ELSE {p})

PromiseEdit ==
  \E s \in Side, p \in Path, node \in Written :
    /\ UserEdit(s, p, node)
    /\ fresh' = [fresh EXCEPT ![s] = FreshAfterEdit(s, p, node)]

PromiseStep ==
  /\ Next
  /\ edits' = edits
  /\ fresh' = [s \in Side |-> StillFresh(s)]

PromiseInit == Init /\ fresh = NoWork

PromiseNext == PromiseEdit \/ PromiseStep

PromiseSpec == PromiseInit /\ [][PromiseNext]_<<vars, fresh>>

-----------------------------------------------------------------------------

\* cycle.go:68-70: "A wiped or unrecognized remote root halts before anything is
\* read or written. A sandbox terminated by TTL returns an empty /workspace, and
\* mirroring that would delete the engineer's work".  No user deletes anything.
WipedRootRemovesNothing == [][EngineStep => \A s \in Side : ~Loses(s)]_vars

\* sandbox_sync_manage.go:238-240: after a resolve "the side being kept wins
\* because the other has nothing newer to claim".  A path resolved before the
\* cycle loaded its base is on the disk no longer and in the daemon's copy still.
ResolvedWins ==
  [][EngineStep /\ phase = "commit" /\ base = EmptyTree =>
       remembered' \cap (remembered \ quarantine) = {}]_vars

\* reconcile.go:20-22: a path changed on both sides conflicts; "the alternative
\* resolves by policy and silently discards work".
NoWorkDiscarded ==
  [][EngineStep =>
       \A s \in Side : \A p \in fresh[s] : tree'[s][p] = tree[s][p]]_vars
=============================================================================
