--------------------------- MODULE SyncAgreement ---------------------------
(***************************************************************************)
(* The formulas of SyncReconcile against the recursion of SyncReconcileRef *)
(* in every state of SyncQuiet.                                            *)
(***************************************************************************)
EXTENDS SyncQuiet, SyncReconcileRef

\* The formulas of SyncReconcile say what the recursive algorithm computes, and
\* a missing base is reconciled like an empty one (core.Reconcile, core.Apply,
\* reconcile.flatten).
AgreesWithRecursion ==
  LET l == tree["local"]
      r == tree["remote"]
      decided == [toLocal   |-> toLocal,
                  toRemote  |-> toRemote,
                  conflicts |-> conflicts,
                  ancestor  |-> treeFrom(NewAncestor(base, l, r))]
  IN  /\ Reconcile(treeFrom(base), l, r) = decided
      /\ base = EmptyTree => Reconcile(Nil, l, r) = decided
=============================================================================
