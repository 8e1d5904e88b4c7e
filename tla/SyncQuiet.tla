----------------------------- MODULE SyncQuiet -----------------------------
(***************************************************************************)
(* Cycles of a session during which nobody else touches either root: the   *)
(* state is the stored ancestor and the two trees, one step is one whole   *)
(* Cycle.Run.  Starting from every triple of trees covers every state two  *)
(* engineers can bring a settled session into between two cycles.  The     *)
(* same cycle with users, crashes and lost connections between its steps   *)
(* is SyncCycle.                                                           *)
(***************************************************************************)
EXTENDS SyncReconcile

CONSTANT Shown  \* Shown[p]: what the trees have at p

ASSUME ShownAssumption == Shown \in [Path -> SUBSET Node]

Side == {"local", "remote"}

VARIABLES base, tree

vars == <<base, tree>>

ShownTree == {t \in Tree : \A p \in Path : t[p] \in Shown[p]}

Init ==
  /\ base \in ShownTree
  /\ tree \in [Side -> ShownTree]

conflicts == Conflicts(base, tree["local"], tree["remote"])
toLocal   == ToLocal(base, tree["local"], tree["remote"])
toRemote  == ToRemote(base, tree["local"], tree["remote"])

\* tree.Transition over a batch: after[n] is where its first n changes, in the
\* order rank gives them, leave the root, the staging directory and the batch.
\* Everything the batch needs is staged before its first change.
Batch(t, changes) ==
  LET after[n \in 0..Cardinality(changes)] ==
        IF n = 0 THEN [tree |-> t, staged |-> DigestsNeeded(changes), left |-> changes]
        ELSE LET now == after[n - 1]
                 c   == CHOOSE d \in NextChanges(now.left) : TRUE
             IN  [tree   |-> applyChange(now.tree, now.staged, c),
                  staged |-> stagedAfter(now.tree, now.staged, c),
                  left   |-> now.left \ {c}]
  IN  after

Transition(t, changes) == Batch(t, changes)[Cardinality(changes)].tree

Cycle ==
  /\ tree' = [tree EXCEPT !["local"]  = Transition(@, toLocal),
                          !["remote"] = Transition(@, toRemote)]
  /\ base' = NewAncestor(base, tree["local"], tree["remote"])

Next == Cycle

Spec == Init /\ [][Next]_vars

-----------------------------------------------------------------------------

SameContentTwice(changes) ==
  \E c, d \in changes : /\ c # d
                        /\ {c.kind, d.kind} = {"CREATE_FILE"}
                        /\ c.node.digest = d.node.digest

Quarantined == UNION {Under(p) : p \in conflicts}

\* One undisturbed cycle brings the roots together everywhere but under the
\* conflicts, unless it has to create two files of one content, of which a
\* transition lands only the first (tree.createFile renames the staged copy).
OneCycleAgrees ==
  [][\/ SameContentTwice(toLocal) \/ SameContentTwice(toRemote)
     \/ \A p \in Path \ Quarantined : tree'["local"][p] = tree'["remote"][p]]_vars

\* Neither version of a quarantined path, nor anything inside it, is touched
\* (reconcile.go: "both versions survive").
ConflictsKeepBoth ==
  [][\A p \in Quarantined, s \in Side : tree'[s][p] = tree[s][p]]_vars

\* A file or link that one side has and the base does not is on some side after
\* the cycle: two-way-safe never trades new work for old.
NewWorkSurvives ==
  [][\A s \in Side, p \in Path :
       tree[s][p] \notin {Absent, Directory, base[p]} =>
         \E o \in Side : tree'[o][p] = tree[s][p]]_vars

Outstanding == Cardinality(toLocal) + Cardinality(toRemote)

\* Left alone, a session comes to rest: every cycle that still has something to
\* propagate leaves strictly less of it, so no two cycles undo each other, files
\* of one content and quarantined paths included.
EveryCycleProgresses ==
  [][Outstanding = 0 \/ Outstanding' < Outstanding]_vars
=============================================================================
