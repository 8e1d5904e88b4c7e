--------------------------- MODULE SyncReconcile ---------------------------
(***************************************************************************)
(* Reconciliation of two scans against the ancestor, the state both sides  *)
(* were last seen to agree on (internal/sync/reconcile over the vendored   *)
(* mutagen core).  The code recurses over nested entries; here a path is   *)
(* decided by a formula over the whole trees, and SyncAgreement checks     *)
(* the two forms against each other.                                       *)
(*                                                                         *)
(* a is the ancestor (EmptyTree when none is stored), l and r are the      *)
(* local and the remote scan: mutagen's alpha and beta.                    *)
(***************************************************************************)
EXTENDS SyncTree

\* The recursion descends through directories both sides have.
Reached(l, r, p) == \A q \in Above[p] : l[q] = Directory /\ r[q] = Directory

Disagrees(l, r, p) == Reached(l, r, p) /\ l[p] # r[p]

\* diff(a, t) is empty at p and below.
Unchanged(a, t, p) == \A q \in Under(p) : t[q] = a[q]

\* Fault: the additions inside a directory are overlooked.
OnlyDeletedHere(a, t, p) == t[p] \in {Absent, a[p]}

\* diff(a, t) holds deletions only at p and below.
OnlyDeleted(a, t, p) == \A q \in Under(p) : t[q] \in {Absent, a[q]}

\* handleDisagreementBidirectional at a path both sides disagree on: the local
\* tree replaces the remote one, the other way round, or neither.
RemoteTakes(a, l, r, p) ==
  \/ Unchanged(a, r, p)
  \/ /\ ~Unchanged(a, l, p)
     /\ OnlyDeleted(a, r, p)
     /\ OnlyDeleted(a, l, p) => l[p] = Absent

LocalTakes(a, l, r, p) ==
  ~RemoteTakes(a, l, r, p) /\ OnlyDeleted(a, l, p)

Conflicts(a, l, r) ==
  {p \in Path : /\ Disagrees(l, r, p)
                /\ ~RemoteTakes(a, l, r, p)
                /\ ~LocalTakes(a, l, r, p)}

\* Fault: a path in disagreement is recorded as the local side shows it.
NewAncestorOfLocal(a, l, r) ==
  [p \in Path |-> IF Reached(l, r, p) THEN l[p] ELSE Absent]

\* The ancestor to record: what the scans agree on, and the old ancestor
\* wherever they disagree.
NewAncestor(a, l, r) ==
  [p \in Path |->
     IF \E q \in Above[p] \cup {p} : Disagrees(l, r, q) THEN a[p]
     ELSE IF Reached(l, r, p) THEN l[p]
     ELSE Absent]

-----------------------------------------------------------------------------
(***************************************************************************)
(* The changes a side applies.  Reconcile never hands flatten two          *)
(* directories, so only the root p of the replaced subtree is compared     *)
(* with what was there; the rest of the new subtree is created.            *)
(***************************************************************************)

OnlyChmod(old, new) ==
  old.kind = "file" /\ new.kind = "file" /\ old.digest = new.digest

\* Fault: an entry is not removed before one of another kind takes its place.
NoRemovals(old, new, p) == {}

Removals(old, new, p) ==
  IF old[p] # Absent /\ old[p].kind # new[p].kind
  THEN {ChangeOf("REMOVE", p, Absent)}
  ELSE {}

Creations(old, new, p) ==
  LET Made(kind) == {q \in Under(p) : new[q].kind = kind}
  IN  {ChangeOf("CREATE_DIRECTORY", q, new[q]) : q \in Made("directory")}
      \cup {ChangeOf("CREATE_SYMLINK", q, new[q]) : q \in Made("symlink")}
      \cup {ChangeOf(IF q = p /\ OnlyChmod(old[p], new[p])
                     THEN "SET_EXECUTABLE" ELSE "CREATE_FILE", q, new[q])
              : q \in Made("file")}

flatten(old, new, p) == Removals(old, new, p) \cup Creations(old, new, p)

ToRemote(a, l, r) ==
  UNION {flatten(r, l, p) :
           p \in {q \in Path : Disagrees(l, r, q) /\ RemoteTakes(a, l, r, q)}}

\* Fault: a conflict is recorded and falls through to the remote version.
ToLocalConflictsToo(a, l, r) ==
  UNION {flatten(l, r, p) :
           p \in {q \in Path : Disagrees(l, r, q) /\ ~RemoteTakes(a, l, r, q)}}

ToLocal(a, l, r) ==
  UNION {flatten(l, r, p) :
           p \in {q \in Path : Disagrees(l, r, q) /\ LocalTakes(a, l, r, q)}}

\* Removals first, the deepest first, then directories, the shallowest first,
\* then everything that lands inside them.
rank(c) ==
  LET depth == Cardinality(Above[c.path])
      last  == Cardinality(Path)
  IN  CASE c.kind = "REMOVE" -> last - depth
        [] c.kind = "CREATE_DIRECTORY" -> last + 1 + depth
        [] OTHER -> last + last + 1

\* The changes that may be applied next: mutagen ranges over maps, so changes
\* of one rank come in any order.
NextChanges(changes) == {c \in changes : \A d \in changes : rank(c) <= rank(d)}

DigestsNeeded(changes) == {c.node.digest : c \in {d \in changes : d.kind = "CREATE_FILE"}}
=============================================================================
