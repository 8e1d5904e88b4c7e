-------------------------- MODULE SyncReconcileRef --------------------------
(***************************************************************************)
(* The reference definition of reconciliation: the recursion of the        *)
(* vendored mutagen core over nested entries, call by call, with diff,     *)
(* Apply and the CLI's flatten.  The formulas of SyncReconcile are         *)
(* compared with it.                                                       *)
(*                                                                         *)
(* An entry is a function on places: what is at a place and below it is    *)
(* the nested entry the code would hold there.  Each recursive function of *)
(* the code is a recursive function on places, for entries that are given. *)
(***************************************************************************)
EXTENDS SyncReconcile

CONSTANT Root  \* the place of a synchronization root, "" in the code

ASSUME RootAssumption == Root \notin Path

Place == Path \cup {Root}

Up(p) == IF p = Root THEN {} ELSE Above[p] \cup {Root}
Children(p) == {q \in Path : Up(q) = Up(p) \cup {p}}

Nil == [p \in Place |-> Absent]

\* treeFrom: the nested entry a flat scan describes.
treeFrom(t) == [p \in Place |-> IF p = Root THEN Directory ELSE t[p]]

GetContents(e, p) == {q \in Children(p) : e[q] # Absent}

\* The places of the changes that turn base into target, topmost differing
\* entries only.
diff(base, target) ==
  LET at[p \in Place] ==
        IF target[p] # base[p] THEN {p}
        ELSE UNION {at[q] : q \in GetContents(base, p) \cup GetContents(target, p)}
  IN  at

extractNonDeletionChanges(changes, target) == {p \in changes : target[p] # Absent}

Nothing == [ancestor |-> {}, alpha |-> {}, beta |-> {}, conflicts |-> {}]

ToAlpha(p, old, new) == [Nothing EXCEPT !.alpha = {[path |-> p, old |-> old, new |-> new]}]
ToBeta(p, old, new)  == [Nothing EXCEPT !.beta  = {[path |-> p, old |-> old, new |-> new]}]
ToNeither(p) == [Nothing EXCEPT !.conflicts = {p}]

handleDisagreementBidirectional(p, ancestor, alpha, beta) ==
  LET alphaDiff == diff(ancestor, alpha)[p]
      betaDiff  == diff(ancestor, beta)[p]
      alphaNew  == extractNonDeletionChanges(alphaDiff, alpha)
      betaNew   == extractNonDeletionChanges(betaDiff, beta)
  IN  IF betaDiff = {} THEN ToBeta(p, ancestor, alpha)
      ELSE IF alphaDiff = {} THEN ToAlpha(p, ancestor, beta)
      ELSE IF alphaNew = {} /\ betaNew = {}
           THEN IF alpha[p] = Absent THEN ToBeta(p, beta, Nil) ELSE ToAlpha(p, alpha, Nil)
      ELSE IF betaNew = {} THEN ToBeta(p, beta, alpha)
      ELSE IF alphaNew = {} THEN ToAlpha(p, alpha, beta)
      ELSE ToNeither(p)

\* What several calls append to the four lists.
Join(found) ==
  [ancestor  |-> UNION {x.ancestor : x \in found},
   alpha     |-> UNION {x.alpha : x \in found},
   beta      |-> UNION {x.beta : x \in found},
   conflicts |-> UNION {x.conflicts : x \in found}]

\* A change of the ancestor at p leaves node there and nothing inside.  Below a
\* place that becomes a directory the old ancestor has nothing, so the code passes
\* nil on for ancestor[q].
ToAncestor(p, node) == [Nothing EXCEPT !.ancestor = {[path |-> p, new |-> node]}]

reconcile(ancestor, alpha, beta) ==
  LET at[p \in Place] ==
        IF alpha[p] = Absent /\ beta[p] = Absent
        THEN IF ancestor[p] = Absent THEN Nothing ELSE ToAncestor(p, Absent)
        ELSE IF alpha[p] # beta[p]
        THEN handleDisagreementBidirectional(p, ancestor, alpha, beta)
        ELSE LET changed == ancestor[p] # alpha[p]
                 own     == IF changed THEN ToAncestor(p, alpha[p]) ELSE Nothing
                 names   == (IF changed THEN {} ELSE GetContents(ancestor, p))
                            \cup GetContents(alpha, p) \cup GetContents(beta, p)
             IN  Join({own} \cup {at[q] : q \in names})
  IN  at

\* Apply: a change replaces what is at its path and all below it.  The recursion
\* records a place before what is inside it, so changes below come later.
Apply(base, changes) ==
  [q \in Place |->
     IF \E c \in changes : c.path = q THEN (CHOOSE c \in changes : c.path = q).new
     ELSE IF \E c \in changes : c.path \in Up(q) THEN Absent
     ELSE base[q]]

\* Apply returns an error unless it finds the parents of every change.
ParentsFound(base, changes) ==
  \A c \in changes : \A q \in Up(c.path) : Apply(base, changes)[q] # Absent

flattenEntry(old, new) ==
  LET at[p \in Place] ==
        LET bothDirectories == old[p] = Directory /\ new[p] = Directory
            oldContents == IF bothDirectories THEN GetContents(old, p) ELSE {}
            removed == IF p # Root /\ old[p] # Absent /\ old[p].kind # new[p].kind
                       THEN {ChangeOf("REMOVE", p, Absent)} ELSE {}
            made ==
              CASE new[p].kind = "directory" ->
                     (IF p = Root \/ bothDirectories THEN {}
                      ELSE {ChangeOf("CREATE_DIRECTORY", p, Directory)})
                     \cup (UNION {at[q] : q \in GetContents(new, p)})
                     \cup {ChangeOf("REMOVE", q, Absent) : q \in oldContents \ GetContents(new, p)}
                [] new[p].kind = "file" ->
                     IF old[p].kind = "file" /\ old[p].digest = new[p].digest
                     THEN IF old[p].executable # new[p].executable
                          THEN {ChangeOf("SET_EXECUTABLE", p, new[p])} ELSE {}
                     ELSE {ChangeOf("CREATE_FILE", p, new[p])}
                [] new[p].kind = "symlink" ->
                     IF old[p] = new[p] THEN {} ELSE {ChangeOf("CREATE_SYMLINK", p, new[p])}
                [] OTHER -> {}
        IN  removed \cup made
  IN  at

changesFrom(changes) == UNION {flattenEntry(c.old, c.new)[c.path] : c \in changes}

\* The old ancestor stays if Apply fails.
Reconcile(ancestor, l, r) ==
  LET found == reconcile(ancestor, treeFrom(l), treeFrom(r))[Root]
  IN  [toLocal   |-> changesFrom(found.alpha),
       toRemote  |-> changesFrom(found.beta),
       conflicts |-> found.conflicts,
       ancestor  |-> IF ParentsFound(ancestor, found.ancestor)
                     THEN Apply(ancestor, found.ancestor) ELSE ancestor]
=============================================================================
