------------------------ MODULE SyncReconcileProofs ------------------------
(***************************************************************************)
(* What the operators of SyncTree and SyncReconcile promise, for every set *)
(* of paths and every pair of scans.                                       *)
(***************************************************************************)
EXTENDS SyncReconcile, FiniteSetTheorems, TLAPS

-----------------------------------------------------------------------------
(* Nodes and paths.                                                        *)

\* The kind tells the sorts of nodes apart.
LEMMA NodeKinds ==
  ASSUME NEW n \in Node
  PROVE  /\ n.kind = "absent" <=> n = Absent
         /\ n.kind = "directory" <=> n = Directory
         /\ n.kind = "file" <=> n \in File
         /\ n.kind = "symlink" <=> n \in Symlink
BY DEF Node, Absent, Directory, File, Symlink

\* Nothing and a directory are nodes, and differ.
LEMMA PlainNodes ==
  /\ Absent \in Node
  /\ Directory \in Node
  /\ Absent # Directory
  /\ File \subseteq Node
  /\ Symlink \subseteq Node
BY DEF Node, Absent, Directory

\* A path is in its own subtree, and subtrees are closed downwards.
LEMMA UnderClosed ==
  ASSUME NEW p \in Path, NEW q \in Under(p)
  PROVE  /\ p \in Under(p)
         /\ q \in Path
         /\ Under(q) \subseteq Under(p)
BY PathAssumption DEF Under

\* Two subtrees that share a path are nested.
LEMMA UnderNested ==
  ASSUME NEW p \in Path, NEW k \in Path, NEW q \in Path,
         q \in Under(p), q \in Under(k)
  PROVE  p \in Under(k) \/ k \in Under(p)
BY PathAssumption DEF Under

-----------------------------------------------------------------------------
(* The root after a change.                                                *)

LEMMA EmptyTreeIsTree == EmptyTree \in Tree
BY PlainNodes DEF Tree, EmptyTree

LEMMA MkdirAllIsTree ==
  ASSUME NEW t \in Tree, NEW p \in Path, NEW dirs,
         dirs = Above[p] \/ dirs = Above[p] \cup {p},
         CanMkdirAll(t, dirs)
  PROVE  MkdirAll(t, dirs) \in Tree
BY PathAssumption, PlainNodes DEF Tree, MkdirAll, CanMkdirAll

\* Removing a subtree leaves a tree.
LEMMA RemoveAllIsTree ==
  ASSUME NEW t \in Tree, NEW p \in Path
  PROVE  RemoveAll(t, p) \in Tree
BY PathAssumption, PlainNodes DEF Tree, RemoveAll, Under

\* A node lands at a path that is not a directory with something in it.
LEMMA LandIsTree ==
  ASSUME NEW t \in Tree, NEW c \in Change,
         CanMkdirAll(t, Above[c.path]),
         t[c.path] # Directory \/ \A q \in Under(c.path) \ {c.path} : t[q] = Absent
  PROVE  Land(t, c) \in Tree
<1> c.path \in Path /\ c.node \in Node
  BY PlainNodes DEF Change
<1> DEFINE m == MkdirAll(t, Above[c.path])
<1>1. m \in Tree
  BY MkdirAllIsTree
<1>2. \A q \in Under(c.path) \ {c.path} : m[q] = Absent
  <2> SUFFICES ASSUME NEW q \in Under(c.path) \ {c.path}
               PROVE  m[q] = Absent
    OBVIOUS
  <2>1. q \in Path /\ c.path \in Above[q] /\ q \notin Above[c.path]
    BY PathAssumption DEF Under
  <2>2. t[q] = Absent
    BY <2>1 DEF Tree
  <2> QED BY <2>1, <2>2 DEF MkdirAll
<1>3. \A q \in Above[c.path] : m[q] = Directory /\ q # c.path
  BY PathAssumption DEF MkdirAll
<1>4. Land(t, c) = [m EXCEPT ![c.path] = c.node]
  BY DEF Land
<1>5. ASSUME NEW p \in Path, Land(t, c)[p] # Absent, NEW q \in Above[p]
      PROVE  Land(t, c)[q] = Directory
  <2> HIDE DEF m
  <2>1. q \in Path /\ p # q
    BY PathAssumption
  <2>2. CASE p = c.path
    BY <1>1, <1>3, <1>4, <2>1, <2>2 DEF Tree
  <2>3. CASE p # c.path
    <3>1. m[p] # Absent /\ m[q] = Directory
      BY <1>1, <1>4, <1>5, <2>3 DEF Tree
    <3>2. q # c.path
      BY <1>2, <2>3, <3>1 DEF Under
    <3> QED BY <1>1, <1>4, <2>1, <3>1, <3>2 DEF Tree
  <2> QED BY <2>2, <2>3
<1>6. Land(t, c) \in [Path -> Node]
  BY <1>1, <1>4 DEF Tree
<1> QED BY <1>5, <1>6 DEF Tree

\* Whatever a change does, it leaves a tree.
LEMMA ApplyIsTree ==
  ASSUME NEW t \in Tree, NEW st, NEW c \in Change
  PROVE  applyChange(t, st, c) \in Tree
<1> c.path \in Path
  BY DEF Change
<1>1. CASE c.kind = "REMOVE"
  BY <1>1, RemoveAllIsTree DEF applyChange
<1>2. CASE c.kind = "CREATE_DIRECTORY"
  BY <1>2, MkdirAllIsTree DEF applyChange
<1>3. CASE c.kind = "CREATE_FILE"
  BY <1>3, LandIsTree DEF applyChange, CanCreateFile
<1>4. CASE c.kind = "CREATE_SYMLINK"
  BY <1>4, LandIsTree DEF applyChange, CanCreateSymlink
<1>5. CASE c.kind = "SET_EXECUTABLE"
  <2>1. CASE t[c.path].kind = "file"
    <3> DEFINE n == [t[c.path] EXCEPT !.executable = c.node.executable]
    <3>1. t[c.path] \in File /\ c.node \in File
      BY <1>5, <2>1, NodeKinds DEF Tree, Change
    <3>2. n \in File /\ n # Directory /\ n # Absent /\ t[c.path] # Directory
      BY <3>1 DEF File, Directory, Absent
    <3>3. applyChange(t, st, c) = [t EXCEPT ![c.path] = n]
      BY <1>5, <2>1 DEF applyChange, SetExecutable
    <3> HIDE DEF n
    <3>4. ASSUME NEW p \in Path, applyChange(t, st, c)[p] # Absent, NEW q \in Above[p]
          PROVE  applyChange(t, st, c)[q] = Directory
      <4>1. q \in Path
        BY PathAssumption
      <4>2. t[p] # Absent
        BY <3>1, <3>2, <3>3, <3>4, NodeKinds, PlainNodes, <2>1 DEF Tree, Absent
      <4>3. t[q] = Directory
        BY <4>2 DEF Tree
      <4> QED BY <4>1, <4>3, <3>2, <3>3 DEF Tree
    <3>5. applyChange(t, st, c) \in [Path -> Node]
      BY <3>2, <3>3, PlainNodes DEF Tree
    <3> QED BY <3>4, <3>5 DEF Tree
  <2>2. CASE t[c.path].kind # "file"
    BY <1>5, <2>2 DEF applyChange, SetExecutable
  <2> QED BY <2>1, <2>2
<1> QED BY <1>1, <1>2, <1>3, <1>4, <1>5 DEF Change

\* A change touches the path it names, the whole subtree if it is a removal,
\* and missing directories above it.
LEMMA ApplyTouches ==
  ASSUME NEW t \in Tree, NEW st, NEW c \in Change, NEW q \in Path,
         applyChange(t, st, c)[q] # t[q]
  PROVE  \/ q = c.path
         \/ c.kind = "REMOVE" /\ q \in Under(c.path)
         \/ q \in Above[c.path] /\ t[q] = Absent
<1> c.path \in Path
  BY DEF Change
<1>1. CASE c.kind = "REMOVE"
  BY <1>1 DEF applyChange, RemoveAll
<1>2. CASE c.kind = "CREATE_DIRECTORY"
  BY <1>2 DEF applyChange, MkdirAll, CanMkdirAll
<1>3. CASE c.kind \in {"CREATE_FILE", "CREATE_SYMLINK"}
  BY <1>3 DEF applyChange, CanCreateFile, CanCreateSymlink, Land, MkdirAll, CanMkdirAll, Tree
<1>4. CASE c.kind = "SET_EXECUTABLE"
  BY <1>4 DEF applyChange, SetExecutable, Tree
<1> QED BY <1>1, <1>2, <1>3, <1>4 DEF Change

\* A scan of a root is a tree, whatever it could not read.
LEMMA ScanIsTree ==
  ASSUME NEW t \in Tree, NEW u
  PROVE  Scan(t, u) \in Tree
<1>1. ASSUME NEW p \in Path, Scan(t, u)[p] # Absent, NEW q \in Above[p]
      PROVE  Scan(t, u)[q] = Directory
  <2>1. Above[p] \cap u = {} /\ t[p] # Absent
    BY <1>1 DEF Scan
  <2>2. t[q] = Directory /\ q \in Path /\ Above[q] \subseteq Above[p]
    BY <2>1, PathAssumption DEF Tree
  <2>3. t[q].kind # "file"
    BY <2>2 DEF Directory
  <2> QED BY <2>1, <2>2, <2>3 DEF Scan
<1>2. Scan(t, u) \in [Path -> Node]
  BY PlainNodes DEF Scan, Tree
<1> QED BY <1>1, <1>2 DEF Tree

-----------------------------------------------------------------------------
(* The plan of a cycle.                                                    *)

\* Where the recursion reaches and finds a difference, everything above is a
\* directory on both sides and nothing above differs.
LEMMA DisagreementsApart ==
  ASSUME NEW l, NEW r, NEW p \in Path, NEW k \in Path,
         Disagrees(l, r, p), Disagrees(l, r, k), p # k
  PROVE  p \notin Under(k) /\ k \notin Under(p)
BY DEF Disagrees, Reached, Under

\* A set of paths has one with none of the others above it.
LEMMA Topmost ==
  ASSUME NEW B, B \subseteq Path, B # {}
  PROVE  \E q \in B : Above[q] \cap B = {}
<1> DEFINE T == {Above[q] : q \in B}
           R == StrictSubsetOrdering(Path)
<1>1. T \subseteq FiniteSubsetsOf(Path) /\ T # {}
  BY PathAssumption, FS_Subset DEF FiniteSubsetsOf
<1>2. PICK x \in T : \A y \in T : <<y, x>> \notin R
  <2> HIDE DEF T, R
  <2>1. IsWellFoundedOn(R, FiniteSubsetsOf(Path))
    BY FS_StrictSubsetOrderingWellFounded DEF R
  <2> QED BY <1>1, <2>1, WFMin
<1>3. PICK q \in B : x = Above[q]
  OBVIOUS
<1>4. ASSUME NEW k \in Above[q] \cap B
      PROVE  FALSE
  <2>1. Above[k] \subseteq Above[q] /\ k \notin Above[k] /\ Above[q] \subseteq Path
    BY PathAssumption
  <2>2. <<Above[k], Above[q]>> \in R
    BY <2>1 DEF StrictSubsetOrdering
  <2> QED BY <1>2, <1>3, <2>2
<1> QED BY <1>4

\* Where one side has something the recursion does not reach, it stopped at a
\* disagreement above.
LEMMA StoppedAbove ==
  ASSUME NEW l \in Tree, NEW r \in Tree, NEW p \in Path,
         l[p] # Absent \/ r[p] # Absent, ~Reached(l, r, p)
  PROVE  \E q \in Above[p] : Disagrees(l, r, q)
<1> DEFINE B == {q \in Above[p] : l[q] # Directory \/ r[q] # Directory}
<1>1. B \subseteq Path /\ B # {}
  BY PathAssumption DEF Reached
<1>2. PICK q \in B : Above[q] \cap B = {}
  BY <1>1, Topmost
<1>3. Above[q] \subseteq Above[p]
  BY PathAssumption
<1>4. Reached(l, r, q)
  BY <1>2, <1>3 DEF Reached
<1>5. l[q] # r[q]
  BY DEF Tree
<1> QED BY <1>4, <1>5 DEF Disagrees

\* The ancestor to record is a tree, although it takes some paths from the scans
\* and some from the old ancestor.
LEMMA NewAncestorIsTree ==
  ASSUME NEW a \in Tree, NEW l \in Tree, NEW r \in Tree
  PROVE  NewAncestor(a, l, r) \in Tree
<1> DEFINE n == NewAncestor(a, l, r)
<1>1. n \in [Path -> Node]
  BY PlainNodes DEF NewAncestor, Tree
<1>2. ASSUME NEW p \in Path, n[p] # Absent, NEW q \in Above[p]
      PROVE  n[q] = Directory
  <2>1. q \in Path /\ Above[q] \subseteq Above[p]
    BY PathAssumption
  <2>2. CASE \E d \in Above[p] \cup {p} : Disagrees(l, r, d)
    <3>1. PICK d \in Above[p] \cup {p} : Disagrees(l, r, d)
      BY <2>2
    <3>2. a[q] = Directory
      BY <1>2, <2>2 DEF NewAncestor, Tree
    <3>3. CASE d \in Above[q] \cup {q}
      BY <2>1, <3>1, <3>2, <3>3 DEF NewAncestor
    <3>4. CASE d \notin Above[q] \cup {q}
      <4>1. d \in Path /\ q \in Above[d]
        BY <2>1, <3>4, PathAssumption
      <4>2. Above[q] \subseteq Above[d]
        BY <4>1, PathAssumption
      <4>3. \A e \in Above[q] \cup {q} : l[e] = Directory /\ r[e] = Directory
        BY <3>1, <4>1, <4>2 DEF Disagrees, Reached
      <4> QED BY <2>1, <4>3 DEF NewAncestor, Disagrees, Reached
    <3> QED BY <3>3, <3>4
  <2>3. CASE ~\E d \in Above[p] \cup {p} : Disagrees(l, r, d)
    <3>1. Reached(l, r, p) /\ l[p] # Absent
      BY <1>2, <2>3 DEF NewAncestor
    <3>2. l[q] = Directory
      BY <3>1 DEF Tree
    <3> QED BY <2>1, <2>3, <3>1, <3>2 DEF NewAncestor, Reached
  <2> QED BY <2>2, <2>3
<1> QED BY <1>1, <1>2 DEF Tree

\* Flattening a replacement gives well-formed changes inside the subtree, and
\* removes only its root.
LEMMA FlattenInside ==
  ASSUME NEW old \in Tree, NEW new \in Tree, NEW p \in Path,
         NEW c \in flatten(old, new, p)
  PROVE  /\ c \in Change
         /\ c.path \in Under(p)
         /\ c.kind = "REMOVE" => c.path = p
<1>1. CASE c \in Removals(old, new, p)
  BY <1>1 DEF Removals, ChangeOf, Change, Under
<1>2. ASSUME NEW q \in Under(p), new[q].kind = "directory",
             c = ChangeOf("CREATE_DIRECTORY", q, new[q])
      PROVE  c \in Change /\ c.path = q /\ c.kind # "REMOVE"
  BY <1>2, NodeKinds DEF ChangeOf, Change, Under, Tree
<1>3. ASSUME NEW q \in Under(p), new[q].kind = "symlink",
             c = ChangeOf("CREATE_SYMLINK", q, new[q])
      PROVE  c \in Change /\ c.path = q /\ c.kind # "REMOVE"
  BY <1>3, NodeKinds DEF ChangeOf, Change, Under, Tree
<1>4. ASSUME NEW q \in Under(p), new[q].kind = "file",
             NEW k \in {"SET_EXECUTABLE", "CREATE_FILE"}, c = ChangeOf(k, q, new[q])
      PROVE  c \in Change /\ c.path = q /\ c.kind # "REMOVE"
  BY <1>4, NodeKinds DEF ChangeOf, Change, Under, Tree
<1> QED BY <1>1, <1>2, <1>3, <1>4 DEF flatten, Creations

\* The change is in the subtree of p, and removes nothing or all of it.
Within(c, p) == c.path \in Under(p) /\ (c.kind = "REMOVE" => c.path = p)

\* Every change for the remote side comes from a disagreement that the local
\* tree wins.
LEMMA RemotePlan ==
  ASSUME NEW a \in Tree, NEW l \in Tree, NEW r \in Tree, NEW c \in ToRemote(a, l, r)
  PROVE  /\ c \in Change
         /\ \E p \in Path : Disagrees(l, r, p) /\ RemoteTakes(a, l, r, p) /\ Within(c, p)
<1>1. PICK p \in Path : /\ Disagrees(l, r, p)
                        /\ RemoteTakes(a, l, r, p)
                        /\ c \in flatten(r, l, p)
  BY DEF ToRemote
<1> QED BY <1>1, FlattenInside DEF Within

\* And every change for the local side from one that the remote tree wins.
LEMMA LocalPlan ==
  ASSUME NEW a \in Tree, NEW l \in Tree, NEW r \in Tree, NEW c \in ToLocal(a, l, r)
  PROVE  /\ c \in Change
         /\ \E p \in Path : Disagrees(l, r, p) /\ LocalTakes(a, l, r, p) /\ Within(c, p)
<1>1. PICK p \in Path : /\ Disagrees(l, r, p)
                        /\ LocalTakes(a, l, r, p)
                        /\ c \in flatten(l, r, p)
  BY DEF ToLocal
<1> QED BY <1>1, FlattenInside DEF Within

\* The side that gives way has nothing below the path that the base has not.
LEMMA TakingLosesNothingNew ==
  ASSUME NEW a, NEW l, NEW r, NEW p \in Path, NEW q \in Under(p)
  PROVE  /\ RemoteTakes(a, l, r, p) => r[q] \in {Absent, a[q]}
         /\ LocalTakes(a, l, r, p) => l[q] \in {Absent, a[q]}
BY DEF RemoteTakes, LocalTakes, Unchanged, OnlyDeleted

\* A change within one disagreement is neither at, nor above, nor below another.
LEMMA WithinApart ==
  ASSUME NEW l, NEW r, NEW p \in Path, NEW k \in Path,
         Disagrees(l, r, p), Disagrees(l, r, k), p # k,
         NEW c, Within(c, p)
  PROVE  c.path \notin Under(k) /\ k \notin Under(c.path)
<1>1. p \notin Under(k) /\ k \notin Under(p)
  BY DisagreementsApart
<1>2. c.path \in Path /\ Under(c.path) \subseteq Under(p)
  BY UnderClosed DEF Within
<1>3. c.path \notin Under(k)
  BY <1>1, <1>2, UnderNested DEF Within
<1> QED BY <1>1, <1>2, <1>3
=============================================================================
