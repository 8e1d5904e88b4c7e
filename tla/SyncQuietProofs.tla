--------------------------- MODULE SyncQuietProofs ---------------------------
(***************************************************************************)
(* What an undisturbed cycle does to the two roots, for every set of paths *)
(* and every base: work that is new on one side and the versions of a      *)
(* conflict stay, everything else comes to agree, and where files of one   *)
(* content get into each other's way less is left to do each time; and     *)
(* what a cycle decides is what the recursion of the mutagen core decides. *)
(***************************************************************************)
EXTENDS SyncAgreement, SyncReconcileProofs, WellFoundedInduction

-----------------------------------------------------------------------------
\* Numbers.
LEMMA LeastNumber ==
  ASSUME NEW set \in SUBSET Nat, set # {}
  PROVE  \E least \in set : \A x \in set : least <= x
<1> DEFINE less == {pair \in Nat \X Nat : pair[1] < pair[2]}
<1>1. IsWellFoundedOn(less, Nat) BY NatLessThanWellFounded DEF OpToRel
<1>2. PICK least \in set : \A x \in set : <<x, least>> \notin less
  BY <1>1, WFMin
<1>3. \A x \in set : least <= x
  <2> TAKE x \in set
  <2>1. <<x, least>> \in less <=> x < least OBVIOUS
  <2> QED BY <1>2, <2>1
<1> QED BY <1>3

LEMMA StepByStep ==
  ASSUME NEW k \in Nat, NEW set, 0 \in set, \A n \in 1..k : n - 1 \in set => n \in set
  PROVE  \A n \in 0..k : n \in set
<1> DEFINE others == {n \in 0..k : n \notin set}
<1>1. SUFFICES ASSUME others # {} PROVE FALSE
  OBVIOUS
<1>2. PICK n \in others : \A x \in others : n <= x
  <2>1. others \in SUBSET Nat OBVIOUS
  <2> HIDE DEF others
  <2> QED BY <1>1, <2>1, LeastNumber
<1>3. n \in 1..k /\ n - 1 \in 0..k /\ ~(n <= n - 1) OBVIOUS
<1>4. n - 1 \in set BY <1>2, <1>3
<1> QED BY <1>3, <1>4

-----------------------------------------------------------------------------
\* A batch.

\* The order: removals come before everything else, and there is a next change.
LEMMA RankIs ==
  ASSUME NEW c \in Change
  PROVE  /\ rank(c) \in Nat
         /\ c.kind = "REMOVE" => rank(c) <= Cardinality(Path)
         /\ c.kind # "REMOVE" => rank(c) > Cardinality(Path)
<1> DEFINE depth == Cardinality(Above[c.path])
           last == Cardinality(Path)
<1>1. c.path \in Path BY DEF Change
<1>2. Above[c.path] \subseteq Path /\ IsFiniteSet(Path) BY <1>1, PathAssumption
<1>3. depth \in Nat /\ last \in Nat /\ depth <= last
  BY <1>2, FS_Subset, FS_CardinalityType
<1>4. rank(c) = CASE c.kind = "REMOVE" -> last - depth
                  [] c.kind = "CREATE_DIRECTORY" -> last + 1 + depth
                  [] OTHER -> last + last + 1
  BY DEF rank
<1> HIDE DEF depth, last
<1>5. /\ rank(c) \in Nat
      /\ c.kind = "REMOVE" => rank(c) <= last
      /\ c.kind # "REMOVE" => rank(c) > last
  <2>1. CASE c.kind = "REMOVE" BY <1>3, <1>4, <2>1
  <2>2. CASE c.kind = "CREATE_DIRECTORY" BY <1>3, <1>4, <2>2
  <2>3. CASE c.kind \notin {"REMOVE", "CREATE_DIRECTORY"} BY <1>3, <1>4, <2>3
  <2> QED BY <2>1, <2>2, <2>3
<1> QED BY <1>5 DEF last

LEMMA NextExists ==
  ASSUME NEW left, left \subseteq Change, left # {}
  PROVE  NextChanges(left) # {}
<1> DEFINE ranks == {rank(c) : c \in left}
<1>1. ranks \in SUBSET Nat /\ ranks # {} BY RankIs
<1>2. PICK least \in ranks : \A x \in ranks : least <= x
  <2> HIDE DEF ranks
  <2> QED BY <1>1, LeastNumber
<1>3. PICK c \in left : rank(c) = least OBVIOUS
<1>4. \A d \in left : rank(c) <= rank(d) BY <1>2, <1>3
<1> QED BY <1>3, <1>4 DEF NextChanges

LEMMA RemovalsFirst ==
  ASSUME NEW left, left \subseteq Change, NEW c \in NextChanges(left), c.kind # "REMOVE",
         NEW d \in left
  PROVE  d.kind # "REMOVE"
<1>1. c \in Change /\ d \in Change /\ rank(c) <= rank(d) BY DEF NextChanges
<1>2. Cardinality(Path) \in Nat BY PathAssumption, FS_CardinalityType
<1>3. rank(c) \in Nat /\ rank(d) \in Nat /\ rank(c) > Cardinality(Path) BY <1>1, RankIs
<1>4. d.kind = "REMOVE" => rank(d) <= Cardinality(Path) BY <1>1, RankIs
<1> QED BY <1>1, <1>2, <1>3, <1>4

\* One change of a batch is made.
Start(t, changes) == [tree |-> t, staged |-> DigestsNeeded(changes), left |-> changes]
After(now, c) ==
  [tree   |-> applyChange(now.tree, now.staged, c),
   staged |-> stagedAfter(now.tree, now.staged, c),
   left   |-> now.left \ {c}]
Chosen(now) == CHOOSE c \in NextChanges(now.left) : TRUE

LEMMA BatchEquation ==
  ASSUME NEW t, NEW changes, IsFiniteSet(changes)
  PROVE  /\ Batch(t, changes)[0] = Start(t, changes)
         /\ \A n \in 1..Cardinality(changes) :
              Batch(t, changes)[n] =
                After(Batch(t, changes)[n - 1], Chosen(Batch(t, changes)[n - 1]))
<1> DEFINE last == Cardinality(changes)
           Body(f, n) == IF n = 0 THEN Start(t, changes) ELSE After(f[n - 1], Chosen(f[n - 1]))
           solved(n) == \E f : f = [k \in 0..n |-> Body(f, k)]
           able == {n \in 0..last : solved(n)}
<1>0. last \in Nat BY FS_CardinalityType
<1>1. 0 \in able
  <2> DEFINE f == [k \in 0..0 |-> Start(t, changes)]
  <2>1. \A k \in 0..0 : Body(f, k) = Start(t, changes) OBVIOUS
  <2> HIDE DEF Body
  <2>2. f = [k \in 0..0 |-> Body(f, k)] BY <2>1
  <2> HIDE DEF f
  <2> QED BY <1>0, <2>2
<1>2. ASSUME NEW n \in 1..last, n - 1 \in able PROVE n \in able
  <2>1. PICK f : f = [k \in 0..(n - 1) |-> Body(f, k)] BY <1>2
  <2> DEFINE g == [k \in 0..n |-> IF k = n THEN Body(f, n) ELSE f[k]]
  <2>2. \A k \in 0..n : k # 0 => k - 1 \in 0..n /\ k - 1 # n BY <1>0
  <2>3. \A k \in 0..n : Body(g, k) = Body(f, k)
    <3>1. \A k \in 0..n : k # n => g[k] = f[k] OBVIOUS
    <3> HIDE DEF g
    <3> QED BY <2>2, <3>1
  <2>4. \A k \in 0..n : g[k] = Body(g, k)
    <3> TAKE k \in 0..n
    <3>1. CASE k = n
      <4> HIDE DEF Body
      <4> QED BY <2>3, <3>1
    <3>2. CASE k # n
      <4>1. k \in 0..(n - 1) BY <1>0, <3>2
      <4>2. f[k] = Body(f, k)
        <5> HIDE DEF Body
        <5> QED BY <2>1, <4>1
      <4>3. g[k] = f[k] BY <3>2
      <4> HIDE DEF Body, g
      <4> QED BY <2>3, <4>2, <4>3
    <3> QED BY <3>1, <3>2
  <2>5. g = [k \in 0..n |-> Body(g, k)]
    <3>1. g = [k \in 0..n |-> g[k]] OBVIOUS
    <3> HIDE DEF g, Body
    <3> QED BY <2>4, <3>1
  <2> HIDE DEF g, Body
  <2>6. solved(n) BY <2>5
  <2> HIDE DEF solved
  <2> QED BY <2>6, <1>0
<1>3. solved(last)
  <2> HIDE DEF able
  <2>1. \A n \in 0..last : n \in able BY <1>0, <1>1, <1>2, StepByStep
  <2>2. last \in 0..last BY <1>0
  <2>3. last \in able BY <2>1, <2>2
  <2> HIDE DEF solved
  <2> QED BY <2>3 DEF able
<1> DEFINE after == Batch(t, changes)
<1>4. after = CHOOSE f : f = [n \in 0..last |-> Body(f, n)]
  BY DEF Batch, Start, After, Chosen
<1>5. after = [n \in 0..last |-> Body(after, n)]
  <2> HIDE DEF after, Body, last
  <2> QED BY <1>3, <1>4
<1>6. \A n \in 0..last : after[n] = Body(after, n)
  <2> HIDE DEF after, Body
  <2> QED BY <1>5
<1> HIDE DEF after
<1>7. 0 \in 0..last /\ \A n \in 1..last : n \in 0..last /\ n # 0
  <2> HIDE DEF last
  <2> QED BY <1>0
<1> QED BY <1>6, <1>7 DEF after

-----------------------------------------------------------------------------
\* The plan for one side: in the root old, the subtrees at replaced paths become
\* those of new.
Plan(old, new, replaced) == UNION {flatten(old, new, p) : p \in replaced}
Replaces(old, new, replaced) ==
  /\ old \in Tree /\ new \in Tree /\ replaced \subseteq Path
  /\ \A p \in replaced : Disagrees(old, new, p)
Removal(p) == ChangeOf("REMOVE", p, Absent)

LEMMA FlattenIs ==
  ASSUME NEW old \in Tree, NEW new \in Tree, NEW p \in Path, NEW c \in flatten(old, new, p)
  PROVE  /\ c \in Change /\ Within(c, p)
         /\ c.kind = "REMOVE" => c = Removal(p) /\ Removals(old, new, p) # {}
         /\ c.kind # "REMOVE" => c.node = new[c.path] /\ new[c.path] # Absent
         /\ c.kind = "CREATE_DIRECTORY" => new[c.path].kind = "directory"
         /\ c.kind = "CREATE_SYMLINK" => new[c.path].kind = "symlink"
         /\ c.kind \in {"CREATE_FILE", "SET_EXECUTABLE"} => new[c.path].kind = "file"
         /\ c.kind = "SET_EXECUTABLE" => c.path = p /\ OnlyChmod(old[p], new[p])
<1>1. c \in Change /\ Within(c, p) BY FlattenInside DEF Within
<1>2. CASE c \in Removals(old, new, p) BY <1>1, <1>2 DEF Removals, Removal, ChangeOf
<1>3. CASE c \in Creations(old, new, p)
  <2>1. PICK q \in Under(p) :
          \/ new[q].kind = "directory" /\ c = ChangeOf("CREATE_DIRECTORY", q, new[q])
          \/ new[q].kind = "symlink" /\ c = ChangeOf("CREATE_SYMLINK", q, new[q])
          \/ /\ new[q].kind = "file"
             /\ c = ChangeOf(IF q = p /\ OnlyChmod(old[p], new[p])
                             THEN "SET_EXECUTABLE" ELSE "CREATE_FILE", q, new[q])
    BY <1>3 DEF Creations
  <2>2. new[q].kind # "absent" => new[q] # Absent BY DEF Absent
  <2> QED BY <1>1, <2>1, <2>2 DEF ChangeOf
<1> QED BY <1>2, <1>3 DEF flatten

LEMMA PlanIs ==
  ASSUME NEW old, NEW new, NEW replaced, Replaces(old, new, replaced),
         NEW c \in Plan(old, new, replaced)
  PROVE  c \in Change /\ \E p \in replaced : c \in flatten(old, new, p) /\ Within(c, p)
<1>1. PICK p \in replaced : c \in flatten(old, new, p) BY DEF Plan
<1> QED BY <1>1, FlattenIs DEF Replaces

\* A change is known by its kind and its path.
LEMMA PlanFinite ==
  ASSUME NEW old, NEW new, NEW replaced, Replaces(old, new, replaced)
  PROVE  IsFiniteSet(Plan(old, new, replaced))
<1> DEFINE kinds == {"REMOVE", "CREATE_DIRECTORY", "CREATE_FILE", "SET_EXECUTABLE", "CREATE_SYMLINK"}
           node(x) == IF x[1] = "REMOVE" THEN Absent ELSE new[x[2]]
           all == {ChangeOf(x[1], x[2], node(x)) : x \in kinds \X Path}
<1>1. IsFiniteSet(kinds)
  <2>1. IsFiniteSet({"REMOVE"}) BY FS_Singleton
  <2>2. IsFiniteSet({"REMOVE"} \cup {"CREATE_DIRECTORY"}) BY <2>1, FS_AddElement
  <2>3. IsFiniteSet({"REMOVE"} \cup {"CREATE_DIRECTORY"} \cup {"CREATE_FILE"})
    BY <2>2, FS_AddElement
  <2>4. IsFiniteSet({"REMOVE"} \cup {"CREATE_DIRECTORY"} \cup {"CREATE_FILE"}
                      \cup {"SET_EXECUTABLE"})
    BY <2>3, FS_AddElement
  <2>5. IsFiniteSet({"REMOVE"} \cup {"CREATE_DIRECTORY"} \cup {"CREATE_FILE"}
                      \cup {"SET_EXECUTABLE"} \cup {"CREATE_SYMLINK"})
    BY <2>4, FS_AddElement
  <2>6. kinds = {"REMOVE"} \cup {"CREATE_DIRECTORY"} \cup {"CREATE_FILE"}
                  \cup {"SET_EXECUTABLE"} \cup {"CREATE_SYMLINK"}
    OBVIOUS
  <2> QED BY <2>5, <2>6
<1>2. IsFiniteSet(kinds \X Path) BY <1>1, PathAssumption, FS_Product
<1>3. IsFiniteSet(all)
  <2> DEFINE made == [x \in kinds \X Path |-> ChangeOf(x[1], x[2], node(x))]
  <2>1. made \in Surjection(kinds \X Path, all) BY DEF Surjection
  <2> HIDE DEF made, all
  <2> QED BY <1>2, <2>1, FS_Surjection
<1>4. Plan(old, new, replaced) \subseteq all
  <2> SUFFICES ASSUME NEW c \in Plan(old, new, replaced) PROVE c \in all
    OBVIOUS
  <2>1. PICK p \in replaced : c \in Change /\ c \in flatten(old, new, p) BY PlanIs
  <2>2. c.node = IF c.kind = "REMOVE" THEN Absent ELSE new[c.path]
    BY <2>1, FlattenIs DEF Replaces, Removal, ChangeOf
  <2>3. c.kind \in kinds /\ c.path \in Path /\ c = ChangeOf(c.kind, c.path, c.node)
    BY <2>1 DEF Change, ChangeOf
  <2>4. <<c.kind, c.path>> \in kinds \X Path BY <2>3
  <2>5. c = ChangeOf(<<c.kind, c.path>>[1], <<c.kind, c.path>>[2], node(<<c.kind, c.path>>))
    BY <2>2, <2>3
  <2> QED BY <2>4, <2>5
<1> QED BY <1>3, <1>4, FS_Subset

-----------------------------------------------------------------------------
\* Outside of what is replaced, nothing is touched.
Region(replaced) == UNION {Under(p) : p \in replaced}
Outside(now, old, new, replaced) ==
  /\ now.tree \in Tree /\ now.left \subseteq Plan(old, new, replaced)
  /\ \A q \in Path \ Region(replaced) : now.tree[q] = old[q]

\* A change reaches only the subtree it is of.
LEMMA ChangeInside ==
  ASSUME NEW old, NEW new, NEW replaced, Replaces(old, new, replaced),
         NEW t \in Tree, NEW st, NEW p \in replaced, NEW c \in Change, Within(c, p),
         \A q \in Path \ Region(replaced) : t[q] = old[q],
         NEW q \in Path \ Under(p)
  PROVE  applyChange(t, st, c)[q] = t[q]
<1> SUFFICES ASSUME applyChange(t, st, c)[q] # t[q] PROVE FALSE
  OBVIOUS
<1>1. p \in Path /\ c.path \in Path /\ c.path \in Under(p) BY DEF Replaces, Within, Under
<1>2. Under(c.path) \subseteq Under(p) BY <1>1, UnderClosed
<1>3. q \in Above[c.path] /\ t[q] = Absent BY <1>1, <1>2, ApplyTouches
<1>4. q \in Above[p] BY <1>1, <1>3, PathAssumption DEF Under
<1>5. old[q] = Directory /\ q \in Path BY <1>4 DEF Replaces, Disagrees, Reached
<1>6. q \notin Region(replaced)
  <2> SUFFICES ASSUME NEW k \in replaced, q \in Under(k) PROVE FALSE
    BY DEF Region
  <2>1. k \in Path /\ p \in Under(q) BY <1>1, <1>4 DEF Under, Replaces
  <2>2. p \in Under(k) BY <2>1, UnderClosed
  <2>3. p # k BY <2>1, <1>4, PathAssumption, <1>1 DEF Under
  <2> QED BY <2>1, <2>2, <2>3, <1>1, DisagreementsApart DEF Replaces
<1> QED BY <1>3, <1>5, <1>6, PlainNodes

LEMMA OutsideKept ==
  ASSUME NEW old, NEW new, NEW replaced, Replaces(old, new, replaced),
         NEW now, Outside(now, old, new, replaced), NEW c \in now.left
  PROVE  Outside(After(now, c), old, new, replaced)
<1>1. PICK p \in replaced : c \in Change /\ c \in flatten(old, new, p) /\ Within(c, p)
  BY PlanIs DEF Outside
<1> DEFINE then == applyChange(now.tree, now.staged, c)
<1>2. then \in Tree BY <1>1, ApplyIsTree DEF Outside
<1>3. ASSUME NEW q \in Path \ Region(replaced) PROVE then[q] = old[q]
  <2>1. q \in Path \ Under(p) BY DEF Region
  <2>2. then[q] = now.tree[q] BY <1>1, <2>1, ChangeInside DEF Outside
  <2> QED BY <2>2 DEF Outside
<1>4. After(now, c).tree = then /\ After(now, c).left = now.left \ {c} BY DEF After
<1> HIDE DEF then
<1> QED BY <1>2, <1>3, <1>4 DEF Outside

\* Where a batch is on its way, and that it ends.
LEMMA BatchGoes ==
  ASSUME NEW old, NEW new, NEW replaced, Replaces(old, new, replaced)
  PROVE  LET changes == Plan(old, new, replaced)
         IN /\ Cardinality(changes) \in Nat
            /\ \A n \in 0..Cardinality(changes) :
                 Outside(Batch(old, changes)[n], old, new, replaced)
            /\ \A n \in 1..Cardinality(changes) :
                 /\ Chosen(Batch(old, changes)[n - 1]) \in NextChanges(Batch(old, changes)[n - 1].left)
                 /\ Batch(old, changes)[n] =
                      After(Batch(old, changes)[n - 1], Chosen(Batch(old, changes)[n - 1]))
            /\ Batch(old, changes)[0] = Start(old, changes)
            /\ Batch(old, changes)[Cardinality(changes)].left = {}
<1> DEFINE changes == Plan(old, new, replaced)
           last == Cardinality(changes)
           at(n) == Batch(old, changes)[n]
           good(n) == /\ Outside(at(n), old, new, replaced)
                      /\ IsFiniteSet(at(n).left) /\ Cardinality(at(n).left) = last - n
           set == {n \in 0..last : good(n)}
<1>1. IsFiniteSet(changes) BY PlanFinite
<1>2. last \in Nat BY <1>1, FS_CardinalityType
<1>3. /\ at(0) = Start(old, changes)
      /\ \A n \in 1..last : at(n) = After(at(n - 1), Chosen(at(n - 1)))
  <2> HIDE DEF changes
  <2> QED BY <1>1, BatchEquation
<1> HIDE DEF at
<1>4. 0 \in set
  <2>1. at(0).tree = old /\ at(0).left = changes BY <1>3 DEF Start
  <2>2. Outside(at(0), old, new, replaced) BY <2>1 DEF Outside, Replaces
  <2> HIDE DEF changes
  <2> QED BY <1>1, <1>2, <2>1, <2>2
<1>5. ASSUME NEW n \in 0..last, n < last, good(n)
      PROVE  Chosen(at(n)) \in NextChanges(at(n).left) /\ Chosen(at(n)) \in at(n).left
  <2>1. at(n).left # {} BY <1>2, <1>5, FS_EmptySet
  <2>2. at(n).left \subseteq Change BY <1>5, PlanIs DEF Outside
  <2>3. NextChanges(at(n).left) # {} BY <2>1, <2>2, NextExists
  <2>4. Chosen(at(n)) \in NextChanges(at(n).left) BY <2>3 DEF Chosen
  <2> QED BY <2>4 DEF NextChanges
<1>6. ASSUME NEW n \in 1..last, n - 1 \in set PROVE n \in set
  <2>1. n - 1 \in 0..last /\ n - 1 < last /\ good(n - 1) BY <1>2, <1>6
  <2> DEFINE c == Chosen(at(n - 1))
  <2>2. c \in at(n - 1).left BY <1>5, <2>1
  <2>3. at(n) = After(at(n - 1), c) BY <1>3
  <2> HIDE DEF c
  <2>4. Outside(at(n), old, new, replaced) BY <2>1, <2>2, <2>3, OutsideKept
  <2>5. at(n).left = at(n - 1).left \ {c} BY <2>3 DEF After
  <2>6. IsFiniteSet(at(n).left) /\ Cardinality(at(n).left) = Cardinality(at(n - 1).left) - 1
    BY <2>1, <2>2, <2>5, FS_RemoveElement
  <2>7. Cardinality(at(n).left) = last - n
    <3> HIDE DEF last
    <3> QED BY <1>2, <2>1, <2>6
  <2> QED BY <2>4, <2>6, <2>7
<1>7. \A n \in 0..last : good(n)
  <2> HIDE DEF last, good
  <2>1. \A n \in 0..last : n \in set
    <3> HIDE DEF set
    <3> QED BY <1>2, <1>4, <1>6, StepByStep
  <2> QED BY <2>1
<1>8. at(last).left = {}
  <2>1. IsFiniteSet(at(last).left) /\ Cardinality(at(last).left) = 0
    <3>1. last \in 0..last /\ last - last = 0 BY <1>2
    <3> HIDE DEF last
    <3> QED BY <1>7, <3>1
  <2> QED BY <2>1, FS_EmptySet
<1>9. ASSUME NEW n \in 1..last PROVE Chosen(at(n - 1)) \in NextChanges(at(n - 1).left)
  <2>1. n - 1 \in 0..last /\ n - 1 < last BY <1>2
  <2> HIDE DEF good, last
  <2> QED BY <1>5, <1>7, <2>1
<1> QED BY <1>2, <1>3, <1>7, <1>8, <1>9 DEF at

\* The last state of a batch keeps everything outside.
LEMMA TransitionKeeps ==
  ASSUME NEW old, NEW new, NEW replaced, Replaces(old, new, replaced)
  PROVE  /\ Transition(old, Plan(old, new, replaced)) \in Tree
         /\ \A q \in Path \ Region(replaced) :
              Transition(old, Plan(old, new, replaced))[q] = old[q]
<1> DEFINE last == Cardinality(Plan(old, new, replaced))
<1>1. last \in 0..last BY BatchGoes
<1>2. Outside(Batch(old, Plan(old, new, replaced))[last], old, new, replaced) BY <1>1, BatchGoes
<1> QED BY <1>2 DEF Outside, Transition

-----------------------------------------------------------------------------
\* Inside, a subtree is as it was until its removal, and from then on each path is
\* as it should be or has its change to come.  At paths in missed it may also have
\* had it: the content was not there any more.
Before(old, new, p, q) == IF Removals(old, new, p) # {} THEN Absent ELSE old[q]
Settled(now, old, new, p, missed) ==
  IF Removal(p) \in now.left
  THEN flatten(old, new, p) \subseteq now.left /\ \A q \in Under(p) : now.tree[q] = old[q]
  ELSE \A q \in Under(p) :
         \/ now.tree[q] = new[q]
         \/ /\ now.tree[q] = Before(old, new, p, q)
            /\ \/ q \in missed
               \/ \E c \in now.left : c.path = q /\ c.kind # "REMOVE"
\* What is to be created is staged.
Stocked(now, missed) ==
  \A c \in now.left :
    c.kind = "CREATE_FILE" => c.node.digest \in now.staged \/ c.path \in missed
Inside(now, old, new, replaced, missed) ==
  /\ Outside(now, old, new, replaced)
  /\ \A p \in replaced : Settled(now, old, new, p, missed)
  /\ Stocked(now, missed)
\* The files a plan creates.
Made(changes) == {c.path : c \in {d \in changes : d.kind = "CREATE_FILE"}}

\* What is there before a subtree is made, when it needs no removal.
LEMMA BeforeIs ==
  ASSUME NEW old, NEW new, NEW replaced, Replaces(old, new, replaced), NEW p \in replaced,
         NEW q \in Under(p)
  PROVE  /\ p \in Path /\ q \in Path /\ q \in Under(p) /\ p \in Under(p)
         /\ Before(old, new, p, q) # Absent =>
              /\ q = p /\ Before(old, new, p, q) = old[p] /\ old[p].kind = new[p].kind
              /\ old[p] # Directory /\ Removals(old, new, p) = {}
         /\ new[q] = Absent => Before(old, new, p, q) = Absent
<1>1. p \in Path /\ q \in Path /\ p \in Under(p) BY UnderClosed DEF Replaces
<1>2. old[p] # new[p] /\ old \in Tree /\ new \in Tree BY DEF Replaces, Disagrees
<1>3. old[p] \in Node /\ new[p] \in Node BY <1>1, <1>2 DEF Tree
<1>4. Removals(old, new, p) = {} => old[p] = Absent \/ old[p].kind = new[p].kind
  BY DEF Removals
<1>5. old[p].kind = new[p].kind => old[p] # Directory /\ old[p] # Absent /\ new[p] # Absent
                                      /\ new[p] # Directory
  BY <1>2, <1>3, NodeKinds
<1>6. q # p => p \in Above[q] /\ p # q BY DEF Under
<1>7. old[q] # Absent /\ q # p => old[p] = Directory BY <1>1, <1>2, <1>6 DEF Tree
<1> QED BY <1>1, <1>4, <1>5, <1>7, PlainNodes DEF Before

\* Whatever is to be there has a change that makes it.
LEMMA CreationIs ==
  ASSUME NEW old, NEW new, NEW replaced, Replaces(old, new, replaced), NEW p \in replaced,
         NEW q \in Under(p), new[q] # Absent
  PROVE  \E c \in flatten(old, new, p) : c.path = q /\ c.kind # "REMOVE"
<1>1. new[q] \in Node BY BeforeIs DEF Replaces, Tree
<1>2. new[q].kind \in {"directory", "symlink", "file"}
  BY <1>1 DEF Node, File, Symlink, Directory
<1>3. CASE new[q].kind = "directory"
  <2>1. ChangeOf("CREATE_DIRECTORY", q, new[q]) \in Creations(old, new, p)
    BY <1>3 DEF Creations
  <2> QED BY <2>1 DEF ChangeOf, flatten
<1>4. CASE new[q].kind = "symlink"
  <2>1. ChangeOf("CREATE_SYMLINK", q, new[q]) \in Creations(old, new, p)
    BY <1>4 DEF Creations
  <2> QED BY <2>1 DEF ChangeOf, flatten
<1>5. CASE new[q].kind = "file"
  <2>1. ChangeOf(IF q = p /\ OnlyChmod(old[p], new[p])
                 THEN "SET_EXECUTABLE" ELSE "CREATE_FILE", q, new[q])
          \in Creations(old, new, p)
    BY <1>5 DEF Creations
  <2> QED BY <2>1 DEF ChangeOf, flatten
<1> QED BY <1>2, <1>3, <1>4, <1>5

LEMMA SettledAtFirst ==
  ASSUME NEW old, NEW new, NEW replaced, Replaces(old, new, replaced), NEW missed
  PROVE  Inside(Start(old, Plan(old, new, replaced)), old, new, replaced, missed)
<1> DEFINE changes == Plan(old, new, replaced)
           now == Start(old, changes)
<1>1. now.tree = old /\ now.left = changes /\ now.staged = DigestsNeeded(changes) BY DEF Start
<1>2. Outside(now, old, new, replaced) BY <1>1 DEF Outside, Replaces
<1>3. Stocked(now, missed) BY <1>1 DEF Stocked, DigestsNeeded
<1>4. ASSUME NEW p \in replaced PROVE Settled(now, old, new, p, missed)
  <2>1. flatten(old, new, p) \subseteq changes BY DEF Plan
  <2>2. CASE Removal(p) \in changes BY <1>1, <2>1, <2>2 DEF Settled
  <2>3. CASE Removal(p) \notin changes
    <3>1. Removals(old, new, p) = {}
      BY <2>1, <2>3 DEF flatten, Removals, Removal
    <3>2. ASSUME NEW q \in Under(p), old[q] # new[q]
          PROVE  /\ old[q] = Before(old, new, p, q)
                 /\ \E c \in changes : c.path = q /\ c.kind # "REMOVE"
      <4>1. old[q] = Before(old, new, p, q) BY <3>1 DEF Before
      <4>2. new[q] # Absent BY <3>2, <4>1, BeforeIs
      <4>3. \E c \in flatten(old, new, p) : c.path = q /\ c.kind # "REMOVE" BY <4>2, CreationIs
      <4> QED BY <2>1, <4>1, <4>3
    <3> HIDE DEF changes
    <3> QED BY <1>1, <2>3, <3>2 DEF Settled
  <2> QED BY <2>2, <2>3
<1> QED BY <1>2, <1>3, <1>4 DEF Inside

\* A change leaves the other subtrees as they were.
LEMMA OthersSettled ==
  ASSUME NEW old, NEW new, NEW replaced, Replaces(old, new, replaced),
         NEW missed, NEW now, Inside(now, old, new, replaced, missed),
         NEW p \in replaced, NEW k \in replaced, p # k,
         NEW c \in now.left, c \in flatten(old, new, p)
  PROVE  Settled(After(now, c), old, new, k, missed)
<1>1. c \in Change /\ Within(c, p) /\ p \in Path /\ k \in Path
  BY FlattenIs DEF Replaces
<1>2. c.path \notin Under(k) /\ p \notin Under(k) /\ k \notin Under(p)
  BY <1>1, WithinApart, DisagreementsApart DEF Replaces
<1>3. ASSUME NEW q \in Under(k) PROVE After(now, c).tree[q] = now.tree[q]
  <2>1. q \in Path BY DEF Under
  <2>2. q \notin Under(p) BY <1>1, <1>2, <2>1, UnderNested
  <2>3. applyChange(now.tree, now.staged, c)[q] = now.tree[q]
    BY <1>1, <2>1, <2>2, ChangeInside DEF Inside, Outside
  <2> QED BY <2>3 DEF After
<1>4. After(now, c).left = now.left \ {c} BY DEF After
<1>5. Settled(now, old, new, k, missed) BY DEF Inside
<1>6. \A d \in flatten(old, new, k) : d # c
  <2>1. \A d \in flatten(old, new, k) : d.path \in Under(k) BY <1>1, FlattenIs DEF Replaces, Within
  <2> QED BY <1>2, <2>1
<1>7. Removal(k) # c
  <2>1. Removal(k).path = k /\ k \in Under(k) BY <1>1 DEF Under, Removal, ChangeOf
  <2> QED BY <1>2, <2>1
<1>8. CASE Removal(k) \in now.left
  <2>1. Removal(k) \in After(now, c).left BY <1>4, <1>7, <1>8
  <2>2. flatten(old, new, k) \subseteq After(now, c).left
    BY <1>4, <1>5, <1>6, <1>8 DEF Settled
  <2>3. \A q \in Under(k) : now.tree[q] = old[q] BY <1>5, <1>8 DEF Settled
  <2> QED BY <1>3, <2>1, <2>2, <2>3 DEF Settled
<1>9. CASE Removal(k) \notin now.left
  <2>1. Removal(k) \notin After(now, c).left BY <1>4, <1>9
  <2>2. ASSUME NEW q \in Under(k)
        PROVE  \/ After(now, c).tree[q] = new[q]
               \/ /\ After(now, c).tree[q] = Before(old, new, k, q)
                  /\ \/ q \in missed
                     \/ \E d \in After(now, c).left : d.path = q /\ d.kind # "REMOVE"
    <3>1. \/ now.tree[q] = new[q]
          \/ /\ now.tree[q] = Before(old, new, k, q)
             /\ \/ q \in missed
                \/ \E d \in now.left : d.path = q /\ d.kind # "REMOVE"
      BY <1>5, <1>9 DEF Settled
    <3>2. \A d \in now.left : d.path = q => d \in After(now, c).left BY <1>2, <1>4
    <3> QED BY <1>3, <3>1, <3>2
  <2> QED BY <2>1, <2>2 DEF Settled
<1> QED BY <1>8, <1>9

\* A creation that is next finds its subtree cleared, and lands unless it is one
\* that may be missed.
LEMMA CreationLands ==
  ASSUME NEW old, NEW new, NEW replaced, Replaces(old, new, replaced),
         NEW missed, NEW now, Inside(now, old, new, replaced, missed),
         NEW p \in replaced, Removal(p) \notin now.left,
         NEW c \in now.left, c \in flatten(old, new, p), c.kind # "REMOVE"
  PROVE  LET then == applyChange(now.tree, now.staged, c)
         IN /\ then[c.path] = new[c.path] \/ (c.path \in missed /\ then = now.tree)
            /\ \A q \in Under(p) : then[q] \in {now.tree[q], new[q]}
<1> DEFINE t == now.tree
           x == c.path
           then == applyChange(now.tree, now.staged, c)
<1>1. /\ c \in Change /\ x \in Under(p) /\ c.node = new[x] /\ new[x] # Absent
      /\ c.kind = "CREATE_DIRECTORY" => new[x].kind = "directory"
      /\ c.kind = "CREATE_SYMLINK" => new[x].kind = "symlink"
      /\ c.kind \in {"CREATE_FILE", "SET_EXECUTABLE"} => new[x].kind = "file"
      /\ c.kind = "SET_EXECUTABLE" => x = p /\ OnlyChmod(old[p], new[p])
  BY FlattenIs DEF Replaces, Within
<1>2. /\ p \in Path /\ x \in Path /\ old \in Tree /\ new \in Tree /\ t \in Tree
      /\ Above[x] \subseteq Path
  BY <1>1, PathAssumption DEF Replaces, Under, Inside, Outside
<1>3. \A q \in Under(p) : t[q] = new[q] \/ t[q] = Before(old, new, p, q)
  BY DEF Inside, Settled
<1>4. ASSUME NEW q \in Above[x] PROVE t[q] \in {Absent, Directory} /\ new[q] = Directory
  <2>1. q \in Path /\ new[q] = Directory BY <1>1, <1>2 DEF Tree
  <2>2. CASE q \in Under(p)
    <3>1. Before(old, new, p, q) # Absent => new[q].kind = old[q].kind /\ old[q] # Directory
      BY <2>2, BeforeIs
    <3>2. Before(old, new, p, q) = Absent
      BY <2>1, <3>1, <1>2, NodeKinds DEF Tree, Directory
    <3> QED BY <1>3, <2>1, <2>2, <3>2
  <2>3. CASE q \notin Under(p)
    <3>1. q \in Above[p] BY <1>1, <1>2, <2>1, <2>3, PathAssumption DEF Under
    <3>2. old[q] = Directory BY <3>1 DEF Replaces, Disagrees, Reached
    <3>3. q \notin Region(replaced)
      <4> SUFFICES ASSUME NEW k \in replaced, q \in Under(k) PROVE FALSE
        BY DEF Region
      <4>1. k \in Path /\ p \in Under(q) BY <1>2, <3>1 DEF Under, Replaces
      <4>2. p \in Under(k) BY <4>1, UnderClosed
      <4>3. p # k BY <2>3
      <4> QED BY <1>2, <4>1, <4>2, <4>3, DisagreementsApart DEF Replaces
    <3> QED BY <2>1, <3>2, <3>3 DEF Inside, Outside
  <2> QED BY <2>2, <2>3
<1>5. CanMkdirAll(t, Above[x]) BY <1>4 DEF CanMkdirAll
<1>6. t[x] = new[x] \/ (t[x] = Absent \/ (x = p /\ t[x] = old[p] /\ old[p].kind = new[p].kind
                                           /\ old[p] # Directory))
  BY <1>1, <1>3, BeforeIs
<1>7. x \notin Above[x] BY <1>2, PathAssumption
<1> HIDE DEF x, t, then
<1>8. CASE c.kind = "CREATE_DIRECTORY"
  <2>1. new[x] = Directory BY <1>1, <1>2, <1>8, NodeKinds DEF Tree
  <2>2. t[x] \in {Absent, Directory}
    BY <1>2, <1>6, <2>1, NodeKinds DEF Tree, Directory
  <2>3. CanMkdirAll(t, Above[x] \cup {x}) BY <1>4, <2>2 DEF CanMkdirAll
  <2>4. then = MkdirAll(t, Above[x] \cup {x}) BY <1>8, <2>3 DEF applyChange, then, t, x
  <2>5. \A q \in Path : then[q] = IF q \in Above[x] \cup {x} THEN Directory ELSE t[q]
    BY <2>4 DEF MkdirAll
  <2>6. \A q \in Under(p) : then[q] \in {t[q], new[q]}
    BY <1>4, <2>1, <2>5 DEF Under
  <2>7. then[x] = new[x] BY <1>2, <2>1, <2>5
  <2> QED BY <2>6, <2>7 DEF then, t, x
<1>9. ASSUME then = Land(t, c)
      PROVE  then[x] = new[x] /\ \A q \in Under(p) : then[q] \in {t[q], new[q]}
  <2> DEFINE m == MkdirAll(t, Above[x])
  <2>1. m = [q \in Path |-> IF q \in Above[x] THEN Directory ELSE t[q]] BY DEF MkdirAll
  <2>2. then = [m EXCEPT ![x] = new[x]] BY <1>1, <1>9 DEF Land, x
  <2>3. \A q \in Path : then[q] = IF q = x THEN new[x]
                                  ELSE IF q \in Above[x] THEN Directory ELSE t[q]
    <3> HIDE DEF m
    <3>1. \A q \in Path : m[q] = IF q \in Above[x] THEN Directory ELSE t[q] BY <2>1
    <3>2. DOMAIN m = Path BY <2>1
    <3> QED BY <2>2, <3>1, <3>2
  <2> QED BY <1>2, <1>4, <2>3 DEF Under
<1>10. CASE c.kind = "CREATE_FILE"
  <2>0. CASE c.node.digest \notin now.staged
    <3>1. x \in missed BY <1>10, <2>0 DEF Inside, Stocked, x
    <3>2. then = t BY <1>10, <2>0 DEF applyChange, CanCreateFile, then, t
    <3> QED BY <3>1, <3>2 DEF then, t, x
  <2>1. CASE c.node.digest \in now.staged
    <3>1. t[x] # Directory
      <4>1. new[x] # Directory BY <1>1, <1>10 DEF Directory, x
      <4> QED BY <1>6, <4>1, PlainNodes
    <3>2. CanCreateFile(t, now.staged, c) BY <1>5, <2>1, <3>1 DEF CanCreateFile, x
    <3>3. then = Land(t, c) BY <1>10, <3>2 DEF applyChange, then, t
    <3> QED BY <1>9, <3>3 DEF then, t, x
  <2> QED BY <2>0, <2>1
<1>11. CASE c.kind = "CREATE_SYMLINK"
  <2>1. ASSUME NEW q \in Under(x) \ {x} PROVE t[q] = Absent
    <3>1. q \in Path /\ x \in Above[q] BY <1>2 DEF Under
    <3>2. new[x] # Directory BY <1>1, <1>11 DEF Directory, x
    <3>3. new[q] = Absent BY <1>2, <3>1, <3>2 DEF Tree
    <3>4. q \in Under(p) BY <1>1, <1>2, <3>1, UnderClosed DEF x, Under
    <3>5. Before(old, new, p, q) = Absent BY <3>3, <3>4, BeforeIs
    <3> QED BY <1>3, <3>3, <3>4, <3>5 DEF t
  <2>2. CanCreateSymlink(t, c) BY <1>5, <2>1 DEF CanCreateSymlink, x
  <2>3. then = Land(t, c) BY <1>11, <2>2 DEF applyChange, then, t
  <2> QED BY <1>9, <2>3 DEF then, t, x
<1>12. CASE c.kind = "SET_EXECUTABLE"
  <2>1. x = p /\ OnlyChmod(old[p], new[p]) /\ new[p] \in File /\ old[p] \in File
    BY <1>1, <1>2, <1>12, NodeKinds DEF OnlyChmod, Tree, x
  <2>2. t[x] = new[p] \/ t[x] = old[p] \/ t[x] = Absent BY <1>6, <2>1
  <2>3. t[x] # Absent
    <3>1. old[p].kind = new[p].kind BY <2>1 DEF OnlyChmod
    <3>2. Removals(old, new, p) = {} BY <3>1 DEF Removals
    <3>3. Before(old, new, p, p) = old[p] BY <3>2 DEF Before
    <3>4. p \in Under(p) BY <1>2 DEF Under
    <3>5. old[p] # Absent /\ new[p] # Absent BY <2>1 DEF File, Absent
    <3> QED BY <1>3, <2>1, <3>3, <3>4, <3>5 DEF t
  <2>4. t[x] \in File BY <2>1, <2>2, <2>3
  <2>5. then = [t EXCEPT ![x] = [t[x] EXCEPT !.executable = new[x].executable]]
    BY <1>1, <1>12, <2>4 DEF applyChange, SetExecutable, then, t, x, File
  <2>6. [t[x] EXCEPT !.executable = new[x].executable] = new[x]
    <3>1. new[p].digest = old[p].digest BY <2>1 DEF OnlyChmod
    <3> QED BY <2>1, <2>2, <2>3, <3>1 DEF File
  <2>7. then = [t EXCEPT ![x] = new[x]] BY <2>5, <2>6
  <2>8. DOMAIN t = Path BY <1>2 DEF Tree
  <2> QED BY <1>2, <2>7, <2>8 DEF then, t, x, Under
<1> QED BY <1>1, <1>8, <1>10, <1>11, <1>12 DEF Change, x

\* Each change brings its subtree on; of two files to create with one content, one
\* may be missed.
LEMMA ChangeSettles ==
  ASSUME NEW old, NEW new, NEW replaced, Replaces(old, new, replaced),
         NEW missed, NEW now, Inside(now, old, new, replaced, missed),
         NEW c \in NextChanges(now.left),
         \/ ~SameContentTwice(Plan(old, new, replaced))
         \/ Made(Plan(old, new, replaced)) \subseteq missed
  PROVE  Inside(After(now, c), old, new, replaced, missed)
<1>0. c \in now.left /\ now.left \subseteq Plan(old, new, replaced) /\ now.left \subseteq Change
  BY PlanIs DEF NextChanges, Inside, Outside
<1>1. PICK p \in replaced : c \in Change /\ c \in flatten(old, new, p) /\ Within(c, p)
  BY <1>0, PlanIs
<1> DEFINE then == After(now, c)
<1>2. /\ then.tree = applyChange(now.tree, now.staged, c) /\ then.left = now.left \ {c}
      /\ then.staged = stagedAfter(now.tree, now.staged, c)
  BY DEF After
<1> HIDE DEF then
<1>3. Outside(then, old, new, replaced) BY <1>0, OutsideKept DEF Inside, then
<1>4. Stocked(then, missed)
  <2> SUFFICES ASSUME NEW d \in then.left, d.kind = "CREATE_FILE"
               PROVE  d.node.digest \in then.staged \/ d.path \in missed
    BY DEF Stocked
  <2>1. d \in now.left /\ d # c BY <1>2
  <2>2. d.node.digest \in now.staged \/ d.path \in missed BY <2>1 DEF Inside, Stocked
  <2>3. CASE Made(Plan(old, new, replaced)) \subseteq missed BY <1>0, <2>1, <2>3 DEF Made
  <2>4. CASE ~SameContentTwice(Plan(old, new, replaced))
    <3>1. c.kind = "CREATE_FILE" => d.node.digest # c.node.digest
      BY <1>0, <2>1, <2>4 DEF SameContentTwice
    <3> QED BY <1>2, <2>2, <3>1 DEF stagedAfter
  <2> QED BY <2>3, <2>4
<1>5. ASSUME NEW k \in replaced, k # p PROVE Settled(then, old, new, k, missed)
  BY <1>0, <1>1, <1>5, OthersSettled DEF then
<1>6. p \in Path /\ Settled(now, old, new, p, missed) /\ now.tree \in Tree
  BY DEF Replaces, Inside, Outside
<1>7. CASE c.kind = "REMOVE"
  <2>1. c = Removal(p) /\ Removals(old, new, p) # {} /\ c.path = p
    BY <1>1, <1>7, FlattenIs DEF Replaces, Removal, ChangeOf
  <2>2. then.tree = RemoveAll(now.tree, p) BY <1>2, <1>7, <2>1 DEF applyChange
  <2>3. \A q \in Under(p) : then.tree[q] = Absent /\ Before(old, new, p, q) = Absent
    BY <2>1, <2>2 DEF RemoveAll, Before, Under
  <2>4. Removal(p) \in now.left /\ Removal(p) \notin then.left BY <1>0, <1>2, <2>1
  <2>5. flatten(old, new, p) \subseteq now.left BY <1>6, <2>4 DEF Settled
  <2>6. ASSUME NEW q \in Under(p), new[q] # Absent
        PROVE  \E d \in then.left : d.path = q /\ d.kind # "REMOVE"
    <3>1. \E d \in flatten(old, new, p) : d.path = q /\ d.kind # "REMOVE" BY <2>6, CreationIs
    <3> QED BY <1>2, <1>7, <2>5, <3>1
  <2>7. Settled(then, old, new, p, missed) BY <2>3, <2>4, <2>6 DEF Settled
  <2> QED BY <1>3, <1>4, <1>5, <2>7 DEF Inside, then
<1>8. CASE c.kind # "REMOVE"
  <2>1. \A d \in now.left : d.kind # "REMOVE" BY <1>0, <1>8, RemovalsFirst
  <2>2. Removal(p) \notin now.left /\ Removal(p) \notin then.left
    BY <1>2, <2>1 DEF Removal, ChangeOf
  <2>3. /\ then.tree[c.path] = new[c.path] \/ c.path \in missed
        /\ \A q \in Under(p) : then.tree[q] \in {now.tree[q], new[q]}
    BY <1>0, <1>1, <1>2, <1>8, <2>2, CreationLands
  <2>4. ASSUME NEW q \in Under(p)
        PROVE  \/ then.tree[q] = new[q]
               \/ /\ then.tree[q] = Before(old, new, p, q)
                  /\ \/ q \in missed
                     \/ \E d \in then.left : d.path = q /\ d.kind # "REMOVE"
    <3>1. \/ now.tree[q] = new[q]
          \/ /\ now.tree[q] = Before(old, new, p, q)
             /\ \/ q \in missed
                \/ \E d \in now.left : d.path = q /\ d.kind # "REMOVE"
      BY <1>6, <2>2 DEF Settled
    <3>2. CASE q = c.path BY <2>3, <3>1, <3>2
    <3>3. CASE q # c.path BY <1>2, <2>3, <3>1, <3>3
    <3> QED BY <3>2, <3>3
  <2>5. Settled(then, old, new, p, missed) BY <2>2, <2>4 DEF Settled
  <2> QED BY <1>3, <1>4, <1>5, <2>5 DEF Inside, then
<1> QED BY <1>7, <1>8

\* A batch makes every subtree it replaces what it should be, but for files whose
\* content went into another one: there it leaves what was there before.
LEMMA BatchSettles ==
  ASSUME NEW old, NEW new, NEW replaced, Replaces(old, new, replaced), NEW missed,
         \/ ~SameContentTwice(Plan(old, new, replaced))
         \/ Made(Plan(old, new, replaced)) \subseteq missed
  PROVE  LET changes == Plan(old, new, replaced)
         IN \A n \in 0..Cardinality(changes) :
              Inside(Batch(old, changes)[n], old, new, replaced, missed)
<1> DEFINE changes == Plan(old, new, replaced)
           last == Cardinality(changes)
           at(n) == Batch(old, changes)[n]
           set == {n \in 0..last : Inside(at(n), old, new, replaced, missed)}
<1>1. /\ last \in Nat /\ at(0) = Start(old, changes)
      /\ \A n \in 1..last : /\ Chosen(at(n - 1)) \in NextChanges(at(n - 1).left)
                            /\ at(n) = After(at(n - 1), Chosen(at(n - 1)))
  BY BatchGoes
<1>2. 0 \in set
  <2>1. Inside(at(0), old, new, replaced, missed) BY <1>1, SettledAtFirst
  <2> HIDE DEF at, last
  <2> QED BY <1>1, <2>1
<1>3. ASSUME NEW n \in 1..last, n - 1 \in set PROVE n \in set
  <2> HIDE DEF at
  <2>1. Inside(at(n - 1), old, new, replaced, missed) BY <1>3
  <2>2. Inside(at(n), old, new, replaced, missed) BY <1>1, <2>1, ChangeSettles
  <2> HIDE DEF last
  <2> QED BY <1>1, <2>2
<1>4. \A n \in 0..last : n \in set
  <2> HIDE DEF set, last
  <2> QED BY <1>1, <1>2, <1>3, StepByStep
<1> QED BY <1>4

LEMMA TransitionSettles ==
  ASSUME NEW old, NEW new, NEW replaced, Replaces(old, new, replaced), NEW missed,
         \/ ~SameContentTwice(Plan(old, new, replaced))
         \/ Made(Plan(old, new, replaced)) \subseteq missed,
         NEW p \in replaced, NEW q \in Under(p)
  PROVE  LET then == Transition(old, Plan(old, new, replaced))
         IN  then[q] = new[q] \/ (q \in missed /\ then[q] = Before(old, new, p, q))
<1> DEFINE changes == Plan(old, new, replaced)
           last == Cardinality(changes)
           at(n) == Batch(old, changes)[n]
<1>1. last \in 0..last /\ at(last).left = {}
  <2>1. last \in Nat /\ at(last).left = {} BY BatchGoes
  <2> HIDE DEF last
  <2> QED BY <2>1
<1>2. Inside(at(last), old, new, replaced, missed)
  <2>1. \A n \in 0..last : Inside(at(n), old, new, replaced, missed) BY BatchSettles
  <2> HIDE DEF last, at
  <2> QED BY <1>1, <2>1
<1>3. at(last).tree[q] = new[q] \/ (q \in missed /\ at(last).tree[q] = Before(old, new, p, q))
  <2> HIDE DEF last, at
  <2> QED BY <1>1, <1>2 DEF Inside, Settled
<1> QED BY <1>3 DEF Transition

LEMMA TransitionLands ==
  ASSUME NEW old, NEW new, NEW replaced, Replaces(old, new, replaced),
         ~SameContentTwice(Plan(old, new, replaced)), NEW q \in Region(replaced)
  PROVE  Transition(old, Plan(old, new, replaced))[q] = new[q]
<1> DEFINE then == Transition(old, Plan(old, new, replaced))
<1>1. PICK p \in replaced : q \in Under(p) BY DEF Region
<1> DEFINE none == {}
<1>2. q \notin none OBVIOUS
<1> HIDE DEF none
<1>3. then[q] = new[q] \/ q \in none BY <1>1, TransitionSettles
<1> QED BY <1>2, <1>3

\* Some change of a batch takes effect: of files that are all to be created, the
\* first finds its content.
LEMMA FirstLands ==
  ASSUME NEW old, NEW new, NEW replaced, Replaces(old, new, replaced),
         Plan(old, new, replaced) # {}
  PROVE  \E c \in Plan(old, new, replaced) :
           \/ c.kind # "CREATE_FILE"
           \/ Transition(old, Plan(old, new, replaced))[c.path] = new[c.path]
<1> DEFINE changes == Plan(old, new, replaced)
           last == Cardinality(changes)
           at(n) == Batch(old, changes)[n]
<1>1. SUFFICES ASSUME \A c \in changes : c.kind = "CREATE_FILE"
               PROVE  \E c \in changes : at(last).tree[c.path] = new[c.path]
  BY DEF Transition
<1>2. /\ last \in Nat /\ at(0) = Start(old, changes)
      /\ \A n \in 0..last : Outside(at(n), old, new, replaced)
      /\ \A n \in 1..last : /\ Chosen(at(n - 1)) \in NextChanges(at(n - 1).left)
                            /\ at(n) = After(at(n - 1), Chosen(at(n - 1)))
  BY BatchGoes
<1>3. last # 0 BY PlanFinite, FS_EmptySet
<1>4. \A n \in 0..last : Inside(at(n), old, new, replaced, Path)
  <2>1. Made(changes) \subseteq Path BY PlanIs DEF Made, Change
  <2> QED BY <2>1, BatchSettles
<1> DEFINE first == Chosen(at(0))
           x == first.path
           set == {n \in 0..last : n = 0 \/ at(n).tree[x] = new[x]}
<1>5. \A n \in 0..last : at(n).left \subseteq changes
  <2> HIDE DEF at, last
  <2> QED BY <1>2 DEF Outside
<1>6. first \in changes /\ at(1) = After(at(0), first) /\ x \in Path
  <2>1. 1 \in 1..last /\ 0 \in 0..last /\ 1 - 1 = 0
    <3> HIDE DEF last
    <3> QED BY <1>2, <1>3
  <2>2. first \in at(0).left /\ at(1) = After(at(0), first)
    <3> HIDE DEF last, at
    <3> QED BY <1>2, <2>1 DEF NextChanges
  <2>3. first \in changes
    <3> HIDE DEF last, at, changes
    <3> QED BY <1>5, <2>1, <2>2
  <2>4. x \in Path
    <3> HIDE DEF first
    <3> QED BY <2>3, PlanIs DEF Change
  <2> QED BY <2>2, <2>3, <2>4
<1> HIDE DEF at, first
<1>7. ASSUME NEW now, Outside(now, old, new, replaced), NEW c \in now.left
      PROVE  /\ c \in changes /\ c.kind = "CREATE_FILE"
             /\ \A p \in replaced : Removal(p) \notin now.left
  <2>1. now.left \subseteq changes BY <1>7 DEF Outside
  <2>2. \A p \in replaced : Removal(p).kind # "CREATE_FILE" BY DEF Removal, ChangeOf
  <2> HIDE DEF changes
  <2> QED BY <1>1, <1>7, <2>1, <2>2
<1>8. at(1).tree[x] = new[x]
  <2>1. Inside(at(0), old, new, replaced, {}) BY <1>2, SettledAtFirst
  <2>2. Outside(at(0), old, new, replaced) BY <2>1 DEF Inside
  <2>3. first \in at(0).left BY <1>2, <1>6 DEF Start
  <2>4. PICK p \in replaced : first \in flatten(old, new, p) BY <1>6, PlanIs
  <2>5. first.kind # "REMOVE" /\ Removal(p) \notin at(0).left BY <1>7, <2>2, <2>3, <2>4
  <2>6. applyChange(at(0).tree, at(0).staged, first)[x] = new[x]
    <3>1. \/ applyChange(at(0).tree, at(0).staged, first)[first.path] = new[first.path]
          \/ first.path \in {}
      BY <2>1, <2>3, <2>4, <2>5, CreationLands
    <3> QED BY <3>1
  <2> QED BY <1>6, <2>6 DEF After
<1>9. ASSUME NEW n \in 1..last, n - 1 \in set PROVE n \in set
  <2>1. CASE n = 1 BY <1>8, <2>1
  <2>2. CASE n # 1
    <3> DEFINE now == at(n - 1)
               c == Chosen(at(n - 1))
    <3>1. n - 1 \in 0..last /\ n - 1 # 0
      <4> HIDE DEF last
      <4> QED BY <1>2, <2>2
    <3>2. now.tree[x] = new[x]
      <4> HIDE DEF last
      <4> QED BY <1>9, <3>1
    <3>3. /\ c \in now.left /\ Outside(now, old, new, replaced)
          /\ Inside(now, old, new, replaced, Path)
          /\ at(n).tree = applyChange(now.tree, now.staged, c)
      <4>1. c \in NextChanges(now.left) /\ at(n) = After(now, c)
        <5> HIDE DEF last
        <5> QED BY <1>2
      <4>2. Inside(now, old, new, replaced, Path)
        <5> HIDE DEF last
        <5> QED BY <1>4, <3>1
      <4> QED BY <4>1, <4>2 DEF Inside, NextChanges, After
    <3> HIDE DEF now, c, last
    <3>4. c \in changes /\ c.kind # "REMOVE" BY <1>7, <3>3
    <3>5. PICK p \in replaced : c \in Change /\ c \in flatten(old, new, p) /\ Within(c, p)
      BY <3>4, PlanIs
    <3>6. Removal(p) \notin now.left BY <1>7, <3>3, <3>5
    <3>7. CASE x \in Under(p)
      <4>1. applyChange(now.tree, now.staged, c)[x] \in {now.tree[x], new[x]}
        BY <3>3, <3>4, <3>5, <3>6, <3>7, CreationLands
      <4> QED BY <3>2, <3>3, <4>1
    <3>8. CASE x \notin Under(p)
      <4>1. applyChange(now.tree, now.staged, c)[x] = now.tree[x]
        BY <1>6, <3>3, <3>5, <3>8, ChangeInside DEF Outside
      <4> QED BY <3>2, <3>3, <4>1
    <3> QED BY <3>7, <3>8
  <2> QED BY <2>1, <2>2
<1>10. at(last).tree[x] = new[x]
  <2>1. 0 \in set
    <3> HIDE DEF last
    <3> QED BY <1>2
  <2>2. \A n \in 0..last : n \in set
    <3> HIDE DEF set, last
    <3> QED BY <1>2, <1>9, <2>1, StepByStep
  <2>3. last \in 0..last
    <3> HIDE DEF last
    <3> QED BY <1>2
  <2> HIDE DEF last
  <2> QED BY <1>3, <2>2, <2>3
<1> QED BY <1>6, <1>10

\* So fewer files are missed than there are changes.
Lost(changes, then, new) == {q \in Made(changes) : then[q] # new[q]}

LEMMA LostAreFewer ==
  ASSUME NEW old, NEW new, NEW replaced, Replaces(old, new, replaced)
  PROVE  LET changes == Plan(old, new, replaced)
             lost == Lost(changes, Transition(old, changes), new)
         IN  /\ IsFiniteSet(lost) /\ IsFiniteSet(changes)
             /\ Cardinality(lost) <= Cardinality(changes)
             /\ changes # {} => Cardinality(lost) < Cardinality(changes)
<1> DEFINE changes == Plan(old, new, replaced)
           then == Transition(old, changes)
           lost == Lost(changes, then, new)
           undone == {c \in changes : c.kind = "CREATE_FILE" /\ then[c.path] # new[c.path]}
           pathOf == [c \in undone |-> c.path]
<1>1. IsFiniteSet(changes) BY PlanFinite
<1>2. changes # {} => undone # changes
  <2>1. changes # {} => \E c \in changes : c.kind # "CREATE_FILE" \/ then[c.path] = new[c.path]
    BY FirstLands
  <2> HIDE DEF changes, then
  <2> QED BY <2>1
<1> HIDE DEF changes, then
<1>3. pathOf \in Surjection(undone, lost)
  <2>1. lost = {c.path : c \in undone} BY DEF Lost, Made
  <2> HIDE DEF lost, undone
  <2> QED BY <2>1 DEF Surjection
<1>4. /\ IsFiniteSet(undone) /\ Cardinality(undone) <= Cardinality(changes)
      /\ Cardinality(changes) = Cardinality(undone) => changes = undone
  BY <1>1, FS_Subset
<1> HIDE DEF lost, undone, pathOf
<1>5. IsFiniteSet(lost) /\ Cardinality(lost) <= Cardinality(undone)
  BY <1>3, <1>4, FS_Surjection
<1>6. Cardinality(lost) \in Nat /\ Cardinality(undone) \in Nat /\ Cardinality(changes) \in Nat
  BY <1>1, <1>4, <1>5, FS_CardinalityType
<1>7. /\ Cardinality(lost) <= Cardinality(changes)
      /\ changes # {} => Cardinality(lost) < Cardinality(changes)
  BY <1>2, <1>4, <1>5, <1>6
<1> QED BY <1>1, <1>5, <1>7 DEF lost, then, changes

-----------------------------------------------------------------------------
\* A cycle.

\* Whose version is taken at which of the paths in disagreement.
TakenFromLocal == {p \in Path : /\ Disagrees(tree["local"], tree["remote"], p)
                                /\ RemoteTakes(base, tree["local"], tree["remote"], p)}
TakenFromRemote == {p \in Path : /\ Disagrees(tree["local"], tree["remote"], p)
                                 /\ LocalTakes(base, tree["local"], tree["remote"], p)}

QuietTypes == base \in Tree /\ tree \in [Side -> Tree]

LEMMA PlansAre ==
  ASSUME QuietTypes
  PROVE  /\ toRemote = Plan(tree["remote"], tree["local"], TakenFromLocal)
         /\ Replaces(tree["remote"], tree["local"], TakenFromLocal)
         /\ toLocal = Plan(tree["local"], tree["remote"], TakenFromRemote)
         /\ Replaces(tree["local"], tree["remote"], TakenFromRemote)
<1>1. \A p \in Path : Disagrees(tree["local"], tree["remote"], p)
                        => Disagrees(tree["remote"], tree["local"], p)
  BY DEF Disagrees, Reached
<1>2. tree["local"] \in Tree /\ tree["remote"] \in Tree BY DEF QuietTypes, Side
<1>3. /\ toRemote = Plan(tree["remote"], tree["local"], TakenFromLocal)
      /\ toLocal = Plan(tree["local"], tree["remote"], TakenFromRemote)
  BY DEF toRemote, toLocal, ToRemote, ToLocal, Plan, TakenFromLocal, TakenFromRemote
<1> QED BY <1>1, <1>2, <1>3 DEF Replaces, TakenFromLocal, TakenFromRemote

LEMMA CycleGives ==
  ASSUME QuietTypes, Cycle
  PROVE  /\ base' \in Tree /\ tree' \in [Side -> Tree]
         /\ tree'["local"] = Transition(tree["local"], toLocal)
         /\ tree'["remote"] = Transition(tree["remote"], toRemote)
         /\ \A q \in Path \ Region(TakenFromRemote) : tree'["local"][q] = tree["local"][q]
         /\ \A q \in Path \ Region(TakenFromLocal) : tree'["remote"][q] = tree["remote"][q]
<1>1. base \in Tree /\ tree["local"] \in Tree /\ tree["remote"] \in Tree /\ DOMAIN tree = Side
  BY DEF QuietTypes, Side
<1>2. /\ tree' = [tree EXCEPT !["local"]  = Transition(tree["local"], toLocal),
                              !["remote"] = Transition(tree["remote"], toRemote)]
      /\ base' = NewAncestor(base, tree["local"], tree["remote"])
  BY DEF Cycle
<1>3. /\ tree'["local"] = Transition(tree["local"], toLocal)
      /\ tree'["remote"] = Transition(tree["remote"], toRemote)
      /\ tree' = [s \in Side |-> tree'[s]]
  BY <1>1, <1>2 DEF Side
<1>4. /\ tree'["local"] \in Tree /\ tree'["remote"] \in Tree
      /\ \A q \in Path \ Region(TakenFromRemote) : tree'["local"][q] = tree["local"][q]
      /\ \A q \in Path \ Region(TakenFromLocal) : tree'["remote"][q] = tree["remote"][q]
  BY <1>3, PlansAre, TransitionKeeps
<1>5. base' \in Tree BY <1>1, <1>2, NewAncestorIsTree
<1>6. tree' \in [Side -> Tree] BY <1>3, <1>4 DEF Side
<1> QED BY <1>3, <1>4, <1>5, <1>6

\* The bases and the roots of a quiet session are trees.
THEOREM QuietRoots == Spec => []QuietTypes
<1>1. Init => QuietTypes BY DEF Init, ShownTree, QuietTypes
<1>2. QuietTypes /\ [Next]_vars => QuietTypes'
  BY CycleGives DEF Next, QuietTypes, vars
<1> QED BY <1>1, <1>2, PTL DEF Spec

\* Different paths in disagreement have different outcomes, or the same path one.
LEMMA RegionsApart ==
  ASSUME QuietTypes, NEW p \in Path, Disagrees(tree["local"], tree["remote"], p), NEW q \in Under(p)
  PROVE  /\ q \in Region(TakenFromLocal) <=> p \in TakenFromLocal
         /\ q \in Region(TakenFromRemote) <=> p \in TakenFromRemote
         /\ q \in Quarantined <=> p \in conflicts
<1>1. q \in Path /\ p \in Under(p) BY DEF Under
<1>2. ASSUME NEW k \in Path, Disagrees(tree["local"], tree["remote"], k), q \in Under(k)
      PROVE  k = p
  BY <1>1, <1>2, UnderNested, DisagreementsApart
<1>3. /\ \A k \in TakenFromLocal : k \in Path /\ Disagrees(tree["local"], tree["remote"], k)
      /\ \A k \in TakenFromRemote : k \in Path /\ Disagrees(tree["local"], tree["remote"], k)
      /\ \A k \in conflicts : k \in Path /\ Disagrees(tree["local"], tree["remote"], k)
  BY DEF TakenFromLocal, TakenFromRemote, conflicts, Conflicts
<1> QED BY <1>2, <1>3 DEF Region, Quarantined

LEMMA ConflictsStay ==
  ASSUME QuietTypes, Cycle, NEW q \in Quarantined, NEW s \in Side
  PROVE  tree'[s][q] = tree[s][q]
<1>1. PICK p \in conflicts : q \in Under(p) BY DEF Quarantined
<1>2. /\ p \in Path /\ Disagrees(tree["local"], tree["remote"], p) /\ q \in Path
      /\ p \notin TakenFromLocal /\ p \notin TakenFromRemote
  BY <1>1 DEF conflicts, Conflicts, TakenFromLocal, TakenFromRemote, Under
<1>3. q \notin Region(TakenFromLocal) /\ q \notin Region(TakenFromRemote)
  BY <1>1, <1>2, RegionsApart
<1> QED BY <1>2, <1>3, CycleGives DEF Side

LEMMA NewWorkStays ==
  ASSUME QuietTypes, Cycle, NEW s \in Side, NEW q \in Path, tree[s][q] \notin {Absent, base[q]}
  PROVE  tree'[s][q] = tree[s][q]
<1>1. CASE s = "local"
  <2>1. q \notin Region(TakenFromRemote)
    <3> SUFFICES ASSUME NEW p \in TakenFromRemote, q \in Under(p) PROVE FALSE
      BY DEF Region
    <3>1. p \in Path /\ LocalTakes(base, tree["local"], tree["remote"], p)
      BY DEF TakenFromRemote
    <3> QED BY <1>1, <3>1, TakingLosesNothingNew
  <2> QED BY <1>1, <2>1, CycleGives
<1>2. CASE s = "remote"
  <2>1. q \notin Region(TakenFromLocal)
    <3> SUFFICES ASSUME NEW p \in TakenFromLocal, q \in Under(p) PROVE FALSE
      BY DEF Region
    <3>1. p \in Path /\ RemoteTakes(base, tree["local"], tree["remote"], p)
      BY DEF TakenFromLocal
    <3> QED BY <1>2, <3>1, TakingLosesNothingNew
  <2> QED BY <1>2, <2>1, CycleGives
<1> QED BY <1>1, <1>2 DEF Side

LEMMA AgreedStays ==
  ASSUME QuietTypes, Cycle, NEW q \in Path,
         ~\E p \in Path : Disagrees(tree["local"], tree["remote"], p) /\ q \in Under(p)
  PROVE  tree'["local"][q] = tree'["remote"][q]
<1>0. tree["local"] \in Tree /\ tree["remote"] \in Tree BY DEF QuietTypes, Side
<1>1. q \notin Region(TakenFromLocal) /\ q \notin Region(TakenFromRemote)
  BY DEF Region, TakenFromLocal, TakenFromRemote
<1>2. tree["local"][q] = tree["remote"][q]
  <2>1. \A p \in Above[q] : p \in Path /\ q \in Under(p) BY PathAssumption DEF Under
  <2>2. CASE Reached(tree["local"], tree["remote"], q)
    BY <2>2 DEF Disagrees, Under
  <2>3. CASE ~Reached(tree["local"], tree["remote"], q)
    BY <1>0, <2>1, <2>3, StoppedAbove
  <2> QED BY <2>2, <2>3
<1> QED BY <1>1, <1>2, CycleGives

LEMMA RootsAgree ==
  ASSUME QuietTypes, Cycle, ~SameContentTwice(toLocal), ~SameContentTwice(toRemote),
         NEW q \in Path \ Quarantined
  PROVE  tree'["local"][q] = tree'["remote"][q]
<1>1. tree["local"] \in Tree /\ tree["remote"] \in Tree BY DEF QuietTypes, Side
<1>2. CASE \E p \in Path : Disagrees(tree["local"], tree["remote"], p) /\ q \in Under(p)
  <2>1. PICK p \in Path : Disagrees(tree["local"], tree["remote"], p) /\ q \in Under(p)
    BY <1>2
  <2>2. p \in TakenFromLocal \/ p \in TakenFromRemote
    BY <2>1, RegionsApart DEF conflicts, Conflicts, TakenFromLocal, TakenFromRemote
  <2>3. ~(p \in TakenFromLocal /\ p \in TakenFromRemote)
    BY DEF TakenFromLocal, TakenFromRemote, LocalTakes
  <2>4. CASE p \in TakenFromLocal
    <3>1. q \in Region(TakenFromLocal) /\ q \notin Region(TakenFromRemote)
      BY <2>1, <2>3, <2>4, RegionsApart
    <3>2. tree'["local"][q] = tree["local"][q] BY <3>1, CycleGives
    <3>3. tree'["remote"][q] = tree["local"][q]
      <4>1. Transition(tree["remote"], toRemote)[q] = tree["local"][q]
        BY <3>1, PlansAre, TransitionLands
      <4> QED BY <4>1, CycleGives
    <3> QED BY <3>2, <3>3
  <2>5. CASE p \in TakenFromRemote
    <3>1. q \in Region(TakenFromRemote) /\ q \notin Region(TakenFromLocal)
      BY <2>1, <2>3, <2>5, RegionsApart
    <3>2. tree'["remote"][q] = tree["remote"][q] BY <3>1, CycleGives
    <3>3. tree'["local"][q] = tree["remote"][q]
      <4>1. Transition(tree["local"], toLocal)[q] = tree["remote"][q]
        BY <3>1, PlansAre, TransitionLands
      <4> QED BY <4>1, CycleGives
    <3> QED BY <3>2, <3>3
  <2> QED BY <2>2, <2>4, <2>5
<1>3. CASE ~\E p \in Path : Disagrees(tree["local"], tree["remote"], p) /\ q \in Under(p)
  BY <1>3, AgreedStays
<1> QED BY <1>2, <1>3

-----------------------------------------------------------------------------
\* The cycle after.

\* Where both sides have a file or nothing, one change makes one the other.
Plain(t, p) == t[p] = Absent \/ t[p] \in File

LEMMA OneChange ==
  ASSUME NEW old \in Tree, NEW new \in Tree, NEW p \in Path, old[p] # new[p],
         Plain(old, p), Plain(new, p)
  PROVE  \E c : flatten(old, new, p) = {c}
<1>1. p \in Under(p) /\ new[p] # Directory /\ old[p] # Directory
  BY PlainNodes DEF Under, Plain, File, Directory
<1>2. ASSUME NEW q \in Under(p), q # p PROVE new[q] = Absent
  BY <1>1, <1>2 DEF Under, Tree
<1>3. CASE new[p] = Absent
  <2>1. old[p] # Absent /\ old[p].kind # new[p].kind
    BY <1>3 DEF Plain, File, Absent
  <2>2. Removals(old, new, p) = {ChangeOf("REMOVE", p, Absent)} BY <2>1 DEF Removals
  <2>3. \A q \in Under(p) : new[q].kind = "absent" BY <1>2, <1>3 DEF Absent
  <2>4. Creations(old, new, p) = {} BY <2>3 DEF Creations
  <2> QED BY <2>2, <2>4 DEF flatten
<1>4. CASE new[p] \in File
  <2> DEFINE c == ChangeOf(IF OnlyChmod(old[p], new[p]) THEN "SET_EXECUTABLE" ELSE "CREATE_FILE",
                           p, new[p])
  <2>1. Removals(old, new, p) = {} BY <1>4 DEF Removals, Plain, File
  <2>2. new[p].kind = "file" /\ \A q \in Under(p) : q # p => new[q].kind = "absent"
    BY <1>2, <1>4 DEF File, Absent
  <2>3. /\ {q \in Under(p) : new[q].kind = "directory"} = {}
        /\ {q \in Under(p) : new[q].kind = "symlink"} = {}
        /\ {q \in Under(p) : new[q].kind = "file"} = {p}
    BY <1>1, <2>2
  <2>4. Creations(old, new, p) = {c} BY <2>3 DEF Creations
  <2> HIDE DEF c
  <2> QED BY <2>1, <2>4 DEF flatten
<1> QED BY <1>3, <1>4 DEF Plain

LEMMA PlainPlan ==
  ASSUME NEW old \in Tree, NEW new \in Tree, NEW replaced, replaced \subseteq Path,
         \A p \in replaced : old[p] # new[p] /\ Plain(old, p) /\ Plain(new, p)
  PROVE  /\ IsFiniteSet(replaced) /\ IsFiniteSet(Plan(old, new, replaced))
         /\ Cardinality(Plan(old, new, replaced)) <= Cardinality(replaced)
<1> DEFINE change(p) == CHOOSE c : flatten(old, new, p) = {c}
           changeAt == [p \in replaced |-> change(p)]
           changes == Plan(old, new, replaced)
<1>1. IsFiniteSet(replaced) BY PathAssumption, FS_Subset
<1>2. \A p \in replaced : flatten(old, new, p) = {change(p)} BY OneChange
<1> HIDE DEF change
<1>3. changes = {change(p) : p \in replaced} BY <1>2 DEF Plan
<1>4. changeAt \in Surjection(replaced, changes)
  <2> HIDE DEF changes
  <2> QED BY <1>3 DEF Surjection
<1> HIDE DEF changeAt, changes
<1>5. IsFiniteSet(changes) /\ Cardinality(changes) <= Cardinality(replaced)
  BY <1>1, <1>4, FS_Surjection
<1> QED BY <1>1, <1>5 DEF changes

\* What is in a subtree and in the directories above it decides what is done there.
LEMMA SameDecision ==
  ASSUME NEW a, NEW l, NEW r, NEW b, NEW m, NEW s, NEW p \in Path,
         \A q \in Under(p) : b[q] = a[q] /\ m[q] = l[q] /\ s[q] = r[q]
  PROVE  /\ RemoteTakes(b, m, s, p) <=> RemoteTakes(a, l, r, p)
         /\ LocalTakes(b, m, s, p) <=> LocalTakes(a, l, r, p)
<1>1. p \in Under(p) BY DEF Under
<1>2. /\ Unchanged(b, s, p) <=> Unchanged(a, r, p)
      /\ Unchanged(b, m, p) <=> Unchanged(a, l, p)
      /\ OnlyDeleted(b, s, p) <=> OnlyDeleted(a, r, p)
      /\ OnlyDeleted(b, m, p) <=> OnlyDeleted(a, l, p)
  BY DEF Unchanged, OnlyDeleted
<1>3. m[p] = l[p] BY <1>1
<1>4. RemoteTakes(b, m, s, p) <=> RemoteTakes(a, l, r, p) BY <1>2, <1>3 DEF RemoteTakes
<1> QED BY <1>2, <1>4 DEF LocalTakes

\* The directories above a disagreement are in no replaced subtree.
LEMMA AboveStays ==
  ASSUME QuietTypes, Cycle, NEW p \in Path, Disagrees(tree["local"], tree["remote"], p),
         NEW q \in Above[p]
  PROVE  tree'["local"][q] = Directory /\ tree'["remote"][q] = Directory
<1>1. q \in Path /\ p \in Under(q) BY PathAssumption DEF Under
<1>2. tree["local"][q] = Directory /\ tree["remote"][q] = Directory BY DEF Disagrees, Reached
<1>3. ASSUME NEW k \in Path, Disagrees(tree["local"], tree["remote"], k) PROVE q \notin Under(k)
  <2> SUFFICES ASSUME q \in Under(k) PROVE FALSE
    OBVIOUS
  <2>1. p \in Under(k) BY <1>1, <1>3, UnderClosed
  <2>2. p # k BY <1>1, PathAssumption DEF Under
  <2> QED BY <1>3, <2>1, <2>2, DisagreementsApart
<1>4. q \notin Region(TakenFromLocal) /\ q \notin Region(TakenFromRemote)
  BY <1>3 DEF Region, TakenFromLocal, TakenFromRemote
<1> QED BY <1>1, <1>2, <1>4, CycleGives

\* A conflict is one in the next cycle too.
LEMMA ConflictsAgain ==
  ASSUME QuietTypes, Cycle, NEW k \in conflicts, NEW p \in Under(k),
         Disagrees(tree'["local"], tree'["remote"], p)
  PROVE  p \in conflicts'
<1> DEFINE l == tree["local"]
           r == tree["remote"]
           m == tree'["local"]
           s == tree'["remote"]
<1>1. k \in Path /\ p \in Path /\ k \in Under(k) /\ Disagrees(l, r, k)
      /\ ~RemoteTakes(base, l, r, k) /\ ~LocalTakes(base, l, r, k)
  BY DEF conflicts, Conflicts, Under
<1>2. \A q \in Under(k) : m[q] = l[q] /\ s[q] = r[q]
  <2>1. \A q \in Under(k) : q \in Quarantined BY DEF Quarantined
  <2> QED BY <2>1, ConflictsStay DEF Side
<1>3. \A q \in Under(k) : base'[q] = base[q]
  <2>1. base' = NewAncestor(base, l, r) BY DEF Cycle
  <2>2. \A q \in Under(k) : q \in Path /\ k \in Above[q] \cup {q} BY DEF Under
  <2> QED BY <1>1, <2>1, <2>2 DEF NewAncestor
<1>4. Disagrees(m, s, k)
  <2>1. \A q \in Above[k] : m[q] = Directory /\ s[q] = Directory BY <1>1, AboveStays
  <2> QED BY <1>1, <1>2, <2>1 DEF Disagrees, Reached
<1>5. p = k BY <1>1, <1>4, DisagreementsApart
<1>6. ~RemoteTakes(base', m, s, k) /\ ~LocalTakes(base', m, s, k)
  <2> HIDE DEF l, r, m, s
  <2> QED BY <1>1, <1>2, <1>3, SameDecision
<1> QED BY <1>1, <1>4, <1>5, <1>6 DEF conflicts, Conflicts

\* Where a batch left something else than it should, it is a file that was missed.
LEMMA LostIsPlain ==
  ASSUME NEW old, NEW new, NEW replaced, Replaces(old, new, replaced),
         NEW p \in replaced, NEW q \in Under(p),
         Transition(old, Plan(old, new, replaced))[q] # new[q]
  PROVE  LET changes == Plan(old, new, replaced)
             then == Transition(old, changes)
         IN  q \in Lost(changes, then, new) /\ Plain(then, q) /\ Plain(new, q)
<1> DEFINE changes == Plan(old, new, replaced)
           then == Transition(old, changes)
           made == Made(changes)
<1>1. q \in made /\ then[q] = Before(old, new, p, q)
  <2>1. made \subseteq made OBVIOUS
  <2> HIDE DEF made
  <2>2. \/ ~SameContentTwice(changes)
        \/ Made(changes) \subseteq made
    BY <2>1 DEF made
  <2> QED BY <2>2, TransitionSettles
<1>2. PICK c \in changes : c.kind = "CREATE_FILE" /\ c.path = q BY <1>1 DEF Made
<1>3. PICK k \in replaced : c \in flatten(old, new, k) BY <1>2, PlanIs
<1>4. /\ old \in Tree /\ new \in Tree /\ k \in Path /\ p \in Path /\ q \in Path
      /\ new[q].kind = "file"
  <2>1. old \in Tree /\ new \in Tree /\ k \in Path /\ p \in Path BY DEF Replaces
  <2>2. q \in Path BY DEF Under
  <2>3. new[c.path].kind = "file" BY <1>2, <1>3, <2>1, FlattenIs
  <2> QED BY <1>2, <2>1, <2>2, <2>3
<1>5. new[q] \in File BY <1>4, NodeKinds DEF Tree
<1>6. then[q] = Absent \/ (q = p /\ then[q] = old[p] /\ old[p].kind = new[p].kind)
  BY <1>1, BeforeIs
<1>7. then[q] = Absent \/ then[q] \in File BY <1>4, <1>6, NodeKinds DEF Tree
<1> QED BY <1>1, <1>5, <1>7 DEF Lost, Plain

\* What the next cycle has to do is at files this one missed.
LEMMA OnlyTheLost ==
  ASSUME QuietTypes, Cycle, NEW p \in Path,
         Disagrees(tree'["local"], tree'["remote"], p), p \notin conflicts'
  PROVE  /\ p \in Lost(toLocal, tree'["local"], tree["remote"])
                 \cup Lost(toRemote, tree'["remote"], tree["local"])
         /\ Plain(tree'["local"], p) /\ Plain(tree'["remote"], p)
<1>1. tree'["local"][p] # tree'["remote"][p] BY DEF Disagrees
<1>2. PICK k \in Path : Disagrees(tree["local"], tree["remote"], k) /\ p \in Under(k)
  BY <1>1, AgreedStays
<1>3. k \notin conflicts BY <1>2, ConflictsAgain
<1>4. k \in TakenFromLocal \/ k \in TakenFromRemote
  BY <1>2, <1>3 DEF conflicts, Conflicts, TakenFromLocal, TakenFromRemote
<1>5. ~(k \in TakenFromLocal /\ k \in TakenFromRemote)
  BY DEF TakenFromLocal, TakenFromRemote, LocalTakes
<1>6. CASE k \in TakenFromRemote
  <2>1. p \notin Region(TakenFromLocal) BY <1>2, <1>5, <1>6, RegionsApart
  <2>2. tree'["remote"][p] = tree["remote"][p] BY <2>1, CycleGives
  <2>3. tree'["local"] = Transition(tree["local"], toLocal) BY CycleGives
  <2>4. /\ p \in Lost(toLocal, tree'["local"], tree["remote"])
        /\ Plain(tree'["local"], p) /\ Plain(tree["remote"], p)
    BY <1>1, <1>2, <1>6, <2>2, <2>3, PlansAre, LostIsPlain
  <2> QED BY <2>2, <2>4 DEF Plain
<1>7. CASE k \in TakenFromLocal
  <2>1. p \notin Region(TakenFromRemote) BY <1>2, <1>5, <1>7, RegionsApart
  <2>2. tree'["local"][p] = tree["local"][p] BY <2>1, CycleGives
  <2>3. tree'["remote"] = Transition(tree["remote"], toRemote) BY CycleGives
  <2>4. /\ p \in Lost(toRemote, tree'["remote"], tree["local"])
        /\ Plain(tree'["remote"], p) /\ Plain(tree["local"], p)
    BY <1>1, <1>2, <1>7, <2>2, <2>3, PlansAre, LostIsPlain
  <2> QED BY <2>2, <2>4 DEF Plain
<1> QED BY <1>4, <1>6, <1>7

LEMMA CycleProgresses ==
  ASSUME QuietTypes, Cycle, Outstanding # 0
  PROVE  Outstanding' < Outstanding
<1> DEFINE m == tree'["local"]
           s == tree'["remote"]
           fromLocal == {p \in Path : Disagrees(m, s, p) /\ RemoteTakes(base', m, s, p)}
           fromRemote == {p \in Path : Disagrees(m, s, p) /\ LocalTakes(base', m, s, p)}
           lostHere == Lost(toLocal, m, tree["remote"])
           lostThere == Lost(toRemote, s, tree["local"])
<1>1. m \in Tree /\ s \in Tree BY CycleGives DEF Side
<1>2. /\ toRemote' = Plan(s, m, fromLocal) /\ toLocal' = Plan(m, s, fromRemote)
      /\ Outstanding' = Cardinality(toLocal') + Cardinality(toRemote')
  BY DEF toRemote, toLocal, ToRemote, ToLocal, Plan, Outstanding
<1>3. /\ m = Transition(tree["local"], toLocal) /\ s = Transition(tree["remote"], toRemote)
  BY CycleGives
<1>4. /\ IsFiniteSet(lostHere) /\ IsFiniteSet(toLocal)
      /\ Cardinality(lostHere) <= Cardinality(toLocal)
      /\ toLocal # {} => Cardinality(lostHere) < Cardinality(toLocal)
  BY <1>3, PlansAre, LostAreFewer
<1>5. /\ IsFiniteSet(lostThere) /\ IsFiniteSet(toRemote)
      /\ Cardinality(lostThere) <= Cardinality(toRemote)
      /\ toRemote # {} => Cardinality(lostThere) < Cardinality(toRemote)
  BY <1>3, PlansAre, LostAreFewer
<1>6. ASSUME NEW p \in fromLocal \cup fromRemote
      PROVE  /\ p \in Path /\ p \in lostHere \cup lostThere
             /\ m[p] # s[p] /\ Plain(m, p) /\ Plain(s, p)
  <2>1. p \in Path /\ Disagrees(m, s, p) /\ p \notin conflicts'
    BY DEF conflicts, Conflicts
  <2> QED BY <2>1, OnlyTheLost DEF Disagrees
<1>7. fromLocal \cap fromRemote = {} BY DEF LocalTakes
<1> HIDE DEF m, s, fromLocal, fromRemote, lostHere, lostThere
<1>8. /\ IsFiniteSet(fromLocal) /\ IsFiniteSet(toRemote')
      /\ Cardinality(toRemote') <= Cardinality(fromLocal)
  BY <1>1, <1>2, <1>6, PlainPlan
<1>9. /\ IsFiniteSet(fromRemote) /\ IsFiniteSet(toLocal')
      /\ Cardinality(toLocal') <= Cardinality(fromRemote)
  BY <1>1, <1>2, <1>6, PlainPlan
<1>10. Cardinality(fromLocal \cup fromRemote) = Cardinality(fromLocal) + Cardinality(fromRemote)
  <2>1. Cardinality(fromLocal \cap fromRemote) = 0 BY <1>7, FS_EmptySet
  <2>2. Cardinality(fromLocal) \in Nat /\ Cardinality(fromRemote) \in Nat
    BY <1>8, <1>9, FS_CardinalityType
  <2>3. Cardinality(fromLocal \cup fromRemote)
          = Cardinality(fromLocal) + Cardinality(fromRemote) - Cardinality(fromLocal \cap fromRemote)
    BY <1>8, <1>9, FS_Union
  <2> QED BY <2>1, <2>2, <2>3
<1>11. /\ IsFiniteSet(lostHere \cup lostThere)
       /\ Cardinality(lostHere \cup lostThere) <= Cardinality(lostHere) + Cardinality(lostThere)
  <2>1. /\ IsFiniteSet(lostHere \cup lostThere)
        /\ Cardinality(lostHere \cup lostThere)
              = Cardinality(lostHere) + Cardinality(lostThere) - Cardinality(lostHere \cap lostThere)
    BY <1>4, <1>5, FS_Union
  <2>2. IsFiniteSet(lostHere \cap lostThere) BY <1>4, FS_Subset
  <2>3. /\ Cardinality(lostHere) \in Nat /\ Cardinality(lostThere) \in Nat
        /\ Cardinality(lostHere \cap lostThere) \in Nat
    BY <1>4, <1>5, <2>2, FS_CardinalityType
  <2> QED BY <2>1, <2>3
<1>12. Cardinality(fromLocal \cup fromRemote) <= Cardinality(lostHere \cup lostThere)
  BY <1>6, <1>11, FS_Subset
<1>13. toLocal # {} \/ toRemote # {}
  <2>1. toLocal = {} /\ toRemote = {} => Outstanding = 0 BY FS_EmptySet DEF Outstanding
  <2> QED BY <2>1
<1>14. /\ Cardinality(toLocal) \in Nat /\ Cardinality(toRemote) \in Nat
       /\ Cardinality(lostHere) \in Nat /\ Cardinality(lostThere) \in Nat
       /\ Cardinality(fromLocal) \in Nat /\ Cardinality(fromRemote) \in Nat
       /\ Cardinality(lostHere \cup lostThere) \in Nat
       /\ Cardinality(toLocal') \in Nat /\ Cardinality(toRemote') \in Nat
  BY <1>4, <1>5, <1>8, <1>9, <1>11, FS_CardinalityType
<1>15. Outstanding = Cardinality(toLocal) + Cardinality(toRemote) BY DEF Outstanding
<1>16. Cardinality(lostHere) + Cardinality(lostThere) < Cardinality(toLocal) + Cardinality(toRemote)
  BY <1>4, <1>5, <1>13, <1>14
<1>17. Cardinality(toLocal') + Cardinality(toRemote') <= Cardinality(lostHere) + Cardinality(lostThere)
  BY <1>8, <1>9, <1>10, <1>11, <1>12, <1>14
<1> QED BY <1>2, <1>14, <1>15, <1>16, <1>17

\* One cycle nobody disturbs brings the roots together everywhere outside the
\* conflicts, unless it has to create two files of one content, for every set of
\* paths, every base and every pair of roots (Cycle.Run, reconcile.go).
THEOREM OneCycleIsEnough == Spec => OneCycleAgrees
<1>1. QuietTypes /\ [Next]_vars =>
        [\/ SameContentTwice(toLocal) \/ SameContentTwice(toRemote)
         \/ \A p \in Path \ Quarantined : tree'["local"][p] = tree'["remote"][p]]_vars
  BY RootsAgree DEF Next
<1> QED BY <1>1, QuietRoots, PTL DEF Spec, OneCycleAgrees

\* Both versions of a conflict survive a cycle, with everything inside them, for
\* every set of paths, every base and every pair of roots (reconcile.go).
THEOREM ConflictsLastOneCycle == Spec => ConflictsKeepBoth
<1>1. QuietTypes /\ [Next]_vars =>
        [\A p \in Quarantined, s \in Side : tree'[s][p] = tree[s][p]]_vars
  BY ConflictsStay DEF Next
<1> QED BY <1>1, QuietRoots, PTL DEF Spec, ConflictsKeepBoth

\* What is new on one side is on some side after the cycle, contents that are
\* staged once and asked for twice included.
THEOREM CyclesKeepNewWork == Spec => NewWorkSurvives
<1>1. QuietTypes /\ [Next]_vars =>
        [\A s \in Side, p \in Path :
           tree[s][p] \notin {Absent, Directory, base[p]} =>
             \E o \in Side : tree'[o][p] = tree[s][p]]_vars
  BY NewWorkStays DEF Next
<1> QED BY <1>1, QuietRoots, PTL DEF Spec, NewWorkSurvives

\* Left alone, a session comes to rest: every cycle that has something to do leaves
\* less of it, for every set of paths, every base and every pair of roots, however
\* many files of one content there are (Cycle.Run, tree.createFile).
THEOREM CyclesComeToRest == Spec => EveryCycleProgresses
<1>1. QuietTypes /\ [Next]_vars => [Outstanding = 0 \/ Outstanding' < Outstanding]_vars
  BY CycleProgresses DEF Next
<1> QED BY <1>1, QuietRoots, PTL DEF Spec, EveryCycleProgresses

-----------------------------------------------------------------------------
\* Places.  Below(p) is p and what is inside it, Between(p, q) what the recursion
\* visits on its way from p to q.
Below(p) == {q \in Place : q = p \/ p \in Up(q)}
Between(p, q) == Up(q) \cap Below(p)

\* Up is the strict prefix order of the places.
LEMMA UpIsOrder ==
  /\ \A p \in Place : /\ Up(p) \subseteq Place
                      /\ p \notin Up(p)
                      /\ \A q \in Up(p) : Up(q) \subseteq Up(p)
                      /\ \A q, r \in Up(p) : q = r \/ q \in Up(r) \/ r \in Up(q)
  /\ \A p \in Path : p \in Place /\ p # Root /\ Up(p) = Above[p] \cup {Root}
  /\ Root \in Place /\ Up(Root) = {}
  /\ IsFiniteSet(Place)
<1>1. /\ Root \in Place /\ Up(Root) = {}
      /\ \A p \in Path : p \in Place /\ p # Root /\ Up(p) = Above[p] \cup {Root}
  BY RootAssumption DEF Place, Up
<1>2. IsFiniteSet(Place) BY PathAssumption, FS_AddElement DEF Place
<1>3. ASSUME NEW p \in Path
      PROVE  /\ Up(p) \subseteq Place
             /\ p \notin Up(p)
             /\ \A q \in Up(p) : Up(q) \subseteq Up(p)
             /\ \A q, r \in Up(p) : q = r \/ q \in Up(r) \/ r \in Up(q)
  <2>1. /\ Above[p] \subseteq Path /\ p \notin Above[p]
        /\ \A q \in Above[p] : Above[q] \subseteq Above[p]
        /\ \A q, r \in Above[p] : q = r \/ q \in Above[r] \/ r \in Above[q]
    BY PathAssumption
  <2>2. \A q \in Up(p) : q = Root \/ q \in Above[p] BY <1>1
  <2>3. Up(p) \subseteq Place /\ p \notin Up(p) BY <1>1, <2>1, <2>2
  <2>4. \A q \in Up(p) : Up(q) \subseteq Up(p) BY <1>1, <2>1, <2>2
  <2>5. \A q, r \in Up(p) : q = r \/ q \in Up(r) \/ r \in Up(q) BY <1>1, <2>1, <2>2
  <2> QED BY <2>3, <2>4, <2>5
<1> QED BY <1>1, <1>2, <1>3 DEF Place

LEMMA BelowIs ==
  ASSUME NEW p \in Place
  PROVE  /\ Below(p) \subseteq Place /\ p \in Below(p) /\ Between(p, p) = {}
         /\ \A q \in Below(p) : q # p => p \in Between(p, q)
         /\ \A q \in Below(p) : Between(p, q) \subseteq Place
BY UpIsOrder DEF Below, Between

\* What is inside a place is inside one of its children or is one of them.
LEMMA BelowIsChildren ==
  ASSUME NEW p \in Place
  PROVE  /\ \A x \in Children(p) : /\ x \in Path /\ x \in Below(p) /\ x # p
                                   /\ p \notin Below(x)
                                   /\ Below(x) \subseteq Below(p)
                                   /\ \A q \in Below(x) : Between(p, q) = {p} \cup Between(x, q)
         /\ \A q \in Below(p) : q # p => \E x \in Children(p) : q \in Below(x)
<1>1. ASSUME NEW x \in Children(p)
      PROVE  /\ x \in Path /\ x \in Below(p) /\ x # p /\ p \notin Below(x)
             /\ Below(x) \subseteq Below(p)
             /\ \A q \in Below(x) : Between(p, q) = {p} \cup Between(x, q)
  <2>1. x \in Path /\ x \in Place /\ Up(x) = Up(p) \cup {p} BY UpIsOrder DEF Children
  <2>2. p \in Up(x) /\ x # p /\ x \notin Up(p) BY <2>1, UpIsOrder
  <2>3. x \in Below(p) /\ p \notin Below(x) BY <2>1, <2>2 DEF Below
  <2>4. Below(x) \subseteq Below(p) BY <2>1, <2>2, UpIsOrder DEF Below
  <2>5. ASSUME NEW q \in Below(x) PROVE Between(p, q) = {p} \cup Between(x, q)
    <3>1. q \in Place /\ p \in Up(q) /\ (q = x \/ x \in Up(q))
      BY <2>1, <2>2, UpIsOrder DEF Below
    <3>2. {p} \cup Between(x, q) \subseteq Between(p, q)
      BY <2>4, <3>1 DEF Between, Below
    <3>3. ASSUME NEW u \in Between(p, q), u # p PROVE u \in Below(x)
      <4>1. u \in Place /\ u \in Up(q) /\ p \in Up(u) BY <3>3 DEF Between, Below
      <4>2. u \notin Up(p) BY <4>1, UpIsOrder
      <4>3. u \notin Up(x) BY <2>1, <4>2, <3>3
      <4>4. u = x \/ x \in Up(u) BY <3>1, <4>1, <4>3, UpIsOrder
      <4> QED BY <4>1, <4>4 DEF Below
    <3> QED BY <3>2, <3>3 DEF Between
  <2> QED BY <2>1, <2>2, <2>3, <2>4, <2>5
<1>2. ASSUME NEW q \in Below(p), q # p PROVE \E x \in Children(p) : q \in Below(x)
  <2>1. q \in Place /\ p \in Up(q) BY <1>2 DEF Below
  <2>2. q \in Path BY <2>1, UpIsOrder DEF Place
  <2> DEFINE B == {y \in Path : (y = q \/ y \in Up(q)) /\ p \in Up(y)}
  <2>3. B \subseteq Path /\ q \in B BY <2>1, <2>2
  <2>4. PICK x \in B : Above[x] \cap B = {}
    <3> HIDE DEF B
    <3> QED BY <2>3, Topmost
  <2>5. x \in Path /\ x \in Place /\ p \in Up(x) /\ (x = q \/ x \in Up(q)) BY UpIsOrder
  <2>6. Up(p) \cup {p} \subseteq Up(x) BY <2>5, UpIsOrder
  <2>7. ASSUME NEW u \in Up(x), u # p PROVE u \in Up(p)
    <3>1. u \in Up(p) \/ p \in Up(u) BY <2>5, <2>7, UpIsOrder
    <3>2. CASE p \in Up(u)
      <4>1. u \in Path BY <3>2, <2>5, UpIsOrder DEF Place
      <4>2. u \in Above[x] BY <4>1, <2>5, <2>7, UpIsOrder, RootAssumption
      <4>3. u \in Up(q) BY <2>1, <2>5, UpIsOrder
      <4> QED BY <4>1, <4>2, <4>3, <3>2, <2>4
    <3> QED BY <3>1, <3>2
  <2>8. Up(x) = Up(p) \cup {p} BY <2>6, <2>7
  <2>9. x \in Children(p) BY <2>5, <2>8 DEF Children
  <2>10. q \in Below(x) BY <2>1, <2>5 DEF Below
  <2> QED BY <2>9, <2>10
<1> QED BY <1>1, <1>2

\* What holds of a place whenever it holds of its children holds of all places.
LEMMA PlaceInduction ==
  ASSUME NEW S, \A p \in Place : Children(p) \subseteq S => p \in S
  PROVE  Place \subseteq S
<1> DEFINE others == Place \ S
           sizes == {Cardinality(Below(p)) : p \in others}
<1>1. SUFFICES ASSUME others # {} PROVE FALSE
  OBVIOUS
<1>2. \A p \in Place : IsFiniteSet(Below(p)) /\ Cardinality(Below(p)) \in Nat
  BY UpIsOrder, BelowIs, FS_Subset, FS_CardinalityType
<1>3. PICK least \in sizes : \A n \in sizes : least <= n
  <2>1. sizes \in SUBSET Nat /\ sizes # {} BY <1>1, <1>2
  <2> HIDE DEF sizes
  <2> QED BY <2>1, LeastNumber
<1>4. PICK p \in others : least = Cardinality(Below(p)) OBVIOUS
<1>5. PICK x \in Children(p) : x \notin S OBVIOUS
<1>6. x \in Place /\ Below(x) \subseteq Below(p) /\ p \in Below(p) /\ p \notin Below(x)
  BY BelowIs, BelowIsChildren, UpIsOrder
<1>7. Cardinality(Below(x)) < Cardinality(Below(p))
  <2>1. Below(x) # Below(p) BY <1>6
  <2> QED BY <1>2, <1>6, <2>1, FS_Subset
<1>8. least <= Cardinality(Below(x)) BY <1>3, <1>5, <1>6
<1> QED BY <1>2, <1>4, <1>6, <1>7, <1>8

-----------------------------------------------------------------------------
\* Entries: nothing is below a place that is not a directory.
IsEntry(e) ==
  /\ e \in [Place -> Node]
  /\ \A p \in Place : e[p] # Absent => \A q \in Up(p) : e[q] = Directory

LEMMA NilIsEntry == IsEntry(Nil)
BY PlainNodes DEF IsEntry, Nil

LEMMA TreeIsEntry ==
  ASSUME NEW t \in Tree
  PROVE  /\ IsEntry(treeFrom(t))
         /\ treeFrom(t)[Root] = Directory
         /\ \A p \in Path : treeFrom(t)[p] = t[p]
<1> DEFINE e == treeFrom(t)
<1>1. e[Root] = Directory /\ \A p \in Path : e[p] = t[p]
  BY RootAssumption DEF treeFrom, Place
<1>2. e \in [Place -> Node] BY PlainNodes DEF treeFrom, Place, Tree
<1>3. ASSUME NEW p \in Place, e[p] # Absent, NEW q \in Up(p) PROVE e[q] = Directory
  <2>1. p \in Path BY <1>3, UpIsOrder DEF Place
  <2>2. t[p] # Absent /\ (q = Root \/ (q \in Above[p] /\ q \in Path))
    BY <1>1, <1>3, <2>1, UpIsOrder, PathAssumption
  <2> QED BY <1>1, <2>1, <2>2 DEF Tree
<1> QED BY <1>1, <1>2, <1>3 DEF IsEntry

\* Where an entry has nothing, it has nothing below.
LEMMA NothingBelow ==
  ASSUME NEW e, IsEntry(e), NEW p \in Place, NEW q \in Below(p), q # p, e[p] # Directory
  PROVE  e[q] = Absent
BY DEF IsEntry, Below

\* What an entry does not have among the contents of p it does not have below.
LEMMA NotInContents ==
  ASSUME NEW e, IsEntry(e), NEW p \in Place, NEW x \in Children(p), x \notin GetContents(e, p)
  PROVE  \A q \in Below(x) : e[q] = Absent
<1>1. e[x] = Absent BY DEF GetContents
<1>2. x \in Place BY BelowIsChildren, UpIsOrder
<1>3. ASSUME NEW q \in Below(x), q # x PROVE e[q] = Absent
  <2>1. e[x] # Directory BY <1>1, PlainNodes
  <2> QED BY <1>2, <1>3, <2>1, NothingBelow
<1> QED BY <1>1, <1>3

\* A place has a topmost place among those above it that are in a set.
LEMMA FirstOnTheWay ==
  ASSUME NEW p \in Place, NEW q \in Below(p), NEW B, B \cap (Between(p, q) \cup {q}) # {}
  PROVE  \E x \in B \cap (Between(p, q) \cup {q}) :
           x \in Below(p) /\ Between(p, x) \subseteq Between(p, q) /\ Between(p, x) \cap B = {}
<1> DEFINE W == B \cap (Between(p, q) \cup {q})
<1>1. W \subseteq Place /\ W \subseteq Below(p) BY BelowIs DEF Between
<1>2. \A x \in W : Between(p, x) \subseteq Between(p, q)
  BY <1>1, BelowIs, UpIsOrder DEF Between
<1>3. CASE Root \in W
  <2>1. Between(p, Root) = {} BY UpIsOrder DEF Between
  <2> QED BY <1>1, <1>2, <1>3, <2>1
<1>4. CASE Root \notin W
  <2>1. W \subseteq Path BY <1>1, <1>4 DEF Place
  <2>2. PICK x \in W : Above[x] \cap W = {}
    <3>1. W # {} OBVIOUS
    <3> HIDE DEF W
    <3> QED BY <2>1, <3>1, Topmost
  <2>3. ASSUME NEW u \in Between(p, x) \cap B PROVE FALSE
    <3>1. u \in W BY <1>2, <2>3
    <3>2. u # Root /\ u \in Up(x) BY <1>4, <2>3, <3>1 DEF Between
    <3>3. u \in Above[x] BY <2>1, <3>2, UpIsOrder
    <3> QED BY <2>2, <3>1, <3>3
  <2> QED BY <1>1, <1>2, <2>3
<1> QED BY <1>3, <1>4

-----------------------------------------------------------------------------
\* diff.

\* The places of a diff at p: the topmost differing ones.
Differing(from, target, p) ==
  {q \in Below(p) : from[q] # target[q] /\ \A u \in Between(p, q) : from[u] = target[u]}

LEMMA DifferingHere ==
  ASSUME NEW a, NEW b, NEW p \in Place, a[p] # b[p]
  PROVE  Differing(a, b, p) = {p}
BY BelowIs DEF Differing

LEMMA DifferingInside ==
  ASSUME NEW a, IsEntry(a), NEW b, IsEntry(b), NEW p \in Place, a[p] = b[p],
         NEW names, GetContents(a, p) \cup GetContents(b, p) \subseteq names,
         names \subseteq Children(p)
  PROVE  Differing(a, b, p) = UNION {Differing(a, b, q) : q \in names}
<1>1. ASSUME NEW q \in Differing(a, b, p)
      PROVE  \E x \in names : q \in Differing(a, b, x)
  <2>1. q \in Below(p) /\ q # p /\ a[q] # b[q] BY <1>1 DEF Differing
  <2>2. PICK x \in Children(p) : q \in Below(x) BY <2>1, BelowIsChildren
  <2>3. x \in names
    <3>1. a[q] # Absent \/ b[q] # Absent BY <2>1
    <3> QED BY <2>2, <3>1, NotInContents
  <2>4. Between(x, q) \subseteq Between(p, q) BY <2>2, BelowIsChildren
  <2> QED BY <1>1, <2>1, <2>2, <2>3, <2>4 DEF Differing
<1>2. ASSUME NEW x \in names, NEW q \in Differing(a, b, x)
      PROVE  q \in Differing(a, b, p)
  <2>1. x \in Children(p) /\ q \in Below(x) BY <1>2 DEF Differing
  <2>2. q \in Below(p) /\ Between(p, q) = {p} \cup Between(x, q) BY <2>1, BelowIsChildren
  <2> QED BY <1>2, <2>2 DEF Differing
<1> QED BY <1>1, <1>2

LEMMA DiffIs ==
  ASSUME NEW a, IsEntry(a), NEW b, IsEntry(b), NEW p \in Place
  PROVE  diff(a, b)[p] = Differing(a, b, p)
<1> DEFINE names(q) == GetContents(a, q) \cup GetContents(b, q)
           Body(f, q) == IF b[q] # a[q] THEN {q} ELSE UNION {f[x] : x \in names(q)}
           at == diff(a, b)
           closed == [q \in Place |-> Differing(a, b, q)]
<1>1. \A q \in Place : names(q) \subseteq Children(q) /\ Children(q) \subseteq Place
  BY BelowIsChildren, UpIsOrder DEF GetContents
<1>2. ASSUME NEW q \in Place PROVE closed[q] = Body(closed, q)
  <2>1. \A x \in names(q) : closed[x] = Differing(a, b, x) BY <1>1
  <2>2. closed[q] = Differing(a, b, q) OBVIOUS
  <2> HIDE DEF closed
  <2>3. {closed[x] : x \in names(q)} = {Differing(a, b, x) : x \in names(q)} BY <2>1
  <2>4. GetContents(a, q) \cup GetContents(b, q) \subseteq names(q) /\ names(q) \subseteq Children(q)
    BY <1>1
  <2> HIDE DEF names
  <2>5. CASE a[q] = b[q]
    <3>1. Differing(a, b, q) = UNION {Differing(a, b, x) : x \in names(q)}
      BY <2>4, <2>5, DifferingInside
    <3> QED BY <2>2, <2>3, <2>5, <3>1
  <2>6. CASE a[q] # b[q]
    BY <2>2, <2>6, DifferingHere
  <2> QED BY <2>5, <2>6
<1>3. closed = [q \in Place |-> Body(closed, q)]
  <2>1. closed = [q \in Place |-> closed[q]] OBVIOUS
  <2> HIDE DEF closed, Body
  <2> QED BY <1>2, <2>1
<1>4. at = CHOOSE f : f = [q \in Place |-> Body(f, q)] BY DEF diff
<1>5. at = [q \in Place |-> Body(at, q)]
  <2> HIDE DEF at, closed, Body
  <2> QED BY <1>3, <1>4
<1>6. \A q \in Place : at[q] = Body(at, q)
  <2> HIDE DEF at, Body
  <2> QED BY <1>5
<1> DEFINE S == {q \in Place : at[q] = closed[q]}
<1>7. ASSUME NEW q \in Place, Children(q) \subseteq S PROVE q \in S
  <2> HIDE DEF at, closed
  <2>1. \A x \in names(q) : at[x] = closed[x] BY <1>1, <1>7
  <2>2. Body(at, q) = Body(closed, q)
    <3> HIDE DEF names
    <3>1. {at[x] : x \in names(q)} = {closed[x] : x \in names(q)} BY <2>1
    <3> QED BY <3>1
  <2> HIDE DEF Body
  <2> QED BY <1>2, <1>6, <2>2
<1>8. Place \subseteq S
  <2> HIDE DEF S
  <2> QED BY <1>7, PlaceInduction
<1>9. at[p] = closed[p]
  <2> HIDE DEF at, closed
  <2> QED BY <1>8
<1> QED BY <1>9

\* A diff is empty where nothing differs, and holds deletions only where what
\* differs is gone.
LEMMA DiffTells ==
  ASSUME NEW a, IsEntry(a), NEW b, IsEntry(b), NEW p \in Place
  PROVE  /\ diff(a, b)[p] = {} <=> \A q \in Below(p) : b[q] = a[q]
         /\ extractNonDeletionChanges(diff(a, b)[p], b) = {}
              <=> \A q \in Below(p) : b[q] \in {Absent, a[q]}
<1> DEFINE D == Differing(a, b, p)
           other == {q \in Place : a[q] # b[q]}
<1>1. diff(a, b)[p] = D BY DiffIs
<1>2. ASSUME NEW q \in Below(p), b[q] # a[q]
      PROVE  \E x \in D : x = q \/ x \in Between(p, q)
  <2>1. q \in other \cap (Between(p, q) \cup {q}) BY <1>2, BelowIs
  <2>2. PICK x \in other \cap (Between(p, q) \cup {q}) :
          x \in Below(p) /\ Between(p, x) \cap other = {}
    <3> HIDE DEF other
    <3> QED BY <2>1, FirstOnTheWay
  <2>3. \A u \in Between(p, x) : a[u] = b[u] BY <2>2, BelowIs
  <2> QED BY <2>2, <2>3 DEF Differing
<1>3. \A x \in D : x \in Below(p) /\ a[x] # b[x] BY DEF Differing
<1>4. ASSUME NEW q \in Below(p), b[q] \notin {Absent, a[q]} PROVE \E x \in D : b[x] # Absent
  <2>1. PICK x \in D : x = q \/ x \in Between(p, q) BY <1>2, <1>4
  <2>2. x = q \/ b[x] = Directory BY <2>1, <1>4, BelowIs DEF Between, IsEntry
  <2> QED BY <1>4, <2>1, <2>2, PlainNodes
<1> HIDE DEF D
<1>5. D = {} <=> \A q \in Below(p) : b[q] = a[q] BY <1>2, <1>3
<1>6. extractNonDeletionChanges(D, b) = {} <=> \A q \in Below(p) : b[q] \in {Absent, a[q]}
  BY <1>3, <1>4 DEF extractNonDeletionChanges
<1> QED BY <1>1, <1>5, <1>6

-----------------------------------------------------------------------------
\* handleDisagreementBidirectional.

LEMMA BelowIsUnder ==
  ASSUME NEW p \in Path
  PROVE  Below(p) = Under(p)
BY UpIsOrder DEF Below, Under, Place

\* The scans and the ancestor as entries; none stands for an empty base.
Scanned(l, r, ancestor, a) ==
  /\ l \in Tree /\ r \in Tree /\ a \in Tree
  /\ IsEntry(ancestor) /\ ancestor[Root] \in {Absent, Directory}
  /\ \A p \in Path : ancestor[p] = a[p]

\* The change at p makes the subtree of new out of the entry old has there.
Replaced(old, new, from, to, p) ==
  /\ IsEntry(old) /\ IsEntry(new)
  /\ old[p] = from[p]
  /\ \A q \in Under(p) : new[q] = to[q]

LEMMA DisagreementIs ==
  ASSUME NEW l, NEW r, NEW ancestor, NEW a, Scanned(l, r, ancestor, a),
         NEW p \in Path, Disagrees(l, r, p)
  PROVE  LET found == handleDisagreementBidirectional(p, ancestor, treeFrom(l), treeFrom(r))
         IN  /\ RemoteTakes(a, l, r, p) =>
                  \E old, new : Replaced(old, new, r, l, p) /\ found = ToBeta(p, old, new)
             /\ LocalTakes(a, l, r, p) =>
                  \E old, new : Replaced(old, new, l, r, p) /\ found = ToAlpha(p, old, new)
             /\ ~RemoteTakes(a, l, r, p) /\ ~LocalTakes(a, l, r, p) =>
                  found = ToNeither(p)
<1> DEFINE alpha == treeFrom(l)
           beta == treeFrom(r)
           alphaDiff == diff(ancestor, alpha)[p]
           betaDiff == diff(ancestor, beta)[p]
           alphaNew == extractNonDeletionChanges(alphaDiff, alpha)
           betaNew == extractNonDeletionChanges(betaDiff, beta)
           found == handleDisagreementBidirectional(p, ancestor, alpha, beta)
<1>1. /\ l \in Tree /\ r \in Tree /\ IsEntry(ancestor) /\ IsEntry(alpha) /\ IsEntry(beta)
      /\ \A q \in Path : ancestor[q] = a[q] /\ alpha[q] = l[q] /\ beta[q] = r[q]
  BY TreeIsEntry DEF Scanned
<1>2. p \in Place /\ p \in Under(p) /\ Under(p) = Below(p) /\ Under(p) \subseteq Path
  BY UpIsOrder, BelowIsUnder, UnderClosed DEF Under
<1>3. /\ alphaDiff = {} <=> Unchanged(a, l, p)
      /\ betaDiff = {} <=> Unchanged(a, r, p)
      /\ alphaNew = {} <=> OnlyDeleted(a, l, p)
      /\ betaNew = {} <=> OnlyDeleted(a, r, p)
  <2> HIDE DEF alpha, beta
  <2>1. /\ alphaDiff = {} <=> \A q \in Under(p) : alpha[q] = ancestor[q]
        /\ alphaNew = {} <=> \A q \in Under(p) : alpha[q] \in {Absent, ancestor[q]}
    BY <1>1, <1>2, DiffTells
  <2>2. /\ betaDiff = {} <=> \A q \in Under(p) : beta[q] = ancestor[q]
        /\ betaNew = {} <=> \A q \in Under(p) : beta[q] \in {Absent, ancestor[q]}
    BY <1>1, <1>2, DiffTells
  <2> HIDE DEF alphaDiff, betaDiff, alphaNew, betaNew
  <2> QED BY <1>1, <1>2, <2>1, <2>2 DEF Unchanged, OnlyDeleted
<1>4. found = IF betaDiff = {} THEN ToBeta(p, ancestor, alpha)
              ELSE IF alphaDiff = {} THEN ToAlpha(p, ancestor, beta)
              ELSE IF alphaNew = {} /\ betaNew = {}
                   THEN IF alpha[p] = Absent THEN ToBeta(p, beta, Nil) ELSE ToAlpha(p, alpha, Nil)
              ELSE IF betaNew = {} THEN ToBeta(p, beta, alpha)
              ELSE IF alphaNew = {} THEN ToAlpha(p, alpha, beta)
              ELSE ToNeither(p)
  BY DEF handleDisagreementBidirectional
<1> HIDE DEF alphaDiff, betaDiff, alphaNew, betaNew, found, alpha, beta
<1>5. /\ Replaced(beta, alpha, r, l, p)
      /\ Replaced(alpha, beta, l, r, p)
  BY <1>1, <1>2 DEF Replaced
<1>6. CASE Unchanged(a, r, p)
  <2>1. Replaced(ancestor, alpha, r, l, p) BY <1>1, <1>2, <1>6 DEF Replaced, Unchanged
  <2>2. found = ToBeta(p, ancestor, alpha) BY <1>3, <1>4, <1>6
  <2>3. RemoteTakes(a, l, r, p) /\ ~LocalTakes(a, l, r, p) BY <1>6 DEF RemoteTakes, LocalTakes
  <2> QED BY <2>1, <2>2, <2>3 DEF found, alpha, beta
<1>7. CASE ~Unchanged(a, r, p) /\ Unchanged(a, l, p)
  <2>1. Replaced(ancestor, beta, l, r, p) BY <1>1, <1>2, <1>7 DEF Replaced, Unchanged
  <2>2. found = ToAlpha(p, ancestor, beta) BY <1>3, <1>4, <1>7
  <2>3. ~RemoteTakes(a, l, r, p) /\ LocalTakes(a, l, r, p)
    BY <1>7 DEF RemoteTakes, LocalTakes, Unchanged, OnlyDeleted
  <2> QED BY <2>1, <2>2, <2>3 DEF found, alpha, beta
<1>8. CASE ~Unchanged(a, r, p) /\ ~Unchanged(a, l, p) /\ OnlyDeleted(a, r, p) /\ OnlyDeleted(a, l, p)
  <2>1. l[p] # r[p] /\ l[p] \in {Absent, a[p]} /\ r[p] \in {Absent, a[p]}
    BY <1>2, <1>8 DEF Disagrees, OnlyDeleted
  <2>2. \A q \in Under(p) : Nil[q] = Absent
    BY <1>2, UpIsOrder DEF Nil
  <2>3. ASSUME NEW t \in Tree, t[p] = Absent, NEW q \in Under(p) PROVE t[q] = Absent
    BY <2>3, PlainNodes DEF Tree, Under
  <2>4. CASE l[p] = Absent
    <3>1. Replaced(beta, Nil, r, l, p) BY <1>1, <1>2, <2>2, <2>3, <2>4, NilIsEntry DEF Replaced
    <3>2. found = ToBeta(p, beta, Nil) BY <1>1, <1>3, <1>4, <1>8, <2>4
    <3>3. RemoteTakes(a, l, r, p) /\ ~LocalTakes(a, l, r, p)
      BY <1>8, <2>4 DEF RemoteTakes, LocalTakes
    <3> QED BY <3>1, <3>2, <3>3 DEF found, alpha, beta
  <2>5. CASE l[p] # Absent
    <3>1. r[p] = Absent BY <2>1, <2>5
    <3>2. Replaced(alpha, Nil, l, r, p) BY <1>1, <1>2, <2>2, <2>3, <3>1, NilIsEntry DEF Replaced
    <3>3. found = ToAlpha(p, alpha, Nil) BY <1>1, <1>3, <1>4, <1>8, <2>5
    <3>4. ~RemoteTakes(a, l, r, p) /\ LocalTakes(a, l, r, p)
      BY <1>8, <2>5 DEF RemoteTakes, LocalTakes
    <3> QED BY <3>2, <3>3, <3>4 DEF found, alpha, beta
  <2> QED BY <2>4, <2>5
<1>9. CASE ~Unchanged(a, r, p) /\ ~Unchanged(a, l, p) /\ OnlyDeleted(a, r, p) /\ ~OnlyDeleted(a, l, p)
  <2>1. found = ToBeta(p, beta, alpha) BY <1>3, <1>4, <1>9
  <2>2. RemoteTakes(a, l, r, p) /\ ~LocalTakes(a, l, r, p) BY <1>9 DEF RemoteTakes, LocalTakes
  <2> QED BY <1>5, <2>1, <2>2 DEF found, alpha, beta
<1>10. CASE ~Unchanged(a, r, p) /\ ~Unchanged(a, l, p) /\ ~OnlyDeleted(a, r, p) /\ OnlyDeleted(a, l, p)
  <2>1. found = ToAlpha(p, alpha, beta) BY <1>3, <1>4, <1>10
  <2>2. ~RemoteTakes(a, l, r, p) /\ LocalTakes(a, l, r, p)
    BY <1>10 DEF RemoteTakes, LocalTakes
  <2> QED BY <1>5, <2>1, <2>2 DEF found, alpha, beta
<1>11. CASE ~Unchanged(a, r, p) /\ ~Unchanged(a, l, p) /\ ~OnlyDeleted(a, r, p) /\ ~OnlyDeleted(a, l, p)
  <2>1. found = ToNeither(p) BY <1>3, <1>4, <1>11
  <2>2. ~RemoteTakes(a, l, r, p) /\ ~LocalTakes(a, l, r, p) BY <1>11 DEF RemoteTakes, LocalTakes
  <2> QED BY <2>1, <2>2 DEF found, alpha, beta
<1> QED BY <1>6, <1>7, <1>8, <1>9, <1>10, <1>11

-----------------------------------------------------------------------------
\* flattenEntry.

\* What flattenEntry records at a place itself.
RemovedAt(old, new, q) ==
  IF q # Root /\ old[q] # Absent /\ old[q].kind # new[q].kind
  THEN {ChangeOf("REMOVE", q, Absent)} ELSE {}
MadeAt(old, new, q) ==
  CASE new[q].kind = "directory" ->
         IF q = Root \/ (old[q] = Directory /\ new[q] = Directory) THEN {}
         ELSE {ChangeOf("CREATE_DIRECTORY", q, Directory)}
    [] new[q].kind = "file" ->
         IF old[q].kind = "file" /\ old[q].digest = new[q].digest
         THEN IF old[q].executable # new[q].executable
              THEN {ChangeOf("SET_EXECUTABLE", q, new[q])} ELSE {}
         ELSE {ChangeOf("CREATE_FILE", q, new[q])}
    [] new[q].kind = "symlink" ->
         IF old[q] = new[q] THEN {} ELSE {ChangeOf("CREATE_SYMLINK", q, new[q])}
    [] OTHER -> {}

\* The recursion follows the directories of new; what old has inside them goes
\* where new has nothing or something else.
Compared(new, p) == {q \in Below(p) : \A u \in Between(p, q) : new[u] = Directory}
Flattened(old, new, p) ==
  (UNION {RemovedAt(old, new, q) : q \in Compared(new, p)})
  \cup UNION {MadeAt(old, new, q) : q \in Below(p)}

LEMMA NothingMade ==
  ASSUME NEW old, NEW new, NEW q, new[q] = Absent
  PROVE  MadeAt(old, new, q) = {}
BY DEF MadeAt, Absent

LEMMA FlattenedStops ==
  ASSUME NEW old, NEW new, IsEntry(new), NEW p \in Place, new[p] # Directory
  PROVE  Flattened(old, new, p) = RemovedAt(old, new, p) \cup MadeAt(old, new, p)
<1>1. Compared(new, p) = {p} BY BelowIs DEF Compared
<1>2. \A q \in Below(p) : q # p => MadeAt(old, new, q) = {}
  BY NothingBelow, NothingMade
<1>3. UNION {MadeAt(old, new, q) : q \in Below(p)} = MadeAt(old, new, p) BY <1>2, BelowIs
<1>4. UNION {RemovedAt(old, new, q) : q \in Compared(new, p)} = RemovedAt(old, new, p) BY <1>1
<1> QED BY <1>3, <1>4 DEF Flattened

LEMMA FlattenedDescends ==
  ASSUME NEW old, IsEntry(old), NEW new, IsEntry(new), NEW p \in Place, new[p] = Directory
  PROVE  Flattened(old, new, p) =
           RemovedAt(old, new, p) \cup MadeAt(old, new, p)
           \cup (UNION {Flattened(old, new, x) : x \in GetContents(new, p)})
           \cup {ChangeOf("REMOVE", x, Absent) : x \in GetContents(old, p) \ GetContents(new, p)}
<1> DEFINE removed(q) == UNION {RemovedAt(old, new, x) : x \in Compared(new, q)}
           made(q) == UNION {MadeAt(old, new, x) : x \in Below(q)}
           contents == GetContents(new, p)
           gone == GetContents(old, p) \ contents
<1>1. \A q \in Place : Flattened(old, new, q) = removed(q) \cup made(q) BY DEF Flattened
<1>2. contents \subseteq Children(p) /\ gone \subseteq Children(p) /\ Children(p) \subseteq Place
  BY BelowIsChildren, UpIsOrder DEF GetContents
<1>3. made(p) = MadeAt(old, new, p) \cup UNION {made(x) : x \in contents}
  <2>1. ASSUME NEW q \in Below(p), q # p, MadeAt(old, new, q) # {}
        PROVE  \E x \in contents : q \in Below(x)
    <3>1. PICK x \in Children(p) : q \in Below(x) BY <2>1, BelowIsChildren
    <3>2. new[q] # Absent BY <2>1, NothingMade
    <3> QED BY <3>1, <3>2, NotInContents
  <2>2. \A x \in contents : Below(x) \subseteq Below(p) BY <1>2, BelowIsChildren
  <2>3. p \in Below(p) BY BelowIs
  <2> HIDE DEF contents
  <2> QED BY <2>1, <2>2, <2>3
<1>4. \A x \in Children(p) : \A q \in Below(x) : q \in Compared(new, p) <=> q \in Compared(new, x)
  BY BelowIsChildren DEF Compared
<1>5. ASSUME NEW x \in Children(p), x \notin contents
      PROVE  removed(x) = IF x \in gone THEN {ChangeOf("REMOVE", x, Absent)} ELSE {}
  <2>1. new[x] = Absent /\ x \in Place /\ x # Root
    BY <1>2, <1>5, UpIsOrder, BelowIsChildren DEF GetContents
  <2>2. Compared(new, x) = {x} BY <2>1, BelowIs, PlainNodes DEF Compared
  <2>3. removed(x) = RemovedAt(old, new, x) BY <2>2
  <2>4. old[x] # Absent => old[x].kind # new[x].kind
    BY <2>1, NodeKinds, PlainNodes DEF IsEntry, Absent
  <2>5. x \in gone <=> old[x] # Absent BY <1>5 DEF GetContents
  <2> HIDE DEF gone, removed
  <2> QED BY <2>1, <2>3, <2>4, <2>5 DEF RemovedAt
<1>6. removed(p) = RemovedAt(old, new, p) \cup UNION {removed(x) : x \in Children(p)}
  <2>1. p \in Compared(new, p) BY BelowIs DEF Compared
  <2>2. ASSUME NEW q \in Compared(new, p), q # p
        PROVE  \E x \in Children(p) : q \in Compared(new, x)
    BY <1>4, <2>2, BelowIsChildren DEF Compared
  <2>3. ASSUME NEW x \in Children(p), NEW q \in Compared(new, x)
        PROVE  q \in Compared(new, p)
    BY <1>4, <2>3, BelowIsChildren DEF Compared
  <2> QED BY <2>1, <2>2, <2>3
<1>7. UNION {removed(x) : x \in Children(p)} =
        (UNION {removed(x) : x \in contents}) \cup {ChangeOf("REMOVE", x, Absent) : x \in gone}
  <2> HIDE DEF removed, contents
  <2>1. gone \cap contents = {} OBVIOUS
  <2> HIDE DEF gone
  <2> QED BY <1>2, <1>5, <2>1
<1> HIDE DEF removed, made, contents, gone
<1>8. UNION {Flattened(old, new, x) : x \in contents} =
        (UNION {removed(x) : x \in contents}) \cup UNION {made(x) : x \in contents}
  BY <1>1, <1>2
<1>9. Flattened(old, new, p) =
        RemovedAt(old, new, p) \cup MadeAt(old, new, p)
        \cup (UNION {Flattened(old, new, x) : x \in contents})
        \cup {ChangeOf("REMOVE", x, Absent) : x \in gone}
  BY <1>1, <1>3, <1>6, <1>7, <1>8
<1> QED BY <1>9 DEF contents, gone

LEMMA FlattenEntryIs ==
  ASSUME NEW old, IsEntry(old), NEW new, IsEntry(new), NEW p \in Place
  PROVE  flattenEntry(old, new)[p] = Flattened(old, new, p)
<1> DEFINE both(q) == old[q] = Directory /\ new[q] = Directory
           oldContents(q) == IF both(q) THEN GetContents(old, q) ELSE {}
           contents(q) == GetContents(new, q)
           removed(q) == IF q # Root /\ old[q] # Absent /\ old[q].kind # new[q].kind
                         THEN {ChangeOf("REMOVE", q, Absent)} ELSE {}
           made(f, q) ==
             CASE new[q].kind = "directory" ->
                    (IF q = Root \/ both(q) THEN {}
                     ELSE {ChangeOf("CREATE_DIRECTORY", q, Directory)})
                    \cup (UNION {f[x] : x \in contents(q)})
                    \cup {ChangeOf("REMOVE", x, Absent) : x \in oldContents(q) \ contents(q)}
               [] new[q].kind = "file" ->
                    IF old[q].kind = "file" /\ old[q].digest = new[q].digest
                    THEN IF old[q].executable # new[q].executable
                         THEN {ChangeOf("SET_EXECUTABLE", q, new[q])} ELSE {}
                    ELSE {ChangeOf("CREATE_FILE", q, new[q])}
               [] new[q].kind = "symlink" ->
                    IF old[q] = new[q] THEN {} ELSE {ChangeOf("CREATE_SYMLINK", q, new[q])}
               [] OTHER -> {}
           Body(f, q) == removed(q) \cup made(f, q)
           at == flattenEntry(old, new)
           closed == [q \in Place |-> Flattened(old, new, q)]
<1>1. at = CHOOSE f : f = [q \in Place |-> Body(f, q)] BY DEF flattenEntry
<1>2. \A q \in Place : contents(q) \subseteq Children(q) /\ Children(q) \subseteq Place
  BY BelowIsChildren, UpIsOrder DEF GetContents
<1>3. ASSUME NEW q \in Place, new[q].kind # "directory", NEW f
      PROVE  Body(f, q) = RemovedAt(old, new, q) \cup MadeAt(old, new, q)
  BY <1>3 DEF RemovedAt, MadeAt
<1>4. ASSUME NEW q \in Place, new[q].kind = "directory", NEW f
      PROVE  Body(f, q) = RemovedAt(old, new, q) \cup MadeAt(old, new, q)
                          \cup (UNION {f[x] : x \in contents(q)})
                          \cup {ChangeOf("REMOVE", x, Absent) : x \in oldContents(q) \ contents(q)}
  <2>1. removed(q) = RemovedAt(old, new, q) BY DEF RemovedAt
  <2>2. MadeAt(old, new, q) = IF q = Root \/ both(q) THEN {}
                              ELSE {ChangeOf("CREATE_DIRECTORY", q, Directory)}
    BY <1>4 DEF MadeAt
  <2>3. made(f, q) = (IF q = Root \/ both(q) THEN {}
                      ELSE {ChangeOf("CREATE_DIRECTORY", q, Directory)})
                     \cup (UNION {f[x] : x \in contents(q)})
                     \cup {ChangeOf("REMOVE", x, Absent) : x \in oldContents(q) \ contents(q)}
    BY <1>4
  <2> HIDE DEF removed, made, oldContents, contents, both
  <2> QED BY <2>1, <2>2, <2>3
<1>5. \A q \in Place : /\ new[q].kind = "directory" <=> new[q] = Directory
                       /\ new[q] = Directory =>
                            oldContents(q) \ contents(q) = GetContents(old, q) \ contents(q)
  <2> TAKE q \in Place
  <2>1. new[q] \in Node /\ old[q] \in Node BY DEF IsEntry
  <2>2. old[q] # Directory => GetContents(old, q) = {}
    BY BelowIsChildren, NothingBelow DEF GetContents
  <2> QED BY <2>1, <2>2, NodeKinds
<1> HIDE DEF Body, oldContents, contents, both
<1>6. ASSUME NEW q \in Place PROVE closed[q] = Body(closed, q)
  <2>1. \A x \in Place : closed[x] = Flattened(old, new, x) OBVIOUS
  <2> HIDE DEF closed
  <2>2. CASE new[q] # Directory BY <1>3, <1>5, <2>1, <2>2, FlattenedStops
  <2>3. CASE new[q] = Directory
    <3>1. {closed[x] : x \in contents(q)} = {Flattened(old, new, x) : x \in contents(q)}
      BY <1>2, <2>1
    <3>2. closed[q] = RemovedAt(old, new, q) \cup MadeAt(old, new, q)
                      \cup (UNION {Flattened(old, new, x) : x \in contents(q)})
                      \cup {ChangeOf("REMOVE", x, Absent) : x \in GetContents(old, q) \ contents(q)}
      BY <2>1, <2>3, FlattenedDescends DEF contents
    <3>3. Body(closed, q) = RemovedAt(old, new, q) \cup MadeAt(old, new, q)
                            \cup (UNION {closed[x] : x \in contents(q)})
                            \cup {ChangeOf("REMOVE", x, Absent) : x \in oldContents(q) \ contents(q)}
      BY <1>4, <1>5, <2>3
    <3> QED BY <1>5, <2>3, <3>1, <3>2, <3>3
  <2> QED BY <2>2, <2>3
<1>7. closed = [q \in Place |-> Body(closed, q)]
  <2>1. closed = [q \in Place |-> closed[q]] OBVIOUS
  <2> HIDE DEF closed
  <2> QED BY <1>6, <2>1
<1>8. at = [q \in Place |-> Body(at, q)]
  <2> HIDE DEF at, closed
  <2> QED BY <1>1, <1>7
<1>9. \A q \in Place : at[q] = Body(at, q)
  <2> HIDE DEF at
  <2> QED BY <1>8
<1> DEFINE S == {q \in Place : at[q] = closed[q]}
<1>10. ASSUME NEW q \in Place, Children(q) \subseteq S PROVE q \in S
  <2> HIDE DEF at, closed
  <2>1. {at[x] : x \in contents(q)} = {closed[x] : x \in contents(q)} BY <1>2, <1>10
  <2>2. Body(at, q) = Body(closed, q) BY <1>3, <1>4, <2>1
  <2> QED BY <1>6, <1>9, <2>2
<1>11. Place \subseteq S
  <2> HIDE DEF S
  <2> QED BY <1>10, PlaceInduction
<1>12. at[p] = closed[p]
  <2> HIDE DEF at, closed
  <2> QED BY <1>11
<1> QED BY <1>12

\* Where the two sides disagree, flattening gives the changes of SyncReconcile.
LEMMA FlattenAgrees ==
  ASSUME NEW from \in Tree, NEW to \in Tree, NEW p \in Path, from[p] # to[p],
         NEW old, NEW new, Replaced(old, new, from, to, p)
  PROVE  flattenEntry(old, new)[p] = flatten(from, to, p)
<1> DEFINE made(q) == CASE to[q].kind = "directory" -> {ChangeOf("CREATE_DIRECTORY", q, to[q])}
                        [] to[q].kind = "symlink" -> {ChangeOf("CREATE_SYMLINK", q, to[q])}
                        [] to[q].kind = "file" ->
                             {ChangeOf(IF q = p /\ OnlyChmod(from[p], to[p])
                                       THEN "SET_EXECUTABLE" ELSE "CREATE_FILE", q, to[q])}
                        [] OTHER -> {}
<1>1. /\ IsEntry(old) /\ IsEntry(new) /\ p \in Place /\ p # Root
      /\ Below(p) = Under(p) /\ p \in Under(p) /\ Under(p) \subseteq Path /\ Path \subseteq Place
  BY UpIsOrder, BelowIsUnder, UnderClosed DEF Replaced, Under
<1>2. /\ old[p] = from[p] /\ \A q \in Under(p) : new[q] = to[q]
      /\ \A q \in Under(p) : from[q] \in Node /\ to[q] \in Node
  BY <1>1 DEF Replaced, Tree
<1>3. \A q \in Under(p) : q # p => old[q] = Absent \/ new[q] = Absent
  <2>1. ~(old[p] = Directory /\ new[p] = Directory) BY <1>1, <1>2
  <2> QED BY <1>1, <2>1, NothingBelow
<1>4. Creations(from, to, p) = UNION {made(q) : q \in Under(p)}
  <2> DEFINE ofKind(kind) == {q \in Under(p) : to[q].kind = kind}
             how(q) == IF q = p /\ OnlyChmod(from[p], to[p]) THEN "SET_EXECUTABLE" ELSE "CREATE_FILE"
  <2>1. Creations(from, to, p) =
          {ChangeOf("CREATE_DIRECTORY", q, to[q]) : q \in ofKind("directory")}
          \cup {ChangeOf("CREATE_SYMLINK", q, to[q]) : q \in ofKind("symlink")}
          \cup {ChangeOf(how(q), q, to[q]) : q \in ofKind("file")}
    BY DEF Creations
  <2>2. \A q \in Under(p) :
          made(q) = CASE to[q].kind = "directory" -> {ChangeOf("CREATE_DIRECTORY", q, to[q])}
                      [] to[q].kind = "symlink" -> {ChangeOf("CREATE_SYMLINK", q, to[q])}
                      [] to[q].kind = "file" -> {ChangeOf(how(q), q, to[q])}
                      [] OTHER -> {}
    OBVIOUS
  <2> HIDE DEF made, how
  <2> QED BY <2>1, <2>2
<1>5. ASSUME NEW q \in Under(p) PROVE MadeAt(old, new, q) = made(q)
  <2>1. new[q] = to[q] /\ to[q] \in Node BY <1>2
  <2>2. CASE to[q].kind = "directory"
    <3>1. to[q] = Directory BY <2>1, <2>2, NodeKinds
    <3>2. ~(old[q] = Directory /\ new[q] = Directory)
      BY <1>1, <1>2, <1>3, PlainNodes
    <3>3. q # Root BY <1>1, UpIsOrder
    <3> QED BY <2>1, <2>2, <3>1, <3>2, <3>3 DEF MadeAt
  <2>3. CASE to[q].kind = "symlink"
    <3>1. to[q] # Absent BY <2>3 DEF Absent
    <3>2. old[q] # new[q] BY <1>2, <1>3, <2>1, <3>1
    <3> QED BY <2>1, <2>3, <3>2 DEF MadeAt
  <2>4. CASE to[q].kind = "file"
    <3>1. to[q] \in File /\ to[q] # Absent BY <2>1, <2>4, NodeKinds DEF Absent
    <3>2. CASE q = p
      <4>1. old[q] = from[p] /\ from[p] \in Node /\ from[p] # to[p] BY <1>1, <1>2, <3>2
      <4>2. CASE OnlyChmod(from[p], to[p])
        <5>1. from[p] \in File BY <4>1, <4>2, NodeKinds DEF OnlyChmod
        <5>2. old[q].executable # new[q].executable
          BY <2>1, <3>1, <3>2, <4>1, <4>2, <5>1 DEF OnlyChmod, File
        <5> QED BY <2>1, <2>4, <3>2, <4>1, <4>2, <5>2 DEF MadeAt, OnlyChmod
      <4>3. CASE ~OnlyChmod(from[p], to[p])
        BY <2>1, <2>4, <3>2, <4>1, <4>3 DEF MadeAt, OnlyChmod
      <4> QED BY <4>2, <4>3
    <3>3. CASE q # p
      <4>1. old[q] = Absent BY <1>3, <2>1, <3>1, <3>3
      <4>2. old[q].kind # "file" BY <4>1 DEF Absent
      <4> QED BY <2>1, <2>4, <3>3, <4>2 DEF MadeAt
    <3> QED BY <3>2, <3>3
  <2>5. CASE to[q].kind \notin {"directory", "symlink", "file"}
    BY <2>1, <2>5 DEF MadeAt
  <2> QED BY <2>2, <2>3, <2>4, <2>5
<1>6. UNION {MadeAt(old, new, q) : q \in Below(p)} = UNION {made(q) : q \in Under(p)}
  <2> HIDE DEF made
  <2> QED BY <1>1, <1>5
<1>7. UNION {RemovedAt(old, new, q) : q \in Compared(new, p)} = Removals(from, to, p)
  <2>1. RemovedAt(old, new, p) = Removals(from, to, p)
    BY <1>1, <1>2 DEF RemovedAt, Removals
  <2>2. p \in Compared(new, p) BY BelowIs, <1>1 DEF Compared
  <2>3. ASSUME NEW q \in Compared(new, p), q # p PROVE RemovedAt(old, new, q) = {}
    <3>1. q \in Below(p) /\ new[p] = Directory BY <1>1, <2>3, BelowIs DEF Compared
    <3>2. old[p] # Directory BY <1>1, <1>2, <3>1
    <3>3. old[q] = Absent BY <1>1, <2>3, <3>1, <3>2, NothingBelow
    <3> QED BY <3>3 DEF RemovedAt
  <2> QED BY <2>1, <2>2, <2>3
<1>8. Flattened(old, new, p) = Removals(from, to, p) \cup Creations(from, to, p)
  <2> HIDE DEF made
  <2> QED BY <1>4, <1>6, <1>7 DEF Flattened
<1> QED BY <1>1, <1>8, FlattenEntryIs DEF flatten

-----------------------------------------------------------------------------
\* reconcile.

\* The places the recursion from p visits because one of the two scans or an
\* unchanged ancestor has something there, both scans agree on and the ancestor
\* does not have like that.
Caught(ancestor, alpha, beta, p) ==
  {q \in Below(p) :
     /\ alpha[q] = beta[q]
     /\ ancestor[q] # alpha[q]
     /\ \A u \in Between(p, q) : alpha[u] = beta[u] /\ (ancestor[u] = alpha[u] \/ alpha[q] # Absent)}

\* What the recursion from p records.
Found(ancestor, alpha, beta, p) ==
  {handleDisagreementBidirectional(q, ancestor, alpha, beta) : q \in Differing(alpha, beta, p)}
  \cup {ToAncestor(q, alpha[q]) : q \in Caught(ancestor, alpha, beta, p)}

LEMMA CaughtHere ==
  ASSUME NEW ancestor, NEW alpha, NEW beta, NEW p \in Place
  PROVE  p \in Caught(ancestor, alpha, beta, p) <=> alpha[p] = beta[p] /\ ancestor[p] # alpha[p]
BY BelowIs DEF Caught

LEMMA CaughtNowhere ==
  ASSUME NEW ancestor, IsEntry(ancestor), NEW alpha, IsEntry(alpha), NEW beta, IsEntry(beta),
         NEW p \in Place, alpha[p] # beta[p] \/ (alpha[p] = Absent /\ beta[p] = Absent)
  PROVE  Caught(ancestor, alpha, beta, p) \subseteq {p}
<1> SUFFICES ASSUME NEW q \in Caught(ancestor, alpha, beta, p), q # p PROVE FALSE
  OBVIOUS
<1>1. /\ q \in Below(p) /\ p \in Between(p, q)
      /\ ancestor[q] # alpha[q]
      /\ alpha[p] = beta[p] /\ (ancestor[p] = alpha[p] \/ alpha[q] # Absent)
  BY BelowIs DEF Caught
<1>2. alpha[p] = Absent BY <1>1
<1>3. alpha[q] = Absent BY <1>1, <1>2, NothingBelow, PlainNodes
<1>4. ancestor[p] = Absent BY <1>1, <1>2, <1>3
<1>5. ancestor[q] = Absent BY <1>1, <1>4, NothingBelow, PlainNodes
<1> QED BY <1>1, <1>3, <1>5

LEMMA CaughtInside ==
  ASSUME NEW ancestor, IsEntry(ancestor), NEW alpha, IsEntry(alpha), NEW beta, IsEntry(beta),
         NEW p \in Place, alpha[p] = beta[p], alpha[p] # Absent,
         NEW names, names = (IF ancestor[p] # alpha[p] THEN {} ELSE GetContents(ancestor, p))
                            \cup GetContents(alpha, p) \cup GetContents(beta, p)
  PROVE  Caught(ancestor, alpha, beta, p) \ {p} = UNION {Caught(ancestor, alpha, beta, x) : x \in names}
<1>0. names \subseteq Children(p) BY DEF GetContents
<1>1. ASSUME NEW q \in Caught(ancestor, alpha, beta, p), q # p
      PROVE  \E x \in names : q \in Caught(ancestor, alpha, beta, x)
  <2>1. /\ q \in Below(p) /\ p \in Between(p, q)
        /\ alpha[q] = beta[q] /\ ancestor[q] # alpha[q]
        /\ ancestor[p] = alpha[p] \/ alpha[q] # Absent
    BY <1>1, BelowIs DEF Caught
  <2>2. PICK x \in Children(p) : q \in Below(x) BY <1>1, <2>1, BelowIsChildren
  <2>3. x \in names
    <3>1. CASE alpha[q] # Absent BY <2>2, <3>1, NotInContents
    <3>2. CASE alpha[q] = Absent
      <4>1. ancestor[q] # Absent /\ ancestor[p] = alpha[p] BY <2>1, <3>2
      <4>2. x \in GetContents(ancestor, p) BY <2>2, <4>1, NotInContents
      <4> QED BY <4>1, <4>2
    <3> QED BY <3>1, <3>2
  <2>4. Between(x, q) \subseteq Between(p, q) BY <2>2, BelowIsChildren
  <2>5. q \in Caught(ancestor, alpha, beta, x) BY <1>1, <2>2, <2>4 DEF Caught
  <2> QED BY <2>3, <2>5
<1>2. ASSUME NEW x \in names, NEW q \in Caught(ancestor, alpha, beta, x)
      PROVE  q \in Caught(ancestor, alpha, beta, p) \ {p}
  <2>1. x \in Children(p) /\ q \in Below(x) BY <1>0, <1>2 DEF Caught
  <2>2. q \in Below(p) /\ q # p /\ Between(p, q) = {p} \cup Between(x, q)
    BY <2>1, BelowIsChildren
  <2>3. ancestor[p] = alpha[p] \/ alpha[q] # Absent
    <3>1. SUFFICES ASSUME ancestor[p] # alpha[p], alpha[q] = Absent PROVE FALSE
      OBVIOUS
    <3>2. alpha[x] # Absent \/ beta[x] # Absent BY <1>2, <3>1 DEF GetContents
    <3>3. x \in Place /\ x \in Below(p) /\ x # p BY <2>1, BelowIsChildren, UpIsOrder
    <3>4. alpha[p] = Directory BY <3>2, <3>3, NothingBelow
    <3>5. ancestor[q] = Absent BY <2>2, <3>1, <3>4, NothingBelow
    <3> QED BY <1>2, <3>1, <3>5 DEF Caught
  <2> QED BY <1>2, <2>2, <2>3 DEF Caught
<1> QED BY <1>1, <1>2

LEMMA JoinIs ==
  ASSUME NEW found
  PROVE  /\ Join(found).ancestor = UNION {x.ancestor : x \in found}
         /\ Join(found).alpha = UNION {x.alpha : x \in found}
         /\ Join(found).beta = UNION {x.beta : x \in found}
         /\ Join(found).conflicts = UNION {x.conflicts : x \in found}
BY DEF Join

LEMMA JoinOfJoins ==
  ASSUME NEW sets
  PROVE  Join({Join(found) : found \in sets}) = Join(UNION sets)
<1> DEFINE joins == {Join(found) : found \in sets}
<1>1. UNION {x.ancestor : x \in joins} = UNION {x.ancestor : x \in UNION sets} BY JoinIs
<1>2. UNION {x.alpha : x \in joins} = UNION {x.alpha : x \in UNION sets} BY JoinIs
<1>3. UNION {x.beta : x \in joins} = UNION {x.beta : x \in UNION sets} BY JoinIs
<1>4. UNION {x.conflicts : x \in joins} = UNION {x.conflicts : x \in UNION sets} BY JoinIs
<1> HIDE DEF joins
<1>5. Join(joins) = Join(UNION sets) BY <1>1, <1>2, <1>3, <1>4 DEF Join
<1> QED BY <1>5 DEF joins

\* The four lists of one call.
IsRecord(x) == x = [ancestor |-> x.ancestor, alpha |-> x.alpha, beta |-> x.beta,
                    conflicts |-> x.conflicts]

LEMMA JoinOfOne ==
  ASSUME NEW x, IsRecord(x)
  PROVE  Join({x}) = x
<1>1. Join({x}) = [ancestor |-> x.ancestor, alpha |-> x.alpha, beta |-> x.beta,
                   conflicts |-> x.conflicts]
  BY DEF Join
<1> QED BY <1>1 DEF IsRecord

LEMMA JoinOfNothing == Join({}) = Nothing
BY DEF Join, Nothing

\* What a call records for one place.
LEMMA NothingExcept ==
  ASSUME NEW x
  PROVE  /\ [Nothing EXCEPT !.ancestor = x] =
              [ancestor |-> x, alpha |-> {}, beta |-> {}, conflicts |-> {}]
         /\ [Nothing EXCEPT !.alpha = x] =
              [ancestor |-> {}, alpha |-> x, beta |-> {}, conflicts |-> {}]
         /\ [Nothing EXCEPT !.beta = x] =
              [ancestor |-> {}, alpha |-> {}, beta |-> x, conflicts |-> {}]
         /\ [Nothing EXCEPT !.conflicts = x] =
              [ancestor |-> {}, alpha |-> {}, beta |-> {}, conflicts |-> x]
<1>1. [Nothing EXCEPT !.ancestor = x] =
        [ancestor |-> x, alpha |-> {}, beta |-> {}, conflicts |-> {}]
  BY DEF Nothing
<1>2. [Nothing EXCEPT !.alpha = x] =
        [ancestor |-> {}, alpha |-> x, beta |-> {}, conflicts |-> {}]
  BY DEF Nothing
<1>3. [Nothing EXCEPT !.beta = x] =
        [ancestor |-> {}, alpha |-> {}, beta |-> x, conflicts |-> {}]
  BY DEF Nothing
<1>4. [Nothing EXCEPT !.conflicts = x] =
        [ancestor |-> {}, alpha |-> {}, beta |-> {}, conflicts |-> x]
  BY DEF Nothing
<1> QED BY <1>1, <1>2, <1>3, <1>4

LEMMA ToAncestorIs ==
  ASSUME NEW p, NEW x
  PROVE  LET found == ToAncestor(p, x)
         IN  /\ IsRecord(found)
             /\ found.ancestor = {[path |-> p, new |-> x]}
             /\ found.alpha = {} /\ found.beta = {} /\ found.conflicts = {}
BY NothingExcept DEF ToAncestor, IsRecord

LEMMA ToAlphaIs ==
  ASSUME NEW p, NEW old, NEW new
  PROVE  LET found == ToAlpha(p, old, new)
         IN  /\ IsRecord(found)
             /\ found.alpha = {[path |-> p, old |-> old, new |-> new]}
             /\ found.ancestor = {} /\ found.beta = {} /\ found.conflicts = {}
BY NothingExcept DEF ToAlpha, IsRecord

LEMMA ToBetaIs ==
  ASSUME NEW p, NEW old, NEW new
  PROVE  LET found == ToBeta(p, old, new)
         IN  /\ IsRecord(found)
             /\ found.beta = {[path |-> p, old |-> old, new |-> new]}
             /\ found.ancestor = {} /\ found.alpha = {} /\ found.conflicts = {}
BY NothingExcept DEF ToBeta, IsRecord

LEMMA ToNeitherIs ==
  ASSUME NEW p
  PROVE  LET found == ToNeither(p)
         IN  /\ IsRecord(found)
             /\ found.conflicts = {p}
             /\ found.ancestor = {} /\ found.alpha = {} /\ found.beta = {}
BY NothingExcept DEF ToNeither, IsRecord

LEMMA HandledIs ==
  ASSUME NEW p, NEW ancestor, NEW alpha, NEW beta
  PROVE  LET found == handleDisagreementBidirectional(p, ancestor, alpha, beta)
         IN  Join({found}) = found /\ found.ancestor = {}
<1> DEFINE found == handleDisagreementBidirectional(p, ancestor, alpha, beta)
<1>1. \/ \E old, new : found = ToBeta(p, old, new)
      \/ \E old, new : found = ToAlpha(p, old, new)
      \/ found = ToNeither(p)
  BY DEF handleDisagreementBidirectional
<1> HIDE DEF found
<1>2. IsRecord(found) /\ found.ancestor = {} BY <1>1, ToBetaIs, ToAlphaIs, ToNeitherIs
<1>3. Join({found}) = found BY <1>2, JoinOfOne
<1> QED BY <1>2, <1>3 DEF found

LEMMA ReconcileIs ==
  ASSUME NEW ancestor, IsEntry(ancestor), NEW alpha, IsEntry(alpha), NEW beta, IsEntry(beta),
         NEW p \in Place
  PROVE  reconcile(ancestor, alpha, beta)[p] = Join(Found(ancestor, alpha, beta, p))
<1> DEFINE handled(q) == handleDisagreementBidirectional(q, ancestor, alpha, beta)
           changed(q) == ancestor[q] # alpha[q]
           own(q) == IF changed(q) THEN ToAncestor(q, alpha[q]) ELSE Nothing
           names(q) == (IF changed(q) THEN {} ELSE GetContents(ancestor, q))
                       \cup GetContents(alpha, q) \cup GetContents(beta, q)
           Body(f, q) ==
             IF alpha[q] = Absent /\ beta[q] = Absent
             THEN IF ancestor[q] = Absent THEN Nothing ELSE ToAncestor(q, Absent)
             ELSE IF alpha[q] # beta[q] THEN handled(q)
             ELSE Join({own(q)} \cup {f[x] : x \in names(q)})
           found(q) == Found(ancestor, alpha, beta, q)
           caught(q) == Caught(ancestor, alpha, beta, q)
           at == reconcile(ancestor, alpha, beta)
           closed == [q \in Place |-> Join(found(q))]
<1>1. at = CHOOSE f : f = [q \in Place |-> Body(f, q)] BY DEF reconcile
<1>2. \A q \in Place : /\ names(q) \subseteq Children(q) /\ Children(q) \subseteq Place
                       /\ GetContents(alpha, q) \cup GetContents(beta, q) \subseteq names(q)
  BY BelowIsChildren, UpIsOrder DEF GetContents
<1>3. \A q \in Place : found(q) = {handled(x) : x \in Differing(alpha, beta, q)}
                                  \cup {ToAncestor(x, alpha[x]) : x \in caught(q)}
  BY DEF Found
<1>4. \A q : /\ Join({handled(q)}) = handled(q)
             /\ Join({ToAncestor(q, alpha[q])}) = ToAncestor(q, alpha[q])
  BY HandledIs, ToAncestorIs, JoinOfOne
<1>5. \A q \in Place : alpha[q] = beta[q] /\ alpha[q] # Absent =>
        caught(q) \ {q} = UNION {caught(x) : x \in names(q)}
  <2> TAKE q \in Place
  <2>1. names(q) = (IF ancestor[q] # alpha[q] THEN {} ELSE GetContents(ancestor, q))
                   \cup GetContents(alpha, q) \cup GetContents(beta, q)
    OBVIOUS
  <2> HIDE DEF names
  <2> QED BY <2>1, CaughtInside
<1>6. \A q \in Place : alpha[q] = beta[q] =>
        Differing(alpha, beta, q) = UNION {Differing(alpha, beta, x) : x \in names(q)}
  <2> TAKE q \in Place
  <2>1. GetContents(alpha, q) \cup GetContents(beta, q) \subseteq names(q) /\ names(q) \subseteq Children(q)
    BY <1>2
  <2> HIDE DEF names
  <2> QED BY <2>1, DifferingInside
<1> HIDE DEF names, found
<1>7. ASSUME NEW q \in Place, alpha[q] = Absent, beta[q] = Absent, NEW f
      PROVE  Join(found(q)) = Body(f, q)
  <2>1. caught(q) = IF ancestor[q] # Absent THEN {q} ELSE {} BY <1>7, CaughtNowhere, CaughtHere
  <2>2. Differing(alpha, beta, q) = {}
    <3>1. \A x \in Below(q) : alpha[x] = Absent /\ beta[x] = Absent
      BY <1>7, NothingBelow, PlainNodes
    <3> QED BY <3>1 DEF Differing
  <2>3. found(q) = IF ancestor[q] # Absent THEN {ToAncestor(q, alpha[q])} ELSE {}
    <3> HIDE DEF caught, handled
    <3> QED BY <1>3, <2>1, <2>2
  <2> HIDE DEF handled, own, caught
  <2> QED BY <1>4, <1>7, <2>3, JoinOfNothing
<1>8. ASSUME NEW q \in Place, alpha[q] # beta[q], NEW f
      PROVE  Join(found(q)) = Body(f, q)
  <2>1. caught(q) = {} BY <1>8, CaughtNowhere, CaughtHere
  <2>2. Differing(alpha, beta, q) = {q} BY <1>8, DifferingHere
  <2>3. found(q) = {handled(q)}
    <3> HIDE DEF caught, handled
    <3> QED BY <1>3, <2>1, <2>2
  <2> HIDE DEF handled, own, caught
  <2> QED BY <1>4, <1>8, <2>3
<1>9. ASSUME NEW q \in Place, alpha[q] = beta[q], alpha[q] # Absent, NEW f,
             \A x \in names(q) : f[x] = Join(found(x))
      PROVE  Join(found(q)) = Body(f, q)
  <2> DEFINE owns == IF changed(q) THEN {ToAncestor(q, alpha[q])} ELSE {}
             sets == {owns} \cup {found(x) : x \in names(q)}
  <2>1. own(q) = Join(owns) BY <1>4, JoinOfNothing
  <2>2. {f[x] : x \in names(q)} = {Join(found(x)) : x \in names(q)} BY <1>9
  <2>3. {own(q)} \cup {f[x] : x \in names(q)} = {Join(y) : y \in sets}
    <3> HIDE DEF owns, own
    <3> QED BY <2>1, <2>2
  <2>4. UNION sets = found(q)
    <3>1. q \in caught(q) <=> changed(q) BY <1>9, CaughtHere
    <3>2. {ToAncestor(x, alpha[x]) : x \in caught(q)} =
            owns \cup {ToAncestor(x, alpha[x]) : x \in caught(q) \ {q}}
      <4> HIDE DEF caught, changed
      <4> QED BY <3>1
    <3>3. \A x \in names(q) : found(x) = {handled(y) : y \in Differing(alpha, beta, x)}
                                         \cup {ToAncestor(y, alpha[y]) : y \in caught(x)}
      BY <1>2, <1>3
    <3> HIDE DEF owns, caught, handled
    <3>4. UNION {found(x) : x \in names(q)} =
            {handled(y) : y \in Differing(alpha, beta, q)}
            \cup {ToAncestor(y, alpha[y]) : y \in caught(q) \ {q}}
      BY <1>5, <1>6, <1>9, <3>3
    <3> QED BY <1>3, <3>2, <3>4
  <2>5. Join({Join(y) : y \in sets}) = Join(UNION sets)
    <3> HIDE DEF sets
    <3> QED BY JoinOfJoins
  <2>6. Body(f, q) = Join({own(q)} \cup {f[x] : x \in names(q)}) BY <1>9
  <2> HIDE DEF sets, own, Body
  <2> QED BY <2>3, <2>4, <2>5, <2>6
<1> HIDE DEF Body
<1>10. ASSUME NEW q \in Place, NEW f, \A x \in names(q) : f[x] = Join(found(x))
       PROVE  Join(found(q)) = Body(f, q)
  BY <1>7, <1>8, <1>9, <1>10
<1>11. \A q \in Place : closed[q] = Join(found(q)) OBVIOUS
<1>12. closed = [q \in Place |-> Body(closed, q)]
  <2>1. closed = [q \in Place |-> closed[q]] OBVIOUS
  <2> HIDE DEF closed
  <2>2. \A q \in Place : closed[q] = Body(closed, q) BY <1>2, <1>10, <1>11
  <2> QED BY <2>1, <2>2
<1>13. at = [q \in Place |-> Body(at, q)]
  <2> HIDE DEF at, closed
  <2> QED BY <1>1, <1>12
<1>14. \A q \in Place : at[q] = Body(at, q)
  <2> HIDE DEF at
  <2> QED BY <1>13
<1> DEFINE S == {q \in Place : at[q] = Join(found(q))}
<1>15. ASSUME NEW q \in Place, Children(q) \subseteq S PROVE q \in S
  <2> HIDE DEF at, closed
  <2>1. \A x \in names(q) : at[x] = Join(found(x)) BY <1>2, <1>15
  <2>2. Join(found(q)) = Body(at, q) BY <1>10, <2>1
  <2> QED BY <1>14, <2>2
<1>16. Place \subseteq S
  <2> HIDE DEF S
  <2> QED BY <1>15, PlaceInduction
<1>17. at[p] = Join(found(p))
  <2> HIDE DEF at
  <2> QED BY <1>16
<1> QED BY <1>17 DEF found

-----------------------------------------------------------------------------
\* Reconcile: the recursion from the root decides what the formulas say.

LEMMA BelowRoot ==
  /\ Below(Root) = Place
  /\ \A p \in Place : Between(Root, p) = Up(p)
<1>1. Below(Root) = Place BY UpIsOrder DEF Below, Place
<1> QED BY <1>1, UpIsOrder DEF Between

LEMMA DisagreementsAre ==
  ASSUME NEW l \in Tree, NEW r \in Tree
  PROVE  Differing(treeFrom(l), treeFrom(r), Root) = {p \in Path : Disagrees(l, r, p)}
<1> DEFINE alpha == treeFrom(l)
           beta == treeFrom(r)
<1>1. /\ IsEntry(alpha) /\ IsEntry(beta) /\ alpha[Root] = Directory /\ beta[Root] = Directory
      /\ \A p \in Path : alpha[p] = l[p] /\ beta[p] = r[p]
  BY TreeIsEntry
<1> HIDE DEF alpha, beta
<1>2. Differing(alpha, beta, Root) =
        {p \in Path : l[p] # r[p] /\ \A u \in Above[p] : l[u] = r[u]}
  <2>1. \A p \in Path : Up(p) = Above[p] \cup {Root} /\ Above[p] \subseteq Path /\ p \in Place
    BY UpIsOrder, PathAssumption
  <2>2. \A p \in Path : (\A u \in Up(p) : alpha[u] = beta[u]) <=> \A u \in Above[p] : l[u] = r[u]
    BY <1>1, <2>1
  <2> QED BY <1>1, <2>1, <2>2, BelowRoot DEF Differing, Place
<1>3. ASSUME NEW p \in Path, l[p] # r[p]
      PROVE  (\A u \in Above[p] : l[u] = r[u]) <=> Reached(l, r, p)
  <2>1. l[p] # Absent \/ r[p] # Absent BY <1>3
  <2> QED BY <2>1 DEF Reached, Tree
<1> QED BY <1>2, <1>3 DEF Disagrees, alpha, beta

LEMMA ChangesOfOne ==
  ASSUME NEW p, NEW old, NEW new
  PROVE  /\ changesFrom({}) = {}
         /\ changesFrom({[path |-> p, old |-> old, new |-> new]}) = flattenEntry(old, new)[p]
BY DEF changesFrom

LEMMA ChangesOfAll ==
  ASSUME NEW sets
  PROVE  changesFrom(UNION sets) = UNION {changesFrom(changes) : changes \in sets}
BY DEF changesFrom

\* What handling a disagreement contributes to the two plans and the conflicts.
LEMMA DisagreementGives ==
  ASSUME NEW l, NEW r, NEW ancestor, NEW a, Scanned(l, r, ancestor, a),
         NEW p \in Path, Disagrees(l, r, p)
  PROVE  LET found == handleDisagreementBidirectional(p, ancestor, treeFrom(l), treeFrom(r))
         IN  /\ changesFrom(found.alpha) = IF LocalTakes(a, l, r, p) THEN flatten(l, r, p) ELSE {}
             /\ changesFrom(found.beta) = IF RemoteTakes(a, l, r, p) THEN flatten(r, l, p) ELSE {}
             /\ found.conflicts = IF ~RemoteTakes(a, l, r, p) /\ ~LocalTakes(a, l, r, p)
                                  THEN {p} ELSE {}
<1> DEFINE found == handleDisagreementBidirectional(p, ancestor, treeFrom(l), treeFrom(r))
           remote == RemoteTakes(a, l, r, p)
           local == LocalTakes(a, l, r, p)
<1>1. /\ remote => \E old, new : Replaced(old, new, r, l, p) /\ found = ToBeta(p, old, new)
      /\ local => \E old, new : Replaced(old, new, l, r, p) /\ found = ToAlpha(p, old, new)
      /\ ~remote /\ ~local => found = ToNeither(p)
  BY DisagreementIs
<1>2. ~(remote /\ local) BY DEF LocalTakes
<1>3. l \in Tree /\ r \in Tree /\ l[p] # r[p] BY DEF Scanned, Disagrees
<1> HIDE DEF found, remote, local
<1>4. CASE remote
  <2>1. PICK old, new : Replaced(old, new, r, l, p) /\ found = ToBeta(p, old, new) BY <1>1, <1>4
  <2>2. flattenEntry(old, new)[p] = flatten(r, l, p) BY <1>3, <2>1, FlattenAgrees
  <2>3. /\ found.beta = {[path |-> p, old |-> old, new |-> new]}
        /\ found.alpha = {} /\ found.conflicts = {}
    BY <2>1, ToBetaIs
  <2>4. changesFrom(found.beta) = flatten(r, l, p) /\ changesFrom(found.alpha) = {}
    BY <2>2, <2>3, ChangesOfOne
  <2> QED BY <1>2, <1>4, <2>3, <2>4 DEF found, remote, local
<1>5. CASE local
  <2>1. PICK old, new : Replaced(old, new, l, r, p) /\ found = ToAlpha(p, old, new) BY <1>1, <1>5
  <2>2. flattenEntry(old, new)[p] = flatten(l, r, p) BY <1>3, <2>1, FlattenAgrees
  <2>3. /\ found.alpha = {[path |-> p, old |-> old, new |-> new]}
        /\ found.beta = {} /\ found.conflicts = {}
    BY <2>1, ToAlphaIs
  <2>4. changesFrom(found.alpha) = flatten(l, r, p) /\ changesFrom(found.beta) = {}
    BY <2>2, <2>3, ChangesOfOne
  <2> QED BY <1>2, <1>5, <2>3, <2>4 DEF found, remote, local
<1>6. CASE ~remote /\ ~local
  <2>1. found = ToNeither(p) BY <1>1, <1>6
  <2>2. found.alpha = {} /\ found.beta = {} /\ found.conflicts = {p} BY <2>1, ToNeitherIs
  <2> QED BY <1>6, <2>2, ChangesOfOne DEF found, remote, local
<1> QED BY <1>4, <1>5, <1>6

LEMMA DecisionAgrees ==
  ASSUME NEW l, NEW r, NEW ancestor, NEW a, Scanned(l, r, ancestor, a)
  PROVE  LET alpha == treeFrom(l)
             beta == treeFrom(r)
             found == reconcile(ancestor, alpha, beta)[Root]
         IN  /\ changesFrom(found.alpha) = ToLocal(a, l, r)
             /\ changesFrom(found.beta) = ToRemote(a, l, r)
             /\ found.conflicts = Conflicts(a, l, r)
             /\ found.ancestor = {[path |-> p, new |-> alpha[p]] :
                                    p \in Caught(ancestor, alpha, beta, Root)}
<1> DEFINE alpha == treeFrom(l)
           beta == treeFrom(r)
           found == reconcile(ancestor, alpha, beta)[Root]
           D == {p \in Path : Disagrees(l, r, p)}
           C == Caught(ancestor, alpha, beta, Root)
           handled(p) == handleDisagreementBidirectional(p, ancestor, alpha, beta)
           all == {handled(p) : p \in D} \cup {ToAncestor(p, alpha[p]) : p \in C}
<1>1. IsEntry(ancestor) /\ IsEntry(alpha) /\ IsEntry(beta) BY TreeIsEntry DEF Scanned
<1>2. Differing(alpha, beta, Root) = D BY DisagreementsAre DEF Scanned
<1>3. Found(ancestor, alpha, beta, Root) = all BY <1>2 DEF Found
<1>4. found = Join(all)
  <2> HIDE DEF alpha, beta, all
  <2> QED BY <1>1, <1>3, UpIsOrder, ReconcileIs
<1>5. \A p \in D : handled(p).ancestor = {} BY HandledIs
<1>6. \A p \in C : LET x == ToAncestor(p, alpha[p])
                   IN  /\ x.ancestor = {[path |-> p, new |-> alpha[p]]}
                       /\ x.alpha = {} /\ x.beta = {} /\ x.conflicts = {}
  BY ToAncestorIs
<1>7. \A p \in D :
        /\ changesFrom(handled(p).alpha) = IF LocalTakes(a, l, r, p) THEN flatten(l, r, p) ELSE {}
        /\ changesFrom(handled(p).beta) = IF RemoteTakes(a, l, r, p) THEN flatten(r, l, p) ELSE {}
        /\ handled(p).conflicts = IF ~RemoteTakes(a, l, r, p) /\ ~LocalTakes(a, l, r, p)
                                  THEN {p} ELSE {}
  BY DisagreementGives
<1>8. /\ found.ancestor = UNION {x.ancestor : x \in all}
      /\ found.alpha = UNION {x.alpha : x \in all}
      /\ found.beta = UNION {x.beta : x \in all}
      /\ found.conflicts = UNION {x.conflicts : x \in all}
  <2> HIDE DEF all, found
  <2> QED BY <1>4, JoinIs
<1>9. /\ ToLocal(a, l, r) = UNION {flatten(l, r, p) : p \in {q \in D : LocalTakes(a, l, r, q)}}
      /\ ToRemote(a, l, r) = UNION {flatten(r, l, p) : p \in {q \in D : RemoteTakes(a, l, r, q)}}
      /\ Conflicts(a, l, r) = {p \in D : ~RemoteTakes(a, l, r, p) /\ ~LocalTakes(a, l, r, p)}
  BY DEF ToLocal, ToRemote, Conflicts
<1> HIDE DEF handled, found, D, C, alpha, beta
<1>10. found.alpha = UNION {handled(p).alpha : p \in D} BY <1>6, <1>8
<1>11. found.beta = UNION {handled(p).beta : p \in D} BY <1>6, <1>8
<1>12. found.conflicts = UNION {handled(p).conflicts : p \in D} BY <1>6, <1>8
<1>13. found.ancestor = {[path |-> p, new |-> alpha[p]] : p \in C} BY <1>5, <1>6, <1>8
<1> DEFINE local == {p \in D : LocalTakes(a, l, r, p)}
           remote == {p \in D : RemoteTakes(a, l, r, p)}
           neither == {p \in D : ~RemoteTakes(a, l, r, p) /\ ~LocalTakes(a, l, r, p)}
<1>14. \A p \in D :
         /\ changesFrom(handled(p).alpha) = IF p \in local THEN flatten(l, r, p) ELSE {}
         /\ changesFrom(handled(p).beta) = IF p \in remote THEN flatten(r, l, p) ELSE {}
         /\ handled(p).conflicts = IF p \in neither THEN {p} ELSE {}
  BY <1>7
<1>15. local \subseteq D /\ remote \subseteq D /\ neither \subseteq D OBVIOUS
<1>16. /\ ToLocal(a, l, r) = UNION {flatten(l, r, p) : p \in local}
       /\ ToRemote(a, l, r) = UNION {flatten(r, l, p) : p \in remote}
       /\ Conflicts(a, l, r) = neither
  BY <1>9
<1> HIDE DEF local, remote, neither
<1>17. changesFrom(found.alpha) = ToLocal(a, l, r)
  <2> DEFINE sets == {handled(p).alpha : p \in D}
  <2>1. changesFrom(UNION sets) = UNION {changesFrom(changes) : changes \in sets}
    <3> HIDE DEF sets
    <3> QED BY ChangesOfAll
  <2>2. UNION {changesFrom(changes) : changes \in sets} =
          UNION {changesFrom(handled(p).alpha) : p \in D}
    OBVIOUS
  <2>3. UNION {changesFrom(handled(p).alpha) : p \in D} = UNION {flatten(l, r, p) : p \in local}
    <3>1. \A p \in local : changesFrom(handled(p).alpha) = flatten(l, r, p) BY <1>14, <1>15
    <3>2. \A p \in D : p \notin local => changesFrom(handled(p).alpha) = {} BY <1>14
    <3> QED BY <1>15, <3>1, <3>2
  <2> QED BY <1>10, <1>16, <2>1, <2>2, <2>3
<1>18. changesFrom(found.beta) = ToRemote(a, l, r)
  <2> DEFINE sets == {handled(p).beta : p \in D}
  <2>1. changesFrom(UNION sets) = UNION {changesFrom(changes) : changes \in sets}
    <3> HIDE DEF sets
    <3> QED BY ChangesOfAll
  <2>2. UNION {changesFrom(changes) : changes \in sets} =
          UNION {changesFrom(handled(p).beta) : p \in D}
    OBVIOUS
  <2>3. UNION {changesFrom(handled(p).beta) : p \in D} = UNION {flatten(r, l, p) : p \in remote}
    <3>1. \A p \in remote : changesFrom(handled(p).beta) = flatten(r, l, p) BY <1>14, <1>15
    <3>2. \A p \in D : p \notin remote => changesFrom(handled(p).beta) = {} BY <1>14
    <3> QED BY <1>15, <3>1, <3>2
  <2> QED BY <1>11, <1>16, <2>1, <2>2, <2>3
<1>19. found.conflicts = Conflicts(a, l, r)
  <2>1. \A p \in neither : handled(p).conflicts = {p} BY <1>14, <1>15
  <2>2. \A p \in D : p \notin neither => handled(p).conflicts = {} BY <1>14
  <2>3. UNION {handled(p).conflicts : p \in D} = neither BY <1>15, <2>1, <2>2
  <2> QED BY <1>12, <1>16, <2>3
<1> QED BY <1>13, <1>17, <1>18, <1>19 DEF found, C, alpha, beta

\* What is caught from the root: both scans agree all the way, and either there is
\* something to record or the ancestor agrees with them as well above it.
LEMMA CaughtFromRoot ==
  ASSUME NEW ancestor, NEW alpha, NEW beta, NEW p \in Place
  PROVE  p \in Caught(ancestor, alpha, beta, Root) <=>
           /\ alpha[p] = beta[p] /\ ancestor[p] # alpha[p]
           /\ \A u \in Up(p) : alpha[u] = beta[u] /\ (ancestor[u] = alpha[u] \/ alpha[p] # Absent)
BY BelowRoot DEF Caught

\* The changes leave new at the places of C.
LeavesAt(changes, new, C) ==
  /\ \A c \in changes : c.path \in C /\ c.new = new[c.path]
  /\ \A q \in C : \E c \in changes : c.path = q

LEMMA ChangesLeave ==
  ASSUME NEW new, NEW C
  PROVE  LeavesAt({[path |-> q, new |-> new[q]] : q \in C}, new, C)
<1> DEFINE changes == {[path |-> q, new |-> new[q]] : q \in C}
<1>1. ASSUME NEW c \in changes PROVE c.path \in C /\ c.new = new[c.path]
  <2>1. PICK q \in C : c = [path |-> q, new |-> new[q]] OBVIOUS
  <2> QED BY <2>1
<1>2. ASSUME NEW q \in C PROVE \E c \in changes : c.path = q
  <2>1. [path |-> q, new |-> new[q]] \in changes OBVIOUS
  <2> QED BY <2>1
<1>3. LeavesAt(changes, new, C)
  <2> HIDE DEF changes
  <2> QED BY <1>1, <1>2 DEF LeavesAt
<1> QED BY <1>3

LEMMA ApplyAt ==
  ASSUME NEW e, NEW new, NEW C, NEW changes, LeavesAt(changes, new, C), NEW p \in Place, p \in C
  PROVE  Apply(e, changes)[p] = new[p]
<1>1. \E c \in changes : c.path = p BY DEF LeavesAt
<1> DEFINE chosen == CHOOSE c \in changes : c.path = p
<1>2. chosen \in changes /\ chosen.path = p BY <1>1
<1>3. Apply(e, changes)[p] = chosen.new BY <1>1 DEF Apply
<1> HIDE DEF chosen
<1> QED BY <1>2, <1>3 DEF LeavesAt

LEMMA ApplyBelow ==
  ASSUME NEW e, NEW new, NEW C, NEW changes, LeavesAt(changes, new, C),
         NEW p \in Place, p \notin C, NEW q \in C, q \in Up(p)
  PROVE  Apply(e, changes)[p] = Absent
BY DEF Apply, LeavesAt

LEMMA ApplyElsewhere ==
  ASSUME NEW e, NEW new, NEW C, NEW changes, LeavesAt(changes, new, C),
         NEW p \in Place, p \notin C, \A q \in C : q \notin Up(p)
  PROVE  Apply(e, changes)[p] = e[p]
BY DEF Apply, LeavesAt

LEMMA AncestorAgrees ==
  ASSUME NEW l, NEW r, NEW ancestor, NEW a, Scanned(l, r, ancestor, a)
  PROVE  LET alpha == treeFrom(l)
             beta == treeFrom(r)
             changes == {[path |-> p, new |-> alpha[p]] : p \in Caught(ancestor, alpha, beta, Root)}
         IN  /\ Apply(ancestor, changes) = treeFrom(NewAncestor(a, l, r))
             /\ ParentsFound(ancestor, changes)
<1> DEFINE alpha == treeFrom(l)
           beta == treeFrom(r)
           C == Caught(ancestor, alpha, beta, Root)
           changes == {[path |-> p, new |-> alpha[p]] : p \in C}
           n == NewAncestor(a, l, r)
<1>1. /\ IsEntry(ancestor) /\ IsEntry(alpha) /\ IsEntry(beta)
      /\ ancestor[Root] \in {Absent, Directory}
      /\ alpha[Root] = Directory /\ beta[Root] = Directory
      /\ \A p \in Path : alpha[p] = l[p] /\ beta[p] = r[p] /\ ancestor[p] = a[p]
      /\ l \in Tree /\ r \in Tree /\ a \in Tree
  BY TreeIsEntry DEF Scanned
<1>2. /\ IsEntry(treeFrom(n)) /\ treeFrom(n)[Root] = Directory
      /\ \A p \in Path : treeFrom(n)[p] = n[p]
  BY <1>1, NewAncestorIsTree, TreeIsEntry
<1>3. \A p \in Place :
        p \in C <=> /\ alpha[p] = beta[p] /\ ancestor[p] # alpha[p]
                    /\ \A u \in Up(p) : alpha[u] = beta[u] /\ (ancestor[u] = alpha[u] \/ alpha[p] # Absent)
  BY CaughtFromRoot
<1>4. \A p \in Place :
        /\ p \in C => Apply(ancestor, changes)[p] = alpha[p]
        /\ p \notin C /\ (\E q \in C : q \in Up(p)) => Apply(ancestor, changes)[p] = Absent
        /\ p \notin C /\ (\A q \in C : q \notin Up(p)) => Apply(ancestor, changes)[p] = ancestor[p]
  <2> HIDE DEF C, alpha
  <2>1. LeavesAt(changes, alpha, C) BY ChangesLeave
  <2> HIDE DEF changes
  <2> SUFFICES ASSUME NEW p \in Place
               PROVE  /\ p \in C => Apply(ancestor, changes)[p] = alpha[p]
                      /\ p \notin C /\ (\E q \in C : q \in Up(p)) => Apply(ancestor, changes)[p] = Absent
                      /\ p \notin C /\ (\A q \in C : q \notin Up(p)) =>
                           Apply(ancestor, changes)[p] = ancestor[p]
    OBVIOUS
  <2>2. ASSUME p \in C PROVE Apply(ancestor, changes)[p] = alpha[p] BY <2>1, <2>2, ApplyAt
  <2>3. ASSUME p \notin C, NEW q \in C, q \in Up(p) PROVE Apply(ancestor, changes)[p] = Absent
    BY <2>1, <2>3, ApplyBelow
  <2>4. ASSUME p \notin C, \A q \in C : q \notin Up(p)
        PROVE  Apply(ancestor, changes)[p] = ancestor[p]
    BY <2>1, <2>4, ApplyElsewhere
  <2> QED BY <2>2, <2>3, <2>4
<1>5. C \subseteq Place BY BelowRoot DEF Caught
<1>6. \A p \in Path : /\ p \in Place /\ Up(p) = Above[p] \cup {Root} /\ Above[p] \subseteq Path
                      /\ \A u \in Above[p] : Above[u] \subseteq Above[p]
  BY UpIsOrder, PathAssumption
<1> HIDE DEF C, alpha, beta, changes
<1>7. \A p \in Path :
        n[p] = IF \E q \in Above[p] \cup {p} : Disagrees(l, r, q) THEN a[p]
               ELSE IF Reached(l, r, p) THEN l[p] ELSE Absent
  BY DEF NewAncestor
<1> HIDE DEF n
\* Two places that differ have a disagreement at or above them.
<1>8. ASSUME NEW p \in Path, \A q \in Above[p] \cup {p} : ~Disagrees(l, r, q)
      PROVE  l[p] = r[p] /\ \A u \in Above[p] : l[u] = r[u]
  <2>1. ASSUME NEW u \in Above[p] \cup {p}, l[u] # r[u] PROVE FALSE
    <3>1. u \in Path /\ Above[u] \subseteq Above[p] BY <1>6
    <3>2. ~Reached(l, r, u) BY <1>8, <2>1 DEF Disagrees
    <3>3. \E q \in Above[u] : Disagrees(l, r, q) BY <1>1, <2>1, <3>1, <3>2, StoppedAbove
    <3> QED BY <1>8, <3>1, <3>3
  <2> QED BY <2>1
<1>9. ASSUME NEW p \in Path, p \in C PROVE n[p] = alpha[p]
  <2>1. /\ l[p] = r[p] /\ \A u \in Above[p] : l[u] = r[u]
    BY <1>1, <1>3, <1>6, <1>9
  <2>2. \A q \in Above[p] \cup {p} : ~Disagrees(l, r, q) BY <2>1 DEF Disagrees
  <2>3. l[p] # Absent => Reached(l, r, p) BY <1>1, <2>1 DEF Reached, Tree
  <2> QED BY <1>1, <1>7, <2>2, <2>3
<1>10. ASSUME NEW p \in Path, p \notin C, NEW u \in C, u \in Up(p) PROVE n[p] = Absent
  <2>1. /\ u \in Place /\ alpha[u] = beta[u] /\ ancestor[u] # alpha[u]
        /\ \A v \in Up(u) : alpha[v] = beta[v]
    BY <1>3, <1>5, <1>10
  <2>2. alpha[u] = Directory => ancestor[p] = Absent
    BY <1>1, <1>6, <1>10, <2>1 DEF IsEntry
  <2>3. CASE \E q \in Above[p] \cup {p} : Disagrees(l, r, q)
    <3>1. PICK q \in Above[p] \cup {p} : Disagrees(l, r, q) BY <2>3
    <3>2. q \in Path /\ alpha[q] # beta[q] /\ \A v \in Above[q] : l[v] = Directory
      BY <1>1, <1>6, <3>1 DEF Disagrees, Reached
    <3>3. q # u /\ q \notin Up(u) BY <2>1, <3>2
    <3>4. u \in Up(q)
      <4>1. q = p \/ q \in Up(p) BY <1>6, <3>1
      <4> QED BY <1>6, <1>10, <3>3, <4>1, UpIsOrder
    <3>5. alpha[u] = Directory BY <1>1, <1>6, <3>2, <3>4
    <3> QED BY <1>1, <1>7, <2>2, <2>3, <3>5
  <2>4. CASE \A q \in Above[p] \cup {p} : ~Disagrees(l, r, q)
    <3>1. l[p] = r[p] /\ \A v \in Above[p] : l[v] = r[v] BY <1>8, <2>4
    <3>2. n[p] = IF Reached(l, r, p) THEN l[p] ELSE Absent BY <1>7, <2>4
    <3>3. SUFFICES ASSUME l[p] # Absent PROVE FALSE
      BY <3>2
    <3>4. alpha[p] = beta[p] /\ alpha[p] # Absent BY <1>1, <3>1, <3>3
    <3>5. alpha[u] = Directory BY <1>1, <1>6, <1>10, <3>4 DEF IsEntry
    <3>6. ancestor[p] # alpha[p] BY <2>2, <3>4, <3>5
    <3>7. \A v \in Up(p) : alpha[v] = beta[v] BY <1>1, <1>6, <3>1
    <3> QED BY <1>3, <1>6, <1>10, <3>4, <3>6, <3>7
  <2> QED BY <2>3, <2>4
<1>11. ASSUME NEW p \in Path, p \notin C, \A q \in C : q \notin Up(p) PROVE n[p] = ancestor[p]
  <2>1. CASE \E q \in Above[p] \cup {p} : Disagrees(l, r, q)
    BY <1>1, <1>7, <2>1
  <2>2. CASE \A q \in Above[p] \cup {p} : ~Disagrees(l, r, q)
    <3>1. \A u \in Up(p) \cup {p} : alpha[u] = beta[u] BY <1>1, <1>6, <1>8, <2>2
    <3> DEFINE other == {u \in Place : ancestor[u] # alpha[u]}
    <3>2. ASSUME NEW u \in Up(p) \cup {p}, ancestor[u] # alpha[u] PROVE FALSE
      <4>1. p \in Below(Root) /\ Between(Root, p) = Up(p) /\ Root \in Place /\ u \in Place
        BY <1>6, BelowRoot, UpIsOrder
      <4>2. other \cap (Between(Root, p) \cup {p}) # {} BY <3>2, <4>1
      <4>3. PICK x \in other \cap (Between(Root, p) \cup {p}) :
              x \in Below(Root) /\ Between(Root, x) \subseteq Between(Root, p)
              /\ Between(Root, x) \cap other = {}
        <5> HIDE DEF other
        <5> QED BY <4>1, <4>2, FirstOnTheWay
      <4>4. x \in Place /\ Between(Root, x) = Up(x) /\ Up(x) \subseteq Place BY BelowRoot, UpIsOrder
      <4>5. alpha[x] = beta[x] /\ \A v \in Up(x) : alpha[v] = beta[v] BY <3>1, <4>1, <4>3, <4>4
      <4>6. \A v \in Up(x) : ancestor[v] = alpha[v] BY <4>3, <4>4
      <4>7. x \in C BY <1>3, <4>3, <4>4, <4>5, <4>6
      <4> QED BY <1>11, <4>1, <4>3, <4>7
    <3>3. ancestor[p] = l[p] /\ \A u \in Above[p] : ancestor[u] = l[u] /\ l[u] = r[u]
      BY <1>1, <1>6, <1>8, <2>2, <3>2
    <3>4. ~Reached(l, r, p) => l[p] = Absent
      BY <1>1, <3>3 DEF Reached, Tree
    <3> QED BY <1>7, <2>2, <3>3, <3>4
  <2> QED BY <2>1, <2>2
<1>12. Apply(ancestor, changes)[Root] = Directory
  <2>1. Root \in Place /\ Up(Root) = {} BY UpIsOrder
  <2>2. CASE ancestor[Root] = Directory BY <1>1, <1>3, <1>4, <2>1, <2>2
  <2>3. CASE ancestor[Root] # Directory BY <1>1, <1>3, <1>4, <2>1, <2>3
  <2> QED BY <2>2, <2>3
<1>13. ASSUME NEW p \in Place PROVE Apply(ancestor, changes)[p] = treeFrom(n)[p]
  <2>1. CASE p = Root BY <1>2, <1>12, <2>1
  <2>2. CASE p \in Path BY <1>2, <1>4, <1>6, <1>9, <1>10, <1>11, <2>2
  <2> QED BY <2>1, <2>2 DEF Place
<1>14. Apply(ancestor, changes) = treeFrom(n)
  <2>1. /\ Apply(ancestor, changes) = [p \in Place |-> Apply(ancestor, changes)[p]]
        /\ treeFrom(n) = [p \in Place |-> treeFrom(n)[p]]
    BY DEF Apply, treeFrom
  <2> QED BY <1>13, <2>1
<1>15. ASSUME NEW p \in C, NEW u \in Up(p) PROVE treeFrom(n)[u] # Absent
  <2>1. p \in Place /\ p \in Path BY <1>5, UpIsOrder DEF Place
  <2>2. CASE alpha[p] # Absent
    <3>1. treeFrom(n)[p] # Absent BY <1>2, <1>9, <2>1, <2>2
    <3> QED BY <1>2, <2>1, <3>1, PlainNodes DEF IsEntry
  <2>3. CASE alpha[p] = Absent
    <3>1. ancestor[p] # Absent /\ \A v \in Up(p) : alpha[v] = beta[v] /\ ancestor[v] = alpha[v]
      BY <1>3, <2>1, <2>3
    <3>2. \A v \in Up(p) : alpha[v] = Directory /\ beta[v] = Directory
      BY <1>1, <2>1, <3>1 DEF IsEntry
    <3>3. CASE u = Root BY <1>2, <3>3, PlainNodes
    <3>4. CASE u # Root
      <4>1. u \in Above[p] /\ u \in Path BY <1>6, <2>1, <3>4
      <4>2. \A v \in Above[u] \cup {u} : l[v] = Directory /\ r[v] = Directory
        BY <1>1, <1>6, <2>1, <3>2, <4>1
      <4>3. Reached(l, r, u) /\ \A v \in Above[u] \cup {u} : ~Disagrees(l, r, v)
        BY <4>2 DEF Reached, Disagrees
      <4>4. n[u] = Directory BY <1>7, <4>1, <4>2, <4>3
      <4> QED BY <1>2, <4>1, <4>4, PlainNodes
    <3> QED BY <3>3, <3>4
  <2> QED BY <2>2, <2>3
<1>16. \A c \in changes : c.path \in C BY DEF changes
<1>17. ParentsFound(ancestor, changes) BY <1>14, <1>15, <1>16 DEF ParentsFound
<1> QED BY <1>14, <1>17 DEF changes, C, alpha, beta, n

LEMMA ReconcileAgrees ==
  ASSUME NEW l, NEW r, NEW ancestor, NEW a, Scanned(l, r, ancestor, a)
  PROVE  Reconcile(ancestor, l, r) = [toLocal   |-> ToLocal(a, l, r),
                                      toRemote  |-> ToRemote(a, l, r),
                                      conflicts |-> Conflicts(a, l, r),
                                      ancestor  |-> treeFrom(NewAncestor(a, l, r))]
<1> DEFINE found == reconcile(ancestor, treeFrom(l), treeFrom(r))[Root]
<1>1. /\ changesFrom(found.alpha) = ToLocal(a, l, r)
      /\ changesFrom(found.beta) = ToRemote(a, l, r)
      /\ found.conflicts = Conflicts(a, l, r)
      /\ Apply(ancestor, found.ancestor) = treeFrom(NewAncestor(a, l, r))
      /\ ParentsFound(ancestor, found.ancestor)
  BY DecisionAgrees, AncestorAgrees
<1>2. Reconcile(ancestor, l, r) =
        [toLocal   |-> changesFrom(found.alpha),
         toRemote  |-> changesFrom(found.beta),
         conflicts |-> found.conflicts,
         ancestor  |-> IF ParentsFound(ancestor, found.ancestor)
                       THEN Apply(ancestor, found.ancestor) ELSE ancestor]
  BY DEF Reconcile
<1> HIDE DEF found
<1> QED BY <1>1, <1>2

\* The formulas decide what the recursion of the mutagen core decides, place by
\* place, for every path tree, base and pair of scans, and a missing base is
\* reconciled like an empty one (core.Reconcile, core.Apply, reconcile.flatten).
THEOREM FormulasAreTheRecursion == Spec => []AgreesWithRecursion
<1>1. ASSUME QuietTypes PROVE AgreesWithRecursion
  <2>1. base \in Tree /\ tree["local"] \in Tree /\ tree["remote"] \in Tree
    BY <1>1 DEF QuietTypes, Side
  <2>2. Scanned(tree["local"], tree["remote"], treeFrom(base), base)
    BY <2>1, TreeIsEntry DEF Scanned
  <2>3. base = EmptyTree => Scanned(tree["local"], tree["remote"], Nil, base)
    <3>1. Nil[Root] = Absent /\ \A p \in Path : Nil[p] = EmptyTree[p]
      BY UpIsOrder DEF Nil, EmptyTree
    <3> QED BY <2>1, <3>1, NilIsEntry DEF Scanned
  <2> QED BY <2>2, <2>3, ReconcileAgrees DEF AgreesWithRecursion, toLocal, toRemote, conflicts
<1> QED BY <1>1, QuietRoots, PTL
=============================================================================
