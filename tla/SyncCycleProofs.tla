--------------------------- MODULE SyncCycleProofs ---------------------------
(***************************************************************************)
(* Theorems about SyncCycle for every set of paths, every content and any  *)
(* number of edits and disruptions.                                        *)
(***************************************************************************)
EXTENDS SyncCycle, SyncReconcileProofs

-----------------------------------------------------------------------------
(* Type correctness.                                                       *)

\* A user's write leaves a tree.
LEMMA WriteIsTree ==
  ASSUME NEW t \in Tree, NEW p \in Path, NEW node \in Node,
         \A q \in Above[p] : t[q] = Directory
  PROVE  [RemoveAll(t, p) EXCEPT ![p] = node] \in Tree
<1> DEFINE m == RemoveAll(t, p)
           n == [m EXCEPT ![p] = node]
<1>1. m \in Tree /\ \A q \in Under(p) : m[q] = Absent
  BY RemoveAllIsTree DEF RemoveAll, Under
<1>2. \A q \in Above[p] : m[q] = Directory /\ q # p /\ q \in Path
  BY PathAssumption DEF RemoveAll, Under
<1> HIDE DEF m
<1>3. ASSUME NEW k \in Path, n[k] # Absent, NEW q \in Above[k]
      PROVE  n[q] = Directory
  <2>1. q \in Path
    BY PathAssumption
  <2>2. CASE k = p
    BY <1>1, <1>2, <2>2 DEF Tree
  <2>3. CASE k # p
    <3>1. m[k] # Absent /\ m[q] = Directory
      BY <1>1, <1>3, <2>3 DEF Tree
    <3>2. q # p
      BY <1>1, <3>1 DEF Under
    <3> QED BY <1>1, <2>1, <3>1, <3>2 DEF Tree
  <2> QED BY <2>2, <2>3
<1>4. n \in [Path -> Node]
  BY <1>1 DEF Tree
<1> QED BY <1>3, <1>4 DEF Tree, m

\* Staged content stays a set of digests.
LEMMA StagedAfterIsStaged ==
  ASSUME NEW t, NEW st \in SUBSET Digest, NEW c
  PROVE  stagedAfter(t, st, c) \in SUBSET Digest
BY DEF stagedAfter

LEMMA PlanIsTyped ==
  ASSUME NEW a \in Tree, NEW scans \in [Side -> Tree]
  PROVE  plan(a, scans) \in [Side -> SUBSET Change]
<1>1. scans["local"] \in Tree /\ scans["remote"] \in Tree
  BY DEF Side
<1>2. ToLocal(a, scans["local"], scans["remote"]) \subseteq Change
  BY <1>1, LocalPlan
<1>3. ToRemote(a, scans["local"], scans["remote"]) \subseteq Change
  BY <1>1, RemotePlan
<1> QED BY <1>2, <1>3 DEF plan

LEMMA ForgetIsTyped ==
  ASSUME Forget
  PROVE  /\ scan' \in [Side -> Tree]
         /\ base' \in Tree
         /\ todo' \in [Side -> SUBSET Change]
         /\ queue' \subseteq Change
BY EmptyTreeIsTree DEF Forget, NoScan, NoWork

LEMMA InitTypeOK == Init => TypeOK
<1> SUFFICES ASSUME Init PROVE TypeOK
  OBVIOUS
<1>1. tree \in [Side -> Tree]
  BY DEF Init
<1>2. 0 \in 0..MaxEdits /\ 0 \in 0..MaxDisruptions
  BY CycleAssumption
<1> QED BY <1>1, <1>2, EmptyTreeIsTree DEF Init, TypeOK, NoScan, NoWork, Phase

\* A disruption keeps both counters in their bounds.
LEMMA DisruptIsTyped ==
  ASSUME TypeOK, NEW kind, Disrupt(kind)
  PROVE  edits' \in 0..MaxEdits /\ disruptions' \in 0..MaxDisruptions
BY CycleAssumption DEF TypeOK, Disrupt

\* The actions of the engine keep the types.
LEMMA EngineTypeOK == TypeOK /\ Engine => TypeOK'
<1> SUFFICES ASSUME TypeOK, Engine PROVE TypeOK'
  OBVIOUS
<1> USE DEF TypeOK
<1>1. CASE Connect \/ setStatus
  BY <1>1 DEF Connect, setStatus, Proceed, roots, daemon, spent, Phase
<1>2. CASE checkLocalIdentity
  BY <1>2, ForgetIsTyped DEF checkLocalIdentity, Proceed, Halt, Abandon, roots, daemon, spent, Phase
<1>3. CASE Handshake
  BY <1>3, ForgetIsTyped DEF Handshake, Proceed, Halt, Abandon, daemon, spent, Phase
<1>4. ASSUME NEW s \in Side, NEW from, NEW next \in Phase, Look(s, from, next)
      PROVE  TypeOK'
  <2>1. Scan(tree[s], unreadable[s]) \in Tree
    BY ScanIsTree
  <2> QED BY <1>4, <2>1 DEF Look, roots, store, daemon, spent
<1>5. CASE Reconcile
  <2>1. CASE guardContentLoss(ancestor, scan)
    BY <1>5, <2>1, ForgetIsTyped DEF Reconcile, Halt, Abandon, roots, daemon, spent, Phase
  <2>2. CASE ~guardContentLoss(ancestor, scan)
    <3>1. todo' = plan(ancestor, scan) /\ base' = ancestor
      BY <1>5, <2>2 DEF Reconcile
    <3>2. todo' \in [Side -> SUBSET Change]
      BY <3>1, PlanIsTyped
    <3>3. plan(ancestor, scan)["local"] \subseteq Change
      BY <3>1, <3>2 DEF Side
    <3>4. phase' \in Phase /\ queue' \subseteq Change
      BY <1>5, <2>2, <3>3 DEF Reconcile, EnterApplyLocal, ToCreate, ToRemove, Phase
    <3> QED BY <1>5, <2>2, <3>1, <3>2, <3>4 DEF Reconcile, roots, daemon, spent
  <2> QED BY <2>1, <2>2
<1>6. CASE StageQuery
  BY <1>6 DEF StageQuery, roots, store, daemon, spent, Phase, ToCreate, Side
<1>7. CASE stageOne
  <2>1. PICK c \in queue :
          LET here     == tree["local"][c.path]
              readable == c.path \notin unreadable["local"]
              others   == {d \in queue : d.node.digest # c.node.digest}
          IN  \/ /\ Has(here, c.node.digest) /\ readable
                 /\ staged' = [staged EXCEPT !["remote"] = @ \cup {c.node.digest}]
                 /\ queue' = others
                 /\ UNCHANGED <<phase, scan, base, todo, daemon, quarantine>>
              \/ /\ queue' = others
                 /\ UNCHANGED <<staged, phase, scan, base, todo, daemon, quarantine>>
              \/ Retry /\ UNCHANGED staged
    BY <1>7 DEF stageOne
  <2>2. ASSUME Has(tree["local"][c.path], c.node.digest) PROVE c.node.digest \in Digest
    <3>1. tree["local"][c.path] \in Node
      BY DEF Tree, Side, Change
    <3> QED BY <2>2, <3>1, NodeKinds DEF Has, File
  <2> QED BY <1>7, <2>1, <2>2, ForgetIsTyped DEF stageOne, Retry, Abandon, daemon, spent, Phase, Side
<1>8. ASSUME NEW s \in Side, NEW c \in todo[s], ApplyOne(s, c)
      PROVE  /\ tree' \in [Side -> Tree]
             /\ staged' \in [Side -> SUBSET Digest]
             /\ todo' \in [Side -> SUBSET Change]
  <2>1. c \in Change
    OBVIOUS
  <2>2. applyChange(tree[s], staged[s], c) \in Tree
    BY <2>1, ApplyIsTree
  <2>3. stagedAfter(tree[s], staged[s], c) \in SUBSET Digest
    BY StagedAfterIsStaged
  <2> QED BY <1>8, <2>2, <2>3 DEF ApplyOne
<1>9. CASE TransitionRemote
  <2>1. PICK c \in todo["remote"] : ApplyOne("remote", c)
    BY <1>9 DEF TransitionRemote, NextChanges
  <2>2. phase' \in Phase /\ queue' \subseteq Change
    BY <1>9 DEF TransitionRemote, EnterApplyLocal, ToCreate, ToRemove, Phase, Side
  <2> QED BY <1>8, <1>9, <2>1, <2>2 DEF TransitionRemote, store, daemon, spent, Side
<1>10. CASE supplyOne
  <2>1. PICK c \in ToCreate(queue) :
          \/ /\ staged' = [staged EXCEPT !["local"] = @ \cup {c.node.digest}]
             /\ queue' = queue \ {c}
             /\ UNCHANGED <<phase, scan, base, todo, daemon, quarantine>>
          \/ Halt("root-replaced") /\ UNCHANGED staged
          \/ Retry /\ UNCHANGED staged
    BY <1>10 DEF supplyOne
  <2>2. c.node.digest \in Digest
    BY DEF ToCreate, Change, File
  <2> QED BY <1>10, <2>1, <2>2, ForgetIsTyped DEF supplyOne, Halt, Retry, Abandon, daemon, spent, Phase, Side
<1>11. CASE trashPath
  <2>1. PICK c \in queue :
          /\ queue' = queue \ {c}
          /\ \/ /\ tree' = [tree EXCEPT !["local"] = RemoveAll(@, c.path)]
                /\ trash' = trash \cup Kept(tree["local"], c.path)
             \/ TrashRenameFails /\ UNCHANGED <<tree, trash>>
    BY <1>11 DEF trashPath
  <2>2. c.path \in Path
    BY DEF Change
  <2>3. RemoveAll(tree["local"], c.path) \in Tree
    BY <2>2, RemoveAllIsTree DEF Side
  <2>4. Kept(tree["local"], c.path) \subseteq Node
    BY DEF Kept, Tree, Under, Side
  <2> QED BY <1>11, <2>1, <2>3, <2>4 DEF trashPath, daemon, spent
<1>12. CASE TransitionLocal
  <2>1. PICK c \in todo["local"] : ApplyOne("local", c)
    BY <1>12 DEF TransitionLocal, NextChanges
  <2> QED BY <1>8, <1>12, <2>1 DEF TransitionLocal, store, daemon, spent, Side, Phase
<1>13. CASE Commit
  <2>1. ancestor' \in Tree
    BY <1>13, NewAncestorIsTree DEF Commit, Side
  <2>2. remembered' \subseteq Path
    BY <1>13 DEF Commit, Conflicts
  <2> QED BY <1>13, <2>1, <2>2, ForgetIsTyped DEF Commit, roots, spent, Phase
<1> QED
  BY <1>1, <1>2, <1>3, <1>4, <1>5, <1>6, <1>7, <1>9, <1>10, <1>11, <1>12, <1>13
  DEF Engine, ScanLocal, ScanRemote, Side, Phase

\* Users, disruptions and the commands of a halted session keep the types.
LEMMA EnvironmentTypeOK == TypeOK /\ Environment => TypeOK'
<1> SUFFICES ASSUME TypeOK, Environment PROVE TypeOK'
  OBVIOUS
<1>1. ASSUME NEW s \in Side, NEW p \in Path, NEW node \in Written, UserEdit(s, p, node)
      PROVE  TypeOK'
  <2>1. [RemoveAll(tree[s], p) EXCEPT ![p] = node] \in Tree
    BY <1>1, CycleAssumption, WriteIsTree DEF UserEdit, TypeOK
  <2>2. edits' \in 0..MaxEdits
    BY <1>1, CycleAssumption DEF UserEdit, TypeOK
  <2> QED BY <1>1, <2>1, <2>2 DEF UserEdit, TypeOK, store, daemon, cycle
<1>2. ASSUME NEW s \in Side, NEW p \in Path, ToggleReadable(s, p)
      PROVE  TypeOK'
  BY <1>2, DisruptIsTyped DEF ToggleReadable, TypeOK, store, daemon, cycle
<1>3. CASE Drop
  BY <1>3, DisruptIsTyped, ForgetIsTyped DEF Drop, Retry, Abandon, TypeOK, roots, daemon, Phase
<1>4. CASE Crash
  BY <1>4, DisruptIsTyped, ForgetIsTyped DEF Crash, Abandon, TypeOK, roots, store, Phase
<1>5. CASE WipeRemote
  BY <1>5, DisruptIsTyped, ForgetIsTyped, EmptyTreeIsTree
  DEF WipeRemote, Retry, Abandon, TypeOK, daemon, Phase, Side
<1>6. CASE ForeignRemote
  BY <1>6, DisruptIsTyped DEF ForeignRemote, TypeOK, store, daemon, cycle
<1>7. CASE SwapLocalRoot
  BY <1>7, DisruptIsTyped, EmptyTreeIsTree DEF SwapLocalRoot, TypeOK, store, daemon, cycle
<1>8. CASE LoseLocal
  BY <1>8, DisruptIsTyped, EmptyTreeIsTree DEF LoseLocal, TypeOK, store, daemon, cycle
<1>9. CASE Resume
  BY <1>9, DisruptIsTyped DEF Resume, TypeOK, store, cycle
<1>10. CASE AcceptDeletions
  BY <1>10, DisruptIsTyped DEF AcceptDeletions, TypeOK, store, cycle
<1>11. CASE Reset
  BY <1>11, DisruptIsTyped, EmptyTreeIsTree DEF Reset, TypeOK, cycle
<1>12. ASSUME NEW p \in Path, Resolve(p)
       PROVE  TypeOK'
  BY <1>12, DisruptIsTyped, EmptyTreeIsTree DEF Resolve, TypeOK, roots, cycle
<1> QED
  BY <1>1, <1>2, <1>3, <1>4, <1>5, <1>6, <1>7, <1>8, <1>9, <1>10, <1>11, <1>12
  DEF Environment

LEMMA StutterTypeOK == TypeOK /\ UNCHANGED vars => TypeOK'
BY DEF TypeOK, vars, roots, store, daemon, cycle, spent

\* Both roots, every scan and every base stay trees, and every plan well formed,
\* whatever users and disruptions do between two steps of a cycle.
THEOREM TypeCorrect == Spec => []TypeOK
<1>1. TypeOK /\ [Next]_vars => TypeOK'
  BY EngineTypeOK, EnvironmentTypeOK, StutterTypeOK DEF Next
<1> QED BY InitTypeOK, <1>1, PTL DEF Spec

-----------------------------------------------------------------------------
(* The plan of a cycle, until it is applied or abandoned.                  *)

\* The inductive invariant: types, what the plan is aimed at, and in which
\* phases there is a plan.
CycleInv == TypeOK /\ PlanKeepsNewWork /\ PlanAvoidsConflicts /\ WorkMatchesPhase

LEMMA InitCycleInv == Init => CycleInv
<1> SUFFICES ASSUME Init PROVE CycleInv
  OBVIOUS
<1>1. TypeOK
  BY InitTypeOK
<1>2. \A s \in Side : todo[s] = {}
  BY DEF Init, NoWork
<1> QED BY <1>1, <1>2
  DEF Init, CycleInv, PlanKeepsNewWork, PlanAvoidsConflicts, WorkMatchesPhase, Applying

\* A fresh plan is aimed at nothing that only one side knows, and at no conflict.
LEMMA FreshPlan ==
  ASSUME NEW a \in Tree, NEW scans \in [Side -> Tree], NEW s \in Side,
         NEW c \in plan(a, scans)[s]
  PROVE  /\ \A q \in Reach(c) : scans[s][q] \in {Absent, a[q]}
         /\ \A k \in Conflicts(a, scans["local"], scans["remote"]) :
              c.path \notin Under(k) /\ k \notin Under(c.path)
<1> DEFINE l == scans["local"]
           r == scans["remote"]
<1>1. l \in Tree /\ r \in Tree
  BY DEF Side
<1>2. PICK p \in Path :
        /\ Disagrees(l, r, p)
        /\ Within(c, p)
        /\ IF s = "local" THEN LocalTakes(a, l, r, p) ELSE RemoteTakes(a, l, r, p)
  <2>1. CASE s = "local"
    <3>1. c \in ToLocal(a, l, r)
      BY <2>1 DEF plan
    <3> QED BY <1>1, <2>1, <3>1, LocalPlan
  <2>2. CASE s = "remote"
    <3>1. c \in ToRemote(a, l, r)
      BY <2>2 DEF plan
    <3> QED BY <1>1, <2>2, <3>1, RemotePlan
  <2> QED BY <2>1, <2>2 DEF Side
<1>3. Reach(c) \subseteq Under(p)
  BY <1>2, UnderClosed DEF Reach, Within
<1>4. \A q \in Under(p) : scans[s][q] \in {Absent, a[q]}
  BY <1>2, TakingLosesNothingNew DEF Side
<1>5. ASSUME NEW k \in Conflicts(a, l, r)
      PROVE  c.path \notin Under(k) /\ k \notin Under(c.path)
  <2>1. k \in Path /\ Disagrees(l, r, k) /\ k # p
    BY <1>2 DEF Conflicts
  <2> QED BY <1>2, <2>1, WithinApart
<1> QED BY <1>3, <1>4, <1>5

\* What is left of a plan is as safe as the plan was.
LEMMA PlanShrinks ==
  ASSUME PlanKeepsNewWork, PlanAvoidsConflicts, scan' = scan, base' = base,
         \A s \in Side : todo'[s] \subseteq todo[s]
  PROVE  PlanKeepsNewWork' /\ PlanAvoidsConflicts'
BY DEF PlanKeepsNewWork, PlanAvoidsConflicts

\* A step that ends the cycle leaves no plan.
LEMMA NoPlanLeft ==
  ASSUME Forget, phase' \notin Applying \cup {"commit"},
         halted' # "none" => phase' = "offline"
  PROVE  PlanKeepsNewWork' /\ PlanAvoidsConflicts' /\ WorkMatchesPhase'
<1>1. todo' = NoWork /\ \A s \in Side : todo'[s] = {}
  BY DEF Forget, NoWork
<1> QED BY <1>1 DEF PlanKeepsNewWork, PlanAvoidsConflicts, WorkMatchesPhase, Applying

\* Steps beside the cycle do not disturb its plan.
LEMMA PlanStands ==
  ASSUME CycleInv, UNCHANGED cycle, halted' \in {halted, "none"}
  PROVE  PlanKeepsNewWork' /\ PlanAvoidsConflicts' /\ WorkMatchesPhase'
BY DEF CycleInv, cycle, PlanKeepsNewWork, PlanAvoidsConflicts, WorkMatchesPhase

LEMMA EnvironmentCycleInv == CycleInv /\ Environment => CycleInv'
<1> SUFFICES ASSUME CycleInv, Environment
             PROVE  PlanKeepsNewWork' /\ PlanAvoidsConflicts' /\ WorkMatchesPhase'
  BY EnvironmentTypeOK DEF CycleInv
<1>1. CASE Drop \/ Crash \/ WipeRemote
  <2>1. Forget /\ phase' = "offline"
    BY <1>1 DEF Drop, Crash, WipeRemote, Retry, Abandon
  <2> QED BY <2>1, NoPlanLeft DEF Applying
<1>2. CASE ~(Drop \/ Crash \/ WipeRemote)
  <2>1. UNCHANGED cycle /\ halted' \in {halted, "none"}
    BY <1>2 DEF Environment, ToggleReadable, UserEdit, ForeignRemote, SwapLocalRoot,
                LoseLocal, Resume, AcceptDeletions, Reset, Resolve, daemon
  <2> QED BY <2>1, PlanStands
<1> QED BY <1>1, <1>2

LEMMA EngineCycleInv == CycleInv /\ Engine => CycleInv'
<1> SUFFICES ASSUME CycleInv, Engine
             PROVE  PlanKeepsNewWork' /\ PlanAvoidsConflicts' /\ WorkMatchesPhase'
  BY EngineTypeOK DEF CycleInv
<1> USE DEF Applying
<1>0. /\ TypeOK /\ PlanKeepsNewWork /\ PlanAvoidsConflicts /\ WorkMatchesPhase
      /\ TypeOK'
  BY EngineTypeOK DEF CycleInv
<1>1. ASSUME phase \notin Applying, phase' \notin Applying \cup {"commit"},
             UNCHANGED todo, halted' # "none" => phase' = "offline"
      PROVE  PlanKeepsNewWork' /\ PlanAvoidsConflicts' /\ WorkMatchesPhase'
  <2>1. todo' = NoWork /\ \A s \in Side : todo'[s] = {}
    BY <1>0, <1>1 DEF WorkMatchesPhase, NoWork
  <2> QED BY <1>1, <2>1 DEF PlanKeepsNewWork, PlanAvoidsConflicts, WorkMatchesPhase
<1>2. CASE Connect \/ setStatus
  BY <1>0, <1>1, <1>2 DEF Connect, setStatus, Proceed, WorkMatchesPhase, daemon
<1>3. CASE checkLocalIdentity \/ Handshake
  <2>1. CASE phase' = "offline"
    BY <1>3, <2>1, NoPlanLeft DEF checkLocalIdentity, Handshake, Proceed, Halt, Abandon
  <2>2. CASE phase' # "offline"
    BY <1>0, <1>1, <1>3, <2>2
    DEF checkLocalIdentity, Handshake, Proceed, Halt, Abandon, WorkMatchesPhase, daemon
  <2> QED BY <2>1, <2>2
<1>4. CASE ScanLocal \/ ScanRemote
  BY <1>0, <1>1, <1>4 DEF ScanLocal, ScanRemote, Look, WorkMatchesPhase, daemon
<1>5. CASE Reconcile
  <2>1. CASE guardContentLoss(ancestor, scan)
    BY <1>5, <2>1, NoPlanLeft DEF Reconcile, Halt, Abandon
  <2>2. CASE ~guardContentLoss(ancestor, scan)
    <3>1. /\ todo' = plan(ancestor, scan) /\ base' = ancestor /\ scan' = scan
          /\ halted' = halted /\ phase = "reconcile"
          /\ IF todo'["remote"] # {}
             THEN phase' = "stageQuery" /\ UNCHANGED queue
             ELSE EnterApplyLocal(todo'["local"])
      BY <1>5, <2>2 DEF Reconcile, daemon
    <3>2. PlanKeepsNewWork' /\ PlanAvoidsConflicts'
      BY <1>0, <3>1, FreshPlan DEF PlanKeepsNewWork, PlanAvoidsConflicts, TypeOK
    <3>3. phase' \in Applying \/ (phase' = "commit" /\ todo' = NoWork)
      BY <1>0, <3>1 DEF EnterApplyLocal, TypeOK, Side, NoWork
    <3>4. phase' = "applyLocal" =>
            /\ todo'["remote"] = {}
            /\ queue' \subseteq ToCreate(todo'["local"]) \cup ToRemove(todo'["local"])
      BY <3>1 DEF EnterApplyLocal
    <3> QED BY <1>0, <2>2, <3>1, <3>2, <3>3, <3>4 DEF WorkMatchesPhase
  <2> QED BY <2>1, <2>2
<1>6. CASE StageQuery
  BY <1>0, <1>6, PlanShrinks DEF StageQuery, WorkMatchesPhase, daemon
<1>7. CASE stageOne
  <2>1. CASE Retry
    BY <1>0, <1>7, <2>1, NoPlanLeft DEF Retry, Abandon
  <2>2. CASE ~Retry
    <3>1. UNCHANGED <<phase, scan, base, todo, daemon>> /\ phase = "applyRemote"
      BY <1>7, <2>2 DEF stageOne
    <3> QED BY <1>0, <3>1, PlanShrinks DEF WorkMatchesPhase, daemon
  <2> QED BY <2>1, <2>2
<1>8. ASSUME NEW s \in Side, NEW c \in todo[s], ApplyOne(s, c)
      PROVE  /\ \A o \in Side : todo'[o] \subseteq todo[o]
             /\ \A o \in Side \ {s} : todo'[o] = todo[o]
  BY <1>0, <1>8 DEF ApplyOne, TypeOK
<1>9. CASE TransitionRemote
  <2>1. PICK c \in todo["remote"] : ApplyOne("remote", c)
    BY <1>9 DEF TransitionRemote, NextChanges
  <2>2. /\ \A o \in Side : todo'[o] \subseteq todo[o]
        /\ todo'["local"] = todo["local"]
    BY <1>8, <2>1 DEF Side
  <2>3. /\ phase = "applyRemote" /\ scan' = scan /\ base' = base /\ halted' = halted
        /\ IF todo'["remote"] = {}
           THEN EnterApplyLocal(todo["local"])
           ELSE UNCHANGED <<phase, queue>>
    BY <1>9 DEF TransitionRemote, daemon
  <2>4. PlanKeepsNewWork' /\ PlanAvoidsConflicts'
    BY <1>0, <2>2, <2>3, PlanShrinks
  <2>5. phase' \in Applying \/ (phase' = "commit" /\ todo' = NoWork)
    BY <1>0, <2>2, <2>3 DEF EnterApplyLocal, TypeOK, Side, NoWork
  <2>6. phase' = "applyLocal" =>
          /\ todo'["remote"] = {}
          /\ queue' \subseteq ToCreate(todo'["local"]) \cup ToRemove(todo'["local"])
    BY <2>2, <2>3 DEF EnterApplyLocal
  <2> QED BY <1>0, <2>3, <2>4, <2>5, <2>6 DEF WorkMatchesPhase
<1>10. CASE supplyOne
  <2>1. CASE phase' = "offline"
    BY <1>0, <1>10, <2>1, NoPlanLeft DEF supplyOne, Retry, Halt, Abandon
  <2>2. CASE phase' # "offline"
    <3>1. /\ UNCHANGED <<phase, scan, base, todo, daemon>> /\ phase = "applyLocal"
          /\ queue' \subseteq queue
      BY <1>10, <2>2 DEF supplyOne, Retry, Halt, Abandon
    <3> QED BY <1>0, <3>1, PlanShrinks DEF WorkMatchesPhase, daemon
  <2> QED BY <2>1, <2>2
<1>11. CASE trashPath
  BY <1>0, <1>11, PlanShrinks DEF trashPath, WorkMatchesPhase, daemon
<1>12. CASE TransitionLocal
  <2>1. PICK c \in todo["local"] : ApplyOne("local", c)
    BY <1>12 DEF TransitionLocal, NextChanges
  <2>2. /\ \A o \in Side : todo'[o] \subseteq todo[o]
        /\ todo'["remote"] = todo["remote"]
    BY <1>8, <2>1 DEF Side
  <2>3. /\ phase = "applyLocal" /\ scan' = scan /\ base' = base /\ halted' = halted
        /\ queue = {} /\ queue' = queue
        /\ phase' = IF todo'["local"] = {} THEN "commit" ELSE phase
    BY <1>12 DEF TransitionLocal, daemon
  <2>4. phase' = "applyLocal" \/ (phase' = "commit" /\ todo' = NoWork)
    BY <1>0, <2>2, <2>3 DEF TypeOK, Side, NoWork, WorkMatchesPhase
  <2> QED BY <1>0, <2>2, <2>3, <2>4, PlanShrinks DEF WorkMatchesPhase
<1>13. CASE Commit
  BY <1>0, <1>13, NoPlanLeft DEF Commit, WorkMatchesPhase
<1> QED
  BY <1>2, <1>3, <1>4, <1>5, <1>6, <1>7, <1>9, <1>10, <1>11, <1>12, <1>13 DEF Engine

\* In every reachable state the plan, whatever is left of it and however often
\* it was interrupted, is aimed at nothing only one side knows, leaves conflicts
\* alone and belongs to a cycle that passed the content-loss guard.
THEOREM CycleInvariant == Spec => []CycleInv
<1>1. CycleInv /\ UNCHANGED vars => CycleInv'
  BY StutterTypeOK, PlanStands DEF CycleInv, vars, daemon
<1>2. CycleInv /\ [Next]_vars => CycleInv'
  BY EngineCycleInv, EnvironmentCycleInv, <1>1 DEF Next
<1> QED BY InitCycleInv, <1>2, PTL DEF Spec

\* Nothing a plan still has to do, on either side, replaces or removes a scanned
\* version the base does not hold (cycle.go Run, reconcile.go Reconcile).
THEOREM PlansKeepNewWork == Spec => []PlanKeepsNewWork
<1>1. CycleInv => PlanKeepsNewWork
  BY DEF CycleInv
<1> QED BY <1>1, CycleInvariant, PTL

\* Nothing a plan still has to do is at, above or inside a path in conflict
\* (reconcile.go quarantined paths, cycle.go Run).
THEOREM PlansAvoidConflicts == Spec => []PlanAvoidsConflicts
<1>1. CycleInv => PlanAvoidsConflicts
  BY DEF CycleInv
<1> QED BY <1>1, CycleInvariant, PTL

-----------------------------------------------------------------------------
(* What a step of the engine does to the roots.                            *)

\* Only three actions of the engine write to a root.
LEMMA WritersOfRoots ==
  ASSUME TypeOK, [Next]_vars, EngineStep
  PROVE  tree' = tree \/ TransitionRemote \/ trashPath \/ TransitionLocal
<1>1. CASE Engine
  BY <1>1 DEF Engine, Connect, setStatus, checkLocalIdentity, Handshake, ScanLocal, ScanRemote, Look,
       Reconcile, StageQuery, stageOne, supplyOne, Commit, roots
<1>2. CASE Environment
  <2>1. edits' # edits \/ disruptions' # disruptions
    BY <1>2, CycleAssumption DEF Environment, ToggleReadable, UserEdit, Drop, Crash, WipeRemote,
         ForeignRemote, SwapLocalRoot, LoseLocal, Resume, AcceptDeletions, Reset,
         Resolve, Disrupt, TypeOK
  <2> QED BY <2>1 DEF EngineStep, spent
<1> QED BY <1>1, <1>2 DEF Next, vars, roots

\* The step writes to one side only, and there to what the change reaches and to
\* missing directories above it.
Confined(s, c) ==
  /\ \A o \in Side \ {s} : tree'[o] = tree[o]
  /\ \A q \in Path : tree'[s][q] # tree[s][q] =>
       q \in Reach(c) \/ (q \in Above[c.path] /\ tree[s][q] = Absent)

\* A step that writes to a root carries out, or prepares, one planned change.
LEMMA WriteFollowsPlan ==
  ASSUME CycleInv, TransitionRemote \/ trashPath \/ TransitionLocal
  PROVE  \E s \in Side : \E c \in todo[s] : Confined(s, c)
<1> USE DEF CycleInv
<1>1. ASSUME NEW s \in Side, NEW c \in todo[s], ApplyOne(s, c)
      PROVE  Confined(s, c)
  <2>1. tree'[s] = applyChange(tree[s], staged[s], c) /\ \A o \in Side \ {s} : tree'[o] = tree[o]
    BY <1>1 DEF ApplyOne, TypeOK
  <2>2. c \in Change /\ tree[s] \in Tree
    BY DEF TypeOK
  <2>3. c.path \in Under(c.path) /\ c.path \in Path
    BY <2>2, UnderClosed DEF Change, Under
  <2> QED BY <2>1, <2>2, <2>3, ApplyTouches DEF Reach, Confined
<1>2. CASE TransitionRemote
  BY <1>1, <1>2 DEF TransitionRemote, NextChanges, Side
<1>3. CASE TransitionLocal
  BY <1>1, <1>3 DEF TransitionLocal, NextChanges, Side
<1>4. CASE trashPath
  <2>1. PICK c \in queue : tree' = tree \/ tree' = [tree EXCEPT !["local"] = RemoveAll(@, c.path)]
    BY <1>4 DEF trashPath
  <2>2. c \in todo["local"] /\ c.kind = "REMOVE"
    BY <1>4 DEF trashPath, WorkMatchesPhase, ToCreate, ToRemove
  <2>3. /\ \A o \in Side \ {"local"} : tree'[o] = tree[o]
        /\ \A q \in Path : tree'["local"][q] # tree["local"][q] => q \in Under(c.path)
    BY <2>1 DEF RemoveAll, TypeOK, Side
  <2> QED BY <2>2, <2>3 DEF Reach, Side, Confined
<1> QED BY <1>2, <1>3, <1>4

\* Two-way-safe: an engine step never overwrites or removes a file or link that
\* is not the base's, unless it appeared after the scan of the running cycle.
THEOREM NewWorkIsKept == Spec => OnlyBaseOverwritten
<1>1. ASSUME CycleInv, [Next]_vars, EngineStep,
             NEW s \in Side, NEW q \in Path, tree'[s][q] # tree[s][q]
      PROVE  tree[s][q] \in {Absent, Directory, base[q]} \/ tree[s][q] # scan[s][q]
  <2>1. TransitionRemote \/ trashPath \/ TransitionLocal
    BY <1>1, WritersOfRoots DEF CycleInv
  <2>0. PICK o \in Side : \E c \in todo[o] : Confined(o, c)
    BY <1>1, <2>1, WriteFollowsPlan
  <2>2. PICK c \in todo[o] : Confined(o, c)
    BY <2>0
  <2>3. s = o
    BY <1>1, <2>2 DEF Confined
  <2>4. q \in Reach(c) \/ tree[s][q] = Absent
    BY <1>1, <2>2, <2>3 DEF Confined
  <2>5. q \in Reach(c) => scan[s][q] \in {Absent, base[q]}
    BY <1>1, <2>2, <2>3 DEF CycleInv, PlanKeepsNewWork
  <2> QED BY <2>4, <2>5
<1>2. CycleInv /\ [Next]_vars =>
        [EngineStep =>
           \A s \in Side, q \in Path :
             \/ tree[s][q] \in {Absent, Directory, base[q]}
             \/ tree'[s][q] = tree[s][q]
             \/ tree[s][q] # scan[s][q]]_vars
  BY <1>1
<1> QED BY CycleInvariant, <1>2, PTL DEF Spec, OnlyBaseOverwritten

\* Both versions of a path in conflict, and all below them, survive every step of
\* the engine.
THEOREM ConflictsSurvive == Spec => ConflictsUntouched
<1>1. ASSUME CycleInv, [Next]_vars, EngineStep,
             NEW k \in Conflicts(base, scan["local"], scan["remote"]),
             NEW s \in Side, NEW q \in Under(k)
      PROVE  tree'[s][q] = tree[s][q]
  <2> SUFFICES ASSUME tree'[s][q] # tree[s][q] PROVE FALSE
    OBVIOUS
  <2>1. TransitionRemote \/ trashPath \/ TransitionLocal
    BY <1>1, WritersOfRoots DEF CycleInv
  <2>0. PICK o \in Side : \E c \in todo[o] : Confined(o, c)
    BY <1>1, <2>1, WriteFollowsPlan
  <2>2. PICK c \in todo[o] : Confined(o, c)
    BY <2>0
  <2>3. k \in Path /\ q \in Path /\ c.path \in Path
    BY <1>1, <2>2 DEF Conflicts, Under, CycleInv, TypeOK, Change
  <2>4. c.path \notin Under(k) /\ k \notin Under(c.path)
    BY <1>1, <2>2 DEF CycleInv, PlanAvoidsConflicts
  <2>5. q \in Reach(c) \/ q \in Above[c.path]
    BY <2>2, <2>3 DEF Confined
  <2>6. CASE q \in Reach(c)
    BY <2>3, <2>4, <2>6, UnderNested DEF Reach, Under
  <2>7. CASE q \in Above[c.path]
    BY <2>3, <2>4, <2>7, PathAssumption DEF Under
  <2> QED BY <2>5, <2>6, <2>7
<1>2. CycleInv /\ [Next]_vars =>
        [EngineStep =>
           \A p \in Conflicts(base, scan["local"], scan["remote"]), s \in Side :
             \A q \in Under(p) : tree'[s][q] = tree[s][q]]_vars
  BY <1>1
<1> QED BY CycleInvariant, <1>2, PTL DEF Spec, ConflictsUntouched

\* A root that is scanned empty takes nothing from the other one once the base
\* reaches the floor, for every floor.
THEOREM EmptyRootContained == Spec => EmptyRootIsContained
<1>1. ASSUME NEW a, countEntries(a) \in Nat, countEntries(a) >= ContentLossFloor,
             NEW scans, NEW s \in Side, scans[s] = EmptyTree
      PROVE  guardContentLoss(a, scans)
  <2>1. countEntries(EmptyTree) = 0
    BY FS_EmptySet DEF countEntries, Content, EmptyTree
  <2> QED BY <1>1, <2>1, CycleAssumption DEF guardContentLoss, LostMost
<1>2. ASSUME CycleInv, [Next]_vars, EngineStep, NEW s \in Side, Loses(s)
      PROVE  scan[Other(s)] # EmptyTree \/ countEntries(base) < ContentLossFloor
  <2>1. PICK q \in Path : tree'[s][q] # tree[s][q]
    BY <1>2 DEF Loses
  <2>2. TransitionRemote \/ trashPath \/ TransitionLocal
    BY <1>2, <2>1, WritersOfRoots DEF CycleInv
  <2>3. ~guardContentLoss(base, scan)
    BY <1>2, <2>2 DEF CycleInv, WorkMatchesPhase, Applying,
         TransitionRemote, trashPath, TransitionLocal
  <2>4. countEntries(base) \in Nat
    BY PathAssumption, FS_Subset, FS_CardinalityType DEF countEntries, Content
  <2> QED BY <1>1, <1>2, <2>3, <2>4, CycleAssumption DEF Other, Side
<1>3. CycleInv /\ [Next]_vars =>
        [EngineStep =>
           \A s \in Side :
             Loses(s) => \/ scan[Other(s)] # EmptyTree
                         \/ countEntries(base) < ContentLossFloor]_vars
  BY <1>2
<1> QED BY CycleInvariant, <1>3, PTL DEF Spec, EmptyRootIsContained

-----------------------------------------------------------------------------
(* The base.                                                               *)

\* While a plan is applied and until it is committed, the stored base is the one
\* the cycle loaded.
BaseStands == phase \in Applying \cup {"commit"} => base = ancestor

LEMMA BaseStandsStep ==
  ASSUME "resolve" \notin Disruptions, CycleInv, BaseStands, [Next]_vars
  PROVE  BaseStands'
<1> USE DEF BaseStands, Applying
<1>1. CASE Connect \/ setStatus \/ checkLocalIdentity \/ Handshake
  BY <1>1 DEF Connect, setStatus, checkLocalIdentity, Handshake, Proceed, Halt, Abandon
<1>2. CASE ScanLocal \/ ScanRemote
  BY <1>2 DEF ScanLocal, ScanRemote, Look
<1>3. CASE Reconcile
  BY <1>3 DEF Reconcile, Halt, Abandon, EnterApplyLocal
<1>4. CASE StageQuery \/ stageOne \/ TransitionRemote
  BY <1>4 DEF StageQuery, stageOne, TransitionRemote, Retry, Abandon, store
<1>5. CASE supplyOne \/ trashPath \/ TransitionLocal
  BY <1>5 DEF supplyOne, trashPath, TransitionLocal, Retry, Halt, Abandon, store
<1>6. CASE Commit
  BY <1>6 DEF Commit
<1>7. CASE Drop \/ Crash \/ WipeRemote
  BY <1>7 DEF Drop, Crash, WipeRemote, Retry, Abandon
<1>8. CASE Reset
  BY <1>8 DEF Reset, CycleInv, WorkMatchesPhase, cycle
<1>9. ASSUME NEW p \in Path, Resolve(p)
      PROVE  FALSE
  BY <1>9 DEF Resolve, Disrupt
<1>10. CASE UNCHANGED <<ancestor, base, phase>>
  BY <1>10
<1> QED
  BY <1>1, <1>2, <1>3, <1>4, <1>5, <1>6, <1>7, <1>8, <1>9, <1>10
  DEF Next, Engine, Environment, ToggleReadable, UserEdit, ForeignRemote, SwapLocalRoot,
      LoseLocal, Resume, AcceptDeletions, vars, store, cycle

\* Unless a user drops the base with resolve while a cycle runs, a cycle only
\* moves it, at any path, to what both of its scans showed there.
THEOREM BaseAgreed ==
  ASSUME "resolve" \notin Disruptions
  PROVE  Spec => BaseIsAgreed
<1>1. Init => BaseStands
  BY DEF Init, BaseStands, Applying
<1>2. CycleInv /\ BaseStands /\ [Next]_vars => BaseStands'
  BY BaseStandsStep
<1>3. ASSUME CycleInv, BaseStands, [Next]_vars, EngineStep,
             NEW p \in Path, ancestor'[p] # ancestor[p]
      PROVE  \A s \in Side : scan[s][p] = ancestor'[p]
  <2>1. Commit
    <3>1. CASE Engine
      BY <1>3, <3>1 DEF Engine, Connect, setStatus, checkLocalIdentity, Handshake, ScanLocal, ScanRemote,
           Look, Reconcile, StageQuery, stageOne, TransitionRemote, supplyOne, trashPath,
           TransitionLocal, store
    <3>2. CASE Environment
      <4>1. edits' # edits \/ disruptions' # disruptions
        BY <1>3, <3>2, CycleAssumption
        DEF CycleInv, Environment, ToggleReadable, UserEdit, Drop, Crash, WipeRemote,
            ForeignRemote, SwapLocalRoot, LoseLocal, Resume, AcceptDeletions, Reset,
            Resolve, Disrupt, TypeOK
      <4> QED BY <1>3, <4>1 DEF EngineStep, spent
    <3> QED BY <1>3, <3>1, <3>2 DEF Next, vars, store
  <2>2. ancestor'[p] = NewAncestor(ancestor, scan["local"], scan["remote"])[p]
    BY <1>3, <2>1 DEF Commit, BaseStands
  <2>3. ASSUME NEW q \in Above[p] \cup {p}, Disagrees(scan["local"], scan["remote"], q)
        PROVE  FALSE
    BY <1>3, <2>2, <2>3 DEF NewAncestor
  <2>4. CASE Reached(scan["local"], scan["remote"], p)
    BY <2>2, <2>3, <2>4 DEF NewAncestor, Disagrees, Side
  <2>5. CASE ~Reached(scan["local"], scan["remote"], p)
    <3>1. ancestor'[p] = Absent
      BY <2>2, <2>3, <2>5 DEF NewAncestor
    <3>2. scan["local"] \in Tree /\ scan["remote"] \in Tree
      BY <1>3 DEF CycleInv, TypeOK, Side
    <3>3. scan["local"][p] = Absent /\ scan["remote"][p] = Absent
      BY <2>3, <2>5, <3>2, StoppedAbove
    <3> QED BY <3>1, <3>3 DEF Side
  <2> QED BY <2>4, <2>5
<1>4. CycleInv /\ BaseStands /\ [Next]_vars =>
        [EngineStep =>
           \A p \in Path :
             ancestor'[p] = ancestor[p] \/ \A s \in Side : scan[s][p] = ancestor'[p]]_vars
  BY <1>3
<1> QED BY CycleInvariant, <1>1, <1>2, <1>4, PTL DEF Spec, BaseIsAgreed

-----------------------------------------------------------------------------
(* The trash.                                                              *)

\* What a removal still to be applied locally covers is either queued for the
\* trash or gone from the root.
RemovalsEmptied ==
  phase = "applyLocal" =>
    \A c \in ToRemove(todo["local"]) \ queue :
      \A q \in Under(c.path) : tree["local"][q] = Absent

LEMMA RemovalsComeFirst ==
  ASSUME NEW changes \in SUBSET Change, NEW c \in NextChanges(changes), c.kind # "REMOVE"
  PROVE  ToRemove(changes) = {}
<1> SUFFICES ASSUME NEW d \in changes, d.kind = "REMOVE"
             PROVE  FALSE
  BY DEF ToRemove
<1>1. rank(c) <= rank(d)
  BY DEF NextChanges
<1>2. c.path \in Path /\ d.path \in Path
  BY DEF Change, NextChanges
<1>3. /\ Cardinality(Path) \in Nat
      /\ Cardinality(Above[c.path]) \in Nat
      /\ Cardinality(Above[d.path]) \in Nat
  <2>1. /\ IsFiniteSet(Above[c.path])
        /\ IsFiniteSet(Above[d.path])
    BY <1>2, PathAssumption, FS_Subset
  <2> QED BY <2>1, PathAssumption, FS_CardinalityType
<1>4. rank(d) = Cardinality(Path) - Cardinality(Above[d.path])
  BY DEF rank
<1>5. rank(c) \in {Cardinality(Path) + 1 + Cardinality(Above[c.path]),
                  Cardinality(Path) + Cardinality(Path) + 1}
  BY DEF rank
<1> QED BY <1>1, <1>3, <1>4, <1>5

LEMMA RemovalsEmptiedStep ==
  ASSUME ~EditsDuringCycle, ~TrashRenameFails, CycleInv, RemovalsEmptied, [Next]_vars
  PROVE  RemovalsEmptied'
<1> USE DEF RemovalsEmptied
<1>1. CASE Connect \/ setStatus \/ checkLocalIdentity \/ Handshake \/ ScanLocal \/ ScanRemote
  BY <1>1 DEF Connect, setStatus, checkLocalIdentity, Handshake, ScanLocal, ScanRemote, Look,
       Proceed, Halt, Abandon
<1>2. CASE Reconcile
  BY <1>2 DEF Reconcile, Halt, Abandon, EnterApplyLocal, roots
<1>3. CASE StageQuery \/ stageOne
  BY <1>3 DEF StageQuery, stageOne, Retry, Abandon
<1>4. CASE TransitionRemote
  <2> SUFFICES ASSUME phase' = "applyLocal"
               PROVE  ToRemove(todo["local"]') \subseteq queue'
    OBVIOUS
  <2>1. EnterApplyLocal(todo["local"])
    BY <1>4 DEF TransitionRemote
  <2>2. todo["local"]' = todo["local"]
    BY <1>4 DEF TransitionRemote, ApplyOne, CycleInv, TypeOK, Side
  <2> QED BY <2>1, <2>2 DEF EnterApplyLocal
<1>5. CASE supplyOne
  BY <1>5 DEF supplyOne, ToCreate, ToRemove, Retry, Halt, Abandon
<1>6. CASE trashPath
  <2>1. PICK c \in queue : /\ queue' = queue \ {c}
                           /\ tree' = [tree EXCEPT !["local"] = RemoveAll(@, c.path)]
    BY <1>6 DEF trashPath
  <2>2. \A q \in Path : tree'["local"][q] =
                         IF q \in Under(c.path) THEN Absent ELSE tree["local"][q]
    BY <2>1 DEF RemoveAll, CycleInv, TypeOK, Side
  <2>3. Under(c.path) \subseteq Path /\ \A d \in ToRemove(todo["local"]) : Under(d.path) \subseteq Path
    BY DEF Under
  <2> QED BY <1>6, <2>1, <2>2, <2>3 DEF trashPath
<1>7. CASE TransitionLocal
  <2>1. PICK c \in NextChanges(todo["local"]) : ApplyOne("local", c)
    BY <1>7 DEF TransitionLocal
  <2>2. todo'["local"] = todo["local"] \ {c}
    BY <2>1 DEF ApplyOne, CycleInv, TypeOK, Side
  <2>3. CASE c.kind # "REMOVE"
    <3>1. ToRemove(todo["local"]) = {}
      BY <2>3, RemovalsComeFirst DEF CycleInv, TypeOK, Side
    <3> QED BY <2>2, <3>1 DEF ToRemove
  <2>4. CASE c.kind = "REMOVE"
    <3>1. tree'["local"] = RemoveAll(tree["local"], c.path)
      BY <2>1, <2>4 DEF ApplyOne, applyChange, CycleInv, TypeOK, Side
    <3>2. \A q \in Path : tree'["local"][q] =
                           IF q \in Under(c.path) THEN Absent ELSE tree["local"][q]
      BY <3>1 DEF RemoveAll
    <3>3. \A d \in ToRemove(todo["local"]) : Under(d.path) \subseteq Path
      BY DEF Under
    <3> QED BY <1>7, <2>2, <3>2, <3>3 DEF TransitionLocal, ToRemove
  <2> QED BY <2>3, <2>4
<1>8. CASE Commit \/ Drop \/ Crash \/ WipeRemote
  BY <1>8 DEF Commit, Drop, Crash, WipeRemote, Retry, Abandon
<1>9. CASE SwapLocalRoot \/ LoseLocal
  <2>1. tree'["local"] = EmptyTree
    BY <1>9 DEF SwapLocalRoot, LoseLocal, CycleInv, TypeOK, Side
  <2>2. \A p \in Path : Under(p) \subseteq Path
    BY DEF Under
  <2>3. \A c \in ToRemove(todo["local"]) : c.path \in Path
    BY DEF CycleInv, TypeOK, Side, ToRemove, Change
  <2>4. UNCHANGED cycle
    BY <1>9 DEF SwapLocalRoot, LoseLocal
  <2> QED BY <2>1, <2>2, <2>3, <2>4 DEF EmptyTree, cycle
<1>10. ASSUME NEW s \in Side, NEW p \in Path, NEW node \in Written, UserEdit(s, p, node)
       PROVE  phase' # "applyLocal"
  BY <1>10 DEF UserEdit, cycle
<1>11. CASE UNCHANGED <<tree, todo, queue, phase>>
  BY <1>11
<1> QED
  BY <1>1, <1>2, <1>3, <1>4, <1>5, <1>6, <1>7, <1>8, <1>9, <1>10, <1>11
  DEF Next, Engine, Environment, ToggleReadable, ForeignRemote, Resume, AcceptDeletions,
      Reset, Resolve, vars, roots, cycle

\* While nobody edits a root in the middle of a cycle and renames into the trash
\* work, whatever file or link the engine takes out of the local root is kept.
THEOREM RemovalsTrashed ==
  ASSUME ~EditsDuringCycle, ~TrashRenameFails
  PROVE  Spec => LocalRemovalsTrashed
<1>1. Init => RemovalsEmptied
  BY DEF Init, RemovalsEmptied
<1>2. CycleInv /\ RemovalsEmptied /\ [Next]_vars => RemovalsEmptied'
  BY RemovalsEmptiedStep
<1>3. ASSUME CycleInv, RemovalsEmptied, [Next]_vars, EngineStep, NEW q \in Path,
             tree["local"][q] \notin {Absent, Directory},
             tree'["local"][q] \in {Absent, Directory}
      PROVE  tree["local"][q] \in trash'
  <2>1. tree'["local"][q] # tree["local"][q]
    BY <1>3
  <2>2. TransitionRemote \/ trashPath \/ TransitionLocal
    BY <1>3, <2>1, WritersOfRoots DEF CycleInv, Side
  <2>3. CASE TransitionRemote
    BY <2>1, <2>3 DEF TransitionRemote, ApplyOne, CycleInv, TypeOK, Side
  <2>4. CASE trashPath
    <3>1. PICK c \in queue :
            /\ tree' = [tree EXCEPT !["local"] = RemoveAll(@, c.path)]
            /\ trash' = trash \cup Kept(tree["local"], c.path)
      BY <1>3, <2>4 DEF trashPath
    <3>2. q \in Under(c.path)
      BY <1>3, <2>1, <3>1 DEF RemoveAll, CycleInv, TypeOK, Side
    <3> QED BY <1>3, <3>1, <3>2 DEF Kept
  <2>5. CASE TransitionLocal
    <3>1. PICK c \in NextChanges(todo["local"]) : ApplyOne("local", c)
      BY <2>5 DEF TransitionLocal
    <3>2. c \in Change /\ c \in todo["local"]
      BY <1>3, <3>1 DEF NextChanges, CycleInv, TypeOK, Side
    <3>3. tree'["local"] = applyChange(tree["local"], staged["local"], c)
      BY <1>3, <3>1 DEF ApplyOne, CycleInv, TypeOK, Side
    <3>4. ASSUME c.kind = "REMOVE"
          PROVE  FALSE
      <4>1. q \in Under(c.path)
        BY <2>1, <3>3, <3>4 DEF applyChange, RemoveAll
      <4>2. c \in ToRemove(todo["local"]) \ queue
        BY <2>5, <3>2, <3>4 DEF TransitionLocal, ToRemove
      <4> QED BY <1>3, <2>5, <4>1, <4>2 DEF RemovalsEmptied, TransitionLocal
    <3>5. ASSUME c.kind = "CREATE_DIRECTORY"
          PROVE  FALSE
      BY <1>3, <3>3, <3>5 DEF applyChange, MkdirAll, CanMkdirAll
    <3>6. ASSUME c.kind = "SET_EXECUTABLE"
          PROVE  FALSE
      BY <1>3, <3>2, <3>3, <3>6 DEF applyChange, SetExecutable, Change, File, Absent, Directory,
           CycleInv, TypeOK, Side, Tree, Node, Symlink
    <3>7. ASSUME c.kind \in {"CREATE_FILE", "CREATE_SYMLINK"}
          PROVE  FALSE
      <4>1. tree'["local"][q] = Land(tree["local"], c)[q] /\ CanMkdirAll(tree["local"], Above[c.path])
        BY <2>1, <3>3, <3>7 DEF applyChange, CanCreateFile, CanCreateSymlink
      <4>2. c.node \notin {Absent, Directory}
        BY <3>2, <3>7 DEF Change, File, Symlink, Absent, Directory
      <4> QED BY <1>3, <4>1, <4>2 DEF Land, MkdirAll, CanMkdirAll
    <3> QED BY <3>2, <3>4, <3>5, <3>6, <3>7 DEF Change
  <2> QED BY <2>2, <2>3, <2>4, <2>5
<1>4. CycleInv /\ RemovalsEmptied /\ [Next]_vars =>
        [EngineStep =>
           \A q \in Path :
             /\ tree["local"][q] \notin {Absent, Directory}
             /\ tree'["local"][q] \in {Absent, Directory}
             => tree["local"][q] \in trash']_vars
  BY <1>3
<1> QED BY CycleInvariant, <1>1, <1>2, <1>4, PTL DEF Spec, LocalRemovalsTrashed
=============================================================================
