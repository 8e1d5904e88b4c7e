----------------------------- MODULE SyncCycle -----------------------------
(***************************************************************************)
(* One sync session at work: Cycle.Run step by step                        *)
(* (internal/sync/session/cycle.go) against the endpoint's handlers        *)
(* (internal/sync/endpoint/endpoint.go), with both roots' users, lost      *)
(* connections, daemon crashes and replaced roots between any two steps.   *)
(*                                                                         *)
(* What survives a crash is on disk: the two roots with their staging      *)
(* directories and the remote marker, the ancestor and the trash.  The     *)
(* scans and the plan belong to the running cycle.                         *)
(***************************************************************************)
EXTENDS SyncReconcile

CONSTANTS
  Written,           \* the nodes users put into a root
  ContentLossFloor,  \* bases smaller than this are not guarded (10 in the code)
  EditsDuringCycle,  \* may users edit while a cycle runs?
  TrashRenameFails,  \* may the rename into the trash fail?
  Disruptions,       \* the disruptions that happen
  MaxEdits,          \* bound on user edits
  MaxDisruptions     \* bound on disruptions

DisruptionKind ==
  {"drop", "crash", "wipe", "foreign", "swap", "lose", "unreadable",
   "resume", "accept", "reset", "resolve"}

ASSUME CycleAssumption ==
  /\ Written \subseteq Node
  /\ ContentLossFloor \in Nat \ {0}
  /\ EditsDuringCycle \in BOOLEAN
  /\ TrashRenameFails \in BOOLEAN
  /\ Disruptions \subseteq DisruptionKind
  /\ MaxEdits \in Nat
  /\ MaxDisruptions \in Nat

Side == {"local", "remote"}
Other(s) == IF s = "local" THEN "remote" ELSE "local"

VARIABLES
  tree,        \* the two roots
  unreadable,  \* paths a scan of the side fails on
  staged,      \* digests whole in the side's staging directory
  marker,      \* the session the remote root is marked for
  sameRoot,    \* does the local root have the inode the session recorded?
  ancestor,    \* ancestor.bin
  trash,       \* what was moved to the session's trash
  quarantine,  \* the conflicts session.json lists
  remembered,  \* the conflicts the daemon's copy of the state lists
  halted,      \* the reason of a durable halt
  phase,       \* where Cycle.Run is
  scan,        \* the scans of the running cycle
  base,        \* the ancestor the running cycle loaded
  todo,        \* the changes each side still has to apply
  queue,       \* the changes the current phase still has to prepare
  edits,       \* user edits so far
  disruptions  \* disruptions so far

roots  == <<tree, unreadable, staged, marker, sameRoot>>
store  == <<ancestor, trash, quarantine>>
daemon == <<remembered, halted>>
cycle  == <<phase, scan, base, todo, queue>>
spent  == <<edits, disruptions>>
vars   == <<roots, store, daemon, cycle, spent>>

Phase == {"offline", "status", "identity", "handshake", "scanLocal", "scanRemote",
          "reconcile", "stageQuery", "applyRemote", "applyLocal", "commit"}

NoScan == [s \in Side |-> EmptyTree]
NoWork == [s \in Side |-> {}]

Init ==
  /\ tree \in [Side -> {t \in Tree : \A p \in Path : t[p] \in Written}]
  /\ unreadable = [s \in Side |-> {}]
  /\ staged = [s \in Side |-> {}]
  /\ marker = "none"
  /\ sameRoot = TRUE
  /\ ancestor = EmptyTree
  /\ trash = {}
  /\ quarantine = {}
  /\ remembered = {}
  /\ halted = "none"
  /\ phase = "offline"
  /\ scan = NoScan
  /\ base = EmptyTree
  /\ todo = NoWork
  /\ queue = {}
  /\ edits = 0
  /\ disruptions = 0

-----------------------------------------------------------------------------
(***************************************************************************)
(* How a cycle ends.                                                       *)
(***************************************************************************)

Forget == scan' = NoScan /\ base' = EmptyTree /\ todo' = NoWork /\ queue' = {}

Abandon == phase' = "offline" /\ Forget

\* An error that is not a Halt: the runner drops the connection and retries.
Retry == Abandon /\ UNCHANGED <<daemon, quarantine>>

\* A Halt is recorded with the daemon's copy of the state, and the daemon exits.
Halt(reason) ==
  Abandon /\ halted' = reason /\ quarantine' = remembered /\ UNCHANGED remembered

Proceed(next) ==
  phase' = next /\ UNCHANGED <<scan, base, todo, queue, daemon, quarantine>>

-----------------------------------------------------------------------------
(***************************************************************************)
(* Identity, handshake and scans.                                          *)
(***************************************************************************)

Connect ==
  /\ phase = "offline"
  /\ halted = "none"
  /\ Proceed("status")
  /\ UNCHANGED <<roots, ancestor, trash, spent>>

\* attachAndSync saves the daemon's copy of the state once it is connected and
\* after every cycle.
setStatus ==
  /\ phase = "status"
  /\ phase' = "identity"
  /\ quarantine' = remembered
  /\ UNCHANGED <<roots, ancestor, trash, daemon, scan, base, todo, queue, spent>>

checkLocalIdentity ==
  /\ phase = "identity"
  /\ IF sameRoot THEN Proceed("handshake") ELSE Halt("root-replaced")
  /\ UNCHANGED <<roots, ancestor, trash, spent>>

\* The endpoint plants the marker of this session in a root without one.
Handshake ==
  /\ phase = "handshake"
  /\ marker' = IF marker = "none" THEN "mine" ELSE marker
  /\ IF marker' = "mine" THEN Proceed("scanLocal") ELSE Halt("root-replaced")
  /\ UNCHANGED <<tree, unreadable, staged, sameRoot, ancestor, trash, spent>>

Look(s, from, next) ==
  /\ phase = from
  /\ phase' = next
  /\ scan' = [scan EXCEPT ![s] = Scan(tree[s], unreadable[s])]
  /\ UNCHANGED <<roots, store, daemon, base, todo, queue, spent>>

ScanLocal  == Look("local", "scanLocal", "scanRemote")
ScanRemote == Look("remote", "scanRemote", "reconcile")

-----------------------------------------------------------------------------
(***************************************************************************)
(* Guard and plan.                                                         *)
(***************************************************************************)

countEntries(t) == Cardinality(Content(t))

\* More than half as many entries as are tracked are missing, by number.
LostMost(tracked, t) == 2 * (tracked - countEntries(t)) > tracked

\* Fault: only the local side is guarded.
guardLocalContentLoss(a, scans) ==
  countEntries(a) >= ContentLossFloor /\ LostMost(countEntries(a), scans["local"])

guardContentLoss(a, scans) ==
  /\ countEntries(a) >= ContentLossFloor
  /\ \E s \in Side : LostMost(countEntries(a), scans[s])

plan(a, scans) ==
  [s \in Side |->
     IF s = "local" THEN ToLocal(a, scans["local"], scans["remote"])
                    ELSE ToRemote(a, scans["local"], scans["remote"])]

ToCreate(changes) == {c \in changes : c.kind = "CREATE_FILE"}
ToRemove(changes) == {c \in changes : c.kind = "REMOVE"}

\* Fault: a removal is not brought to the trash first.
EnterApplyLocalUntrashed(changes) ==
  /\ phase' = IF changes = {} THEN "commit" ELSE "applyLocal"
  /\ queue' = ToCreate(changes)

\* applyLocal supplies missing content and empties the way into the trash
\* before it applies anything.
EnterApplyLocal(changes) ==
  /\ phase' = IF changes = {} THEN "commit" ELSE "applyLocal"
  /\ queue' = ToCreate(changes) \cup ToRemove(changes)

\* Fault: a plan is made whatever the roots lost.
ReconcileUnguarded ==
  /\ phase = "reconcile"
  /\ todo' = plan(ancestor, scan)
  /\ base' = ancestor
  /\ IF todo'["remote"] # {}
     THEN phase' = "stageQuery" /\ UNCHANGED queue
     ELSE EnterApplyLocal(todo'["local"])
  /\ UNCHANGED <<scan, daemon, quarantine, roots, ancestor, trash, spent>>

Reconcile ==
  /\ phase = "reconcile"
  /\ IF guardContentLoss(ancestor, scan)
     THEN Halt("content-loss")
     ELSE LET changes == plan(ancestor, scan)
          IN  /\ todo' = changes
              /\ base' = ancestor
              /\ IF changes["remote"] # {}
                 THEN phase' = "stageQuery" /\ UNCHANGED queue
                 ELSE EnterApplyLocal(changes["local"])
              /\ UNCHANGED <<scan, daemon, quarantine>>
  /\ UNCHANGED <<roots, ancestor, trash, spent>>

-----------------------------------------------------------------------------
(***************************************************************************)
(* applyRemote.                                                            *)
(***************************************************************************)

StageQuery ==
  /\ phase = "stageQuery"
  /\ phase' = "applyRemote"
  /\ queue' = {c \in ToCreate(todo["remote"]) : c.node.digest \notin staged["remote"]}
  /\ UNCHANGED <<roots, store, daemon, scan, base, todo, spent>>

Has(node, digest) == node.kind = "file" /\ node.digest = digest

\* One missing digest is read from a local file that is to have it.  A file
\* that is gone is skipped, one with other content fails its digest.
stageOne ==
  /\ phase = "applyRemote"
  /\ \E c \in queue :
       LET here     == tree["local"][c.path]
           readable == c.path \notin unreadable["local"]
           others   == {d \in queue : d.node.digest # c.node.digest}
       IN  \/ /\ Has(here, c.node.digest) /\ readable
              /\ staged' = [staged EXCEPT !["remote"] = @ \cup {c.node.digest}]
              /\ queue' = others
              /\ UNCHANGED <<phase, scan, base, todo, daemon, quarantine>>
           \/ /\ here = Absent \/ here.kind = "symlink" \/ ~readable
              /\ queue' = others
              /\ UNCHANGED <<staged, phase, scan, base, todo, daemon, quarantine>>
           \/ /\ here # Absent /\ readable /\ ~Has(here, c.node.digest)
              /\ Retry
              /\ UNCHANGED staged
  /\ UNCHANGED <<tree, unreadable, marker, sameRoot, ancestor, trash, spent>>

\* One change of a side's transition.
ApplyOne(s, c) ==
  /\ tree' = [tree EXCEPT ![s] = applyChange(@, staged[s], c)]
  /\ staged' = [staged EXCEPT ![s] = stagedAfter(tree[s], @, c)]
  /\ todo' = [todo EXCEPT ![s] = @ \ {c}]

TransitionRemote ==
  /\ phase = "applyRemote"
  /\ queue = {}
  /\ \E c \in NextChanges(todo["remote"]) : ApplyOne("remote", c)
  /\ IF todo'["remote"] = {}
     THEN EnterApplyLocal(todo["local"])
     ELSE UNCHANGED <<phase, queue>>
  /\ UNCHANGED <<unreadable, marker, sameRoot, store, daemon, scan, base, spent>>

-----------------------------------------------------------------------------
(***************************************************************************)
(* applyLocal.                                                             *)
(***************************************************************************)

\* Content that is not staged yet is supplied by the endpoint, which refuses a
\* file that is missing or no longer has the digest: ROOT_INVALID, a halt.  It
\* answers INTERNAL for what it cannot digest, and the cycle is retried, as it
\* is when the staging directory went with a replaced local root.
supplyOne ==
  /\ phase = "applyLocal"
  /\ \E c \in ToCreate(queue) :
       LET there    == tree["remote"][c.path]
           readable == c.path \notin unreadable["remote"]
       IN  \/ /\ \/ c.node.digest \in staged["local"]
                 \/ Has(there, c.node.digest) /\ readable
              /\ staged' = [staged EXCEPT !["local"] = @ \cup {c.node.digest}]
              /\ queue' = queue \ {c}
              /\ UNCHANGED <<phase, scan, base, todo, daemon, quarantine>>
           \/ /\ c.node.digest \notin staged["local"]
              /\ \/ there.kind \in {"absent", "symlink"}
                 \/ there.kind = "file" /\ readable /\ ~Has(there, c.node.digest)
              /\ Halt("root-replaced")
              /\ UNCHANGED staged
           \/ /\ c.node.digest \notin staged["local"]
              /\ \/ there.kind \in {"directory", "symlink"}
                 \/ there.kind = "file" /\ ~readable
                 \/ ~sameRoot
              /\ Retry
              /\ UNCHANGED staged
  /\ UNCHANGED <<tree, unreadable, marker, sameRoot, ancestor, trash, spent>>

Kept(t, p) == {t[q] : q \in Under(p)} \ {Absent, Directory}

\* A path to be removed is renamed into the trash, with everything in it.  A
\* rename that fails is not an error.
trashPath ==
  /\ phase = "applyLocal"
  /\ ToCreate(queue) = {}
  /\ \E c \in queue :
       /\ queue' = queue \ {c}
       /\ \/ /\ tree' = [tree EXCEPT !["local"] = RemoveAll(@, c.path)]
             /\ trash' = trash \cup Kept(tree["local"], c.path)
          \/ TrashRenameFails /\ UNCHANGED <<tree, trash>>
  /\ UNCHANGED <<unreadable, staged, marker, sameRoot, ancestor, quarantine,
                 daemon, phase, scan, base, todo, spent>>

TransitionLocal ==
  /\ phase = "applyLocal"
  /\ queue = {}
  /\ \E c \in NextChanges(todo["local"]) : ApplyOne("local", c)
  /\ phase' = IF todo'["local"] = {} THEN "commit" ELSE phase
  /\ UNCHANGED <<unreadable, marker, sameRoot, store, daemon, scan, base, queue, spent>>

\* SaveAncestor, then State.Conflicts in the daemon's copy; the connection stays
\* up for the next cycle.
Commit ==
  /\ phase = "commit"
  /\ ancestor' = NewAncestor(base, scan["local"], scan["remote"])
  /\ remembered' = Conflicts(base, scan["local"], scan["remote"])
  /\ phase' = "status"
  /\ Forget
  /\ UNCHANGED <<roots, trash, quarantine, halted, spent>>

-----------------------------------------------------------------------------
(***************************************************************************)
(* Everybody else.                                                         *)
(***************************************************************************)

\* A user of a root creates, replaces or (with Absent) deletes a path.
UserEdit(s, p, node) ==
  /\ edits < MaxEdits
  /\ EditsDuringCycle \/ phase \in {"offline", "status", "identity"}
  /\ tree[s][p] # node
  /\ \A q \in Above[p] : tree[s][q] = Directory
  /\ tree' = [tree EXCEPT ![s] = [RemoveAll(@, p) EXCEPT ![p] = node]]
  /\ edits' = edits + 1
  /\ UNCHANGED <<unreadable, staged, marker, sameRoot, store, daemon, cycle, disruptions>>

Disrupt(kind) ==
  /\ kind \in Disruptions
  /\ disruptions < MaxDisruptions
  /\ disruptions' = disruptions + 1
  /\ UNCHANGED edits

\* The stream drops, or the endpoint is killed.
Drop ==
  /\ Disrupt("drop")
  /\ phase # "offline"
  /\ Retry
  /\ UNCHANGED <<roots, ancestor, trash>>

\* The daemon dies; resume-all starts another one from what is on disk.
Crash ==
  /\ Disrupt("crash")
  /\ halted = "none"
  /\ Abandon
  /\ remembered' = quarantine
  /\ UNCHANGED <<roots, store, halted>>

\* A sandbox that comes back has an empty workspace; its endpoint is gone.
WipeRemote ==
  /\ Disrupt("wipe")
  /\ Retry
  /\ tree' = [tree EXCEPT !["remote"] = EmptyTree]
  /\ staged' = [staged EXCEPT !["remote"] = {}]
  /\ marker' = "none"
  /\ UNCHANGED <<unreadable, sameRoot, ancestor, trash>>

\* Another session claimed the remote root.
ForeignRemote ==
  /\ Disrupt("foreign")
  /\ marker' = "other"
  /\ UNCHANGED <<tree, unreadable, staged, sameRoot, store, daemon, cycle>>

\* The local root is deleted and recreated, or its drive is not mounted.
SwapLocalRoot ==
  /\ Disrupt("swap")
  /\ sameRoot' = FALSE
  /\ tree' = [tree EXCEPT !["local"] = EmptyTree]
  /\ staged' = [staged EXCEPT !["local"] = {}]
  /\ UNCHANGED <<unreadable, marker, store, daemon, cycle>>

\* What is in the local root disappears under the same inode.
LoseLocal ==
  /\ Disrupt("lose")
  /\ tree' = [tree EXCEPT !["local"] = EmptyTree]
  /\ UNCHANGED <<unreadable, staged, marker, sameRoot, store, daemon, cycle>>

\* A path becomes unreadable, or readable again.
ToggleReadable(s, p) ==
  /\ Disrupt("unreadable")
  /\ unreadable' = [unreadable EXCEPT ![s] = IF p \in @ THEN @ \ {p} ELSE @ \cup {p}]
  /\ UNCHANGED <<tree, staged, marker, sameRoot, store, daemon, cycle>>

\* agyn sandbox sync resume of a halted session: the local root is taken for
\* what it is now, and clearSentinel empties its staging directory.
Resume ==
  /\ Disrupt("resume")
  /\ halted # "none"
  /\ halted' = "none"
  /\ sameRoot' = TRUE
  /\ staged' = [staged EXCEPT !["local"] = {}]
  /\ UNCHANGED <<tree, unreadable, marker, store, remembered, cycle>>

\* agyn sandbox sync accept-deletions: only the halt is taken back.
AcceptDeletions ==
  /\ Disrupt("accept")
  /\ halted # "none"
  /\ halted' = "none"
  /\ staged' = [staged EXCEPT !["local"] = {}]
  /\ UNCHANGED <<tree, unreadable, marker, sameRoot, store, remembered, cycle>>

\* agyn sandbox sync reset of a halted session: the same, and the base and the
\* conflicts are dropped.
Reset ==
  /\ Disrupt("reset")
  /\ halted # "none"
  /\ halted' = "none"
  /\ sameRoot' = TRUE
  /\ staged' = [staged EXCEPT !["local"] = {}]
  /\ ancestor' = EmptyTree
  /\ quarantine' = {}
  /\ remembered' = {}
  /\ UNCHANGED <<tree, unreadable, marker, trash, cycle>>

\* agyn sandbox sync resolve PATH: the base is dropped and the conflict taken
\* off session.json, whether a daemon runs or not.
Resolve(p) ==
  /\ Disrupt("resolve")
  /\ p \in quarantine
  /\ quarantine' = quarantine \ {p}
  /\ remembered' = IF halted = "none" THEN remembered ELSE quarantine'
  /\ ancestor' = EmptyTree
  /\ UNCHANGED <<roots, trash, halted, cycle>>

-----------------------------------------------------------------------------

Engine ==
  \/ Connect \/ setStatus \/ checkLocalIdentity \/ Handshake \/ ScanLocal \/ ScanRemote
  \/ Reconcile \/ StageQuery \/ stageOne \/ TransitionRemote
  \/ supplyOne \/ trashPath \/ TransitionLocal \/ Commit

Environment ==
  \/ \E s \in Side, p \in Path :
       ToggleReadable(s, p) \/ \E node \in Written : UserEdit(s, p, node)
  \/ Drop \/ Crash \/ WipeRemote \/ ForeignRemote \/ SwapLocalRoot \/ LoseLocal
  \/ Resume \/ AcceptDeletions \/ Reset \/ \E p \in Path : Resolve(p)

Next == Engine \/ Environment

\* The runner's loop never stops by itself while the session is not halted:
\* it cycles on a timer and reconnects after every error.
Spec == Init /\ [][Next]_vars /\ WF_vars(Engine)

-----------------------------------------------------------------------------
(***************************************************************************)
(* Properties.  An engine step is one that spends nothing: users' edits    *)
(* and disruptions are counted.                                            *)
(***************************************************************************)

EngineStep == spent' = spent

\* Types, the shape of both roots and of the base, and what is left of a plan
\* in each phase of Cycle.Run.
TypeOK ==
  /\ tree \in [Side -> Tree]
  /\ unreadable \in [Side -> SUBSET Path]
  /\ staged \in [Side -> SUBSET Digest]
  /\ marker \in {"none", "mine", "other"}
  /\ sameRoot \in BOOLEAN
  /\ ancestor \in Tree
  /\ trash \subseteq Node
  /\ quarantine \subseteq Path
  /\ remembered \subseteq Path
  /\ halted \in {"none", "root-replaced", "content-loss"}
  /\ phase \in Phase
  /\ scan \in [Side -> Tree]
  /\ base \in Tree
  /\ todo \in [Side -> SUBSET Change]
  /\ queue \subseteq Change
  /\ edits \in 0..MaxEdits
  /\ disruptions \in 0..MaxDisruptions

\* The paths a change overwrites or removes.
Reach(c) == IF c.kind = "REMOVE" THEN Under(c.path) ELSE {c.path}

\* Whatever is left to apply, on either side and in any phase, is aimed at
\* paths whose scan showed nothing or what the base recorded: the plan never
\* contains the replacement of a version only one side knows (Cycle.Run,
\* reconcile.Mode two-way-safe).
PlanKeepsNewWork ==
  \A s \in Side : \A c \in todo[s] : \A q \in Reach(c) :
    scan[s][q] \in {Absent, base[q]}

\* Nothing left to apply is at, above or below a conflict of the cycle: "both
\* versions survive" (reconcile.go Result.Conflicts).
PlanAvoidsConflicts ==
  \A s \in Side : \A c \in todo[s] :
    \A p \in Conflicts(base, scan["local"], scan["remote"]) :
      c.path \notin Under(p) /\ p \notin Under(c.path)

Applying == {"stageQuery", "applyRemote", "applyLocal"}

\* There is work only while a plan is being applied, so nothing is committed
\* before all of the plan was attempted, whatever was staged, supplied or trashed
\* on the way; a plan that is applied or committed passed the content-loss guard;
\* a halted session runs no cycle (Cycle.Run, Runner.Run).
WorkMatchesPhase ==
  /\ phase \notin Applying => todo = NoWork
  /\ phase = "applyLocal" =>
       /\ todo["remote"] = {}
       /\ queue \subseteq ToCreate(todo["local"]) \cup ToRemove(todo["local"])
  /\ phase \in Applying \cup {"commit"} => ~guardContentLoss(base, scan)
  /\ halted # "none" => phase = "offline"

\* A file or link that an engine step overwrites or removes is the version the
\* base holds, or appeared after the scan of the running cycle.  This spans
\* interrupted cycles: what one leaves half applied is no licence for the next
\* to overwrite what it does not know (cycle.go: "an interruption at any point
\* simply recomputes on the next pass").
OnlyBaseOverwritten ==
  [][EngineStep =>
       \A s \in Side, q \in Path :
         \/ tree[s][q] \in {Absent, Directory, base[q]}
         \/ tree'[s][q] = tree[s][q]
         \/ tree[s][q] # scan[s][q]]_vars

\* While a cycle applies its plan, a path in conflict and all inside it stay as
\* they are on both sides, whatever else the engine touches.
ConflictsUntouched ==
  [][EngineStep =>
       \A p \in Conflicts(base, scan["local"], scan["remote"]), s \in Side :
         \A q \in Under(p) : tree'[s][q] = tree[s][q]]_vars

\* The base only moves, at a path, to what both scans of the cycle showed
\* there, however many interrupted cycles lie in between (reconcile.go: never
\* "recording a state that is not true on disk").
BaseIsAgreed ==
  [][EngineStep =>
       \A p \in Path :
         ancestor'[p] = ancestor[p] \/ \A s \in Side : scan[s][p] = ancestor'[p]]_vars

\* The content of a file or link the engine removes from the local root is in
\* the trash (cycle.go applyLocal: deletions "go to the session's trash rather
\* than being unlinked").
LocalRemovalsTrashed ==
  [][EngineStep =>
       \A q \in Path :
         /\ tree["local"][q] \notin {Absent, Directory}
         /\ tree'["local"][q] \in {Absent, Directory}
         => tree["local"][q] \in trash']_vars

Loses(s) == \E q \in Path : tree[s][q] # Absent /\ tree'[s][q] = Absent

\* A root that comes back empty takes nothing from the other one once the base
\* reaches the floor (guardContentLoss; the inode and marker checks only cover
\* some of the ways to lose a root).
EmptyRootIsContained ==
  [][EngineStep =>
       \A s \in Side :
         Loses(s) => \/ scan[Other(s)] # EmptyTree
                     \/ countEntries(base) < ContentLossFloor]_vars

\* Once users and disruptions are done and every path can be read, the session
\* halts for good or the roots come to agree for good everywhere but under
\* recorded conflicts.
Settles ==
  <>[](\/ halted # "none"
       \/ \E s \in Side : unreadable[s] # {}
       \/ \A p \in Path \ UNION {Under(q) : q \in quarantine} :
            tree["local"][p] = tree["remote"][p])
=============================================================================
