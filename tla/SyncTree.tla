------------------------------ MODULE SyncTree ------------------------------
(***************************************************************************)
(* The filesystem side of workspace sync (internal/sync/tree/tree.go): a   *)
(* root as a function from relative paths to what a scan reports there,    *)
(* and the effect of one change of a transition on a root and its staging  *)
(* directory.  Both ends of a session use it: the endpoint inside the      *)
(* sandbox and the controller on the engineer's machine.                   *)
(***************************************************************************)
EXTENDS Naturals, FiniteSets

CONSTANTS
  Path,    \* relative paths, the root excluded
  Above,   \* Above[p]: the directories on the way from the root to p
  Digest,  \* content digests
  Target   \* what a symbolic link may point at

\* Above is the strict prefix order of a path tree.
ASSUME PathAssumption ==
  /\ IsFiniteSet(Path)
  /\ Above \in [Path -> SUBSET Path]
  /\ \A p \in Path :
       /\ p \notin Above[p]
       /\ \A q \in Above[p] : Above[q] \subseteq Above[p]
       /\ \A q, r \in Above[p] : q = r \/ q \in Above[r] \/ r \in Above[q]

Absent    == [kind |-> "absent"]
Directory == [kind |-> "directory"]
File      == [kind : {"file"}, digest : Digest, executable : BOOLEAN]
Symlink   == [kind : {"symlink"}, target : Target]
Node      == {Absent, Directory} \cup File \cup Symlink

\* p and everything inside it.
Under(p) == {q \in Path : q = p \/ p \in Above[q]}

Tree ==
  {t \in [Path -> Node] :
     \A p \in Path : t[p] # Absent => \A q \in Above[p] : t[q] = Directory}

EmptyTree == [p \in Path |-> Absent]

Content(t) == {p \in Path : t[p] # Absent}

-----------------------------------------------------------------------------
(***************************************************************************)
(* Changes and their effect.                                               *)
(***************************************************************************)

\* node is what the change leaves at path (Absent for a removal).
Change ==
  [kind : {"REMOVE"}, path : Path, node : {Absent}]
  \cup [kind : {"CREATE_DIRECTORY"}, path : Path, node : {Directory}]
  \cup [kind : {"CREATE_FILE", "SET_EXECUTABLE"}, path : Path, node : File]
  \cup [kind : {"CREATE_SYMLINK"}, path : Path, node : Symlink]

ChangeOf(kind, p, node) == [kind |-> kind, path |-> p, node |-> node]

\* os.MkdirAll succeeds unless a component is there and is not a directory.
CanMkdirAll(t, dirs) == \A q \in dirs : t[q] \in {Absent, Directory}

MkdirAll(t, dirs) == [q \in Path |-> IF q \in dirs THEN Directory ELSE t[q]]

\* Fault: the entry goes and what is inside it stays.
RemoveOne(t, p) == [t EXCEPT ![p] = Absent]

RemoveAll(t, p) == [q \in Path |-> IF q \in Under(p) THEN Absent ELSE t[q]]

\* A rename onto a directory fails; onto anything else it replaces atomically.
CanCreateFile(t, staged, c) ==
  /\ c.node.digest \in staged
  /\ CanMkdirAll(t, Above[c.path])
  /\ t[c.path] # Directory

\* os.Remove takes an empty directory but not a full one.
CanCreateSymlink(t, c) ==
  /\ CanMkdirAll(t, Above[c.path])
  /\ \A q \in Under(c.path) \ {c.path} : t[q] = Absent

Land(t, c) == [MkdirAll(t, Above[c.path]) EXCEPT ![c.path] = c.node]

\* chmod changes a file and nothing else a scan reports.
SetExecutable(t, c) ==
  IF t[c.path].kind = "file"
  THEN [t EXCEPT ![c.path] = [t[c.path] EXCEPT !.executable = c.node.executable]]
  ELSE t

\* The root after a change; a change that fails leaves it as it was.
applyChange(t, staged, c) ==
  CASE c.kind = "REMOVE" -> RemoveAll(t, c.path)
    [] c.kind = "CREATE_DIRECTORY" /\ CanMkdirAll(t, Above[c.path] \cup {c.path}) ->
         MkdirAll(t, Above[c.path] \cup {c.path})
    [] c.kind = "CREATE_FILE" /\ CanCreateFile(t, staged, c) -> Land(t, c)
    [] c.kind = "CREATE_SYMLINK" /\ CanCreateSymlink(t, c) -> Land(t, c)
    [] c.kind = "SET_EXECUTABLE" -> SetExecutable(t, c)
    [] OTHER -> t

\* The rename consumes the staged content: a second file with the same digest
\* in the same transition finds nothing staged.
stagedAfter(t, staged, c) ==
  IF c.kind = "CREATE_FILE" /\ CanCreateFile(t, staged, c)
  THEN staged \ {c.node.digest}
  ELSE staged

\* A scan omits a file it cannot read and lists an unreadable directory
\* without its contents; both become problems, not errors.
Scan(t, unreadable) ==
  [p \in Path |->
     IF \/ Above[p] \cap unreadable # {}
        \/ p \in unreadable /\ t[p].kind = "file"
     THEN Absent ELSE t[p]]
=============================================================================
