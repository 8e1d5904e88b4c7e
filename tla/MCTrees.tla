------------------------------ MODULE MCTrees ------------------------------
(* The path sets and nodes of the small instances. *)
EXTENDS SyncTree, SequencesExt

\* A directory with one entry.
Nested == {<<"d">>, <<"d", "x">>}

\* A directory with one entry, next to a file.
Wide == {<<"d">>, <<"d", "x">>, <<"f">>}

\* A directory with a file and a subdirectory in it.
Deep == {<<"d">>, <<"d", "s">>, <<"d", "s", "x">>, <<"d", "y">>}

PathsAbove == [p \in Path |-> {q \in Path : IsStrictPrefix(q, p)}]

PlainFile(digest) == [kind |-> "file", digest |-> digest, executable |-> FALSE]
Executable(digest) == [kind |-> "file", digest |-> digest, executable |-> TRUE]
Link(target) == [kind |-> "symlink", target |-> target]

Contents == {Absent, Directory} \cup {PlainFile(d) : d \in Digest}

WithLinks == Contents \cup {Link(t) : t \in Target}

\* Every kind of entry, a file that only lost its executable bit included.
Kinds == WithLinks \cup {Executable("a")}
=============================================================================
