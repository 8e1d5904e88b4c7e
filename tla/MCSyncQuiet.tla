---------------------------- MODULE MCSyncQuiet ----------------------------
(* A small instance of SyncQuiet for TLC. *)
EXTENDS SyncAgreement, MCTrees

Top == <<>>

\* Every kind of entry at the top, and inside it two contents, executable bits
\* and changes of kind.
DeepShown ==
  [p \in Path |->
     CASE p = <<"d">> -> Kinds
       [] p = <<"d", "s">> -> Kinds \ {PlainFile("b")}
       [] p = <<"d", "s", "x">> -> Kinds \ {Directory, Link("t")}
       [] OTHER -> Kinds \ {Link("t")}]
=============================================================================
