--------------------------- MODULE MCThreadsWait ---------------------------
(* Two invocations and three messages, one of them in another thread.  The *)
(* first invocation sends or waits, the second reads what is unread.       *)
EXTENDS ThreadsWait

CONSTANTS r1, r2, m1, m2, other

MCReaders == {r1, r2}
MCMessages == {m1, m2, other}
MCTargets == {m1, m2, r1, r2}
MCBacklog == <<other>>
MCInvocations ==
  {c \in [MCReaders -> Commands] :
     /\ c[r1].wait \/ c[r1].kind = "send"
     /\ c[r2] = [kind |-> "read", unread |-> TRUE, wait |-> FALSE]}
=============================================================================
