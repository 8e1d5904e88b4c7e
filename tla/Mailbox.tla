------------------------------ MODULE Mailbox ------------------------------
(***************************************************************************)
(* What reading a participant's messages promises: a message stays unread  *)
(* until somebody who has shown it acknowledges it.  Nothing is said here  *)
(* of requests, notifications or channels.                                 *)
(***************************************************************************)
CONSTANTS Messages, Readers

VARIABLES delivered, unread, shown

vars == <<delivered, unread, shown>>

Init ==
  /\ delivered \in SUBSET Messages
  /\ unread = delivered
  /\ shown = [r \in Readers |-> {}]

Deliver(m) ==
  /\ m \notin delivered
  /\ delivered' = delivered \union {m}
  /\ unread' = unread \union {m}
  /\ UNCHANGED shown

Show(r) ==
  /\ \E S \in SUBSET Messages : shown' = [shown EXCEPT ![r] = @ \union S]
  /\ UNCHANGED <<delivered, unread>>

\* A reader acknowledges all it has shown of one answer, and nothing else.
Acknowledge(r) ==
  /\ \E S \in SUBSET shown[r] : unread' = unread \ S
  /\ UNCHANGED <<delivered, shown>>

Next ==
  \/ \E m \in Messages : Deliver(m)
  \/ \E r \in Readers : Show(r) \/ Acknowledge(r)

Spec == Init /\ [][Next]_vars
=============================================================================
