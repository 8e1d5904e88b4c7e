----------------------------- MODULE ThreadsWait -----------------------------
(***************************************************************************)
(* threads create, send and read: fetch messages, wait for one to arrive,  *)
(* print, acknowledge.  A reader is one invocation of the command: its     *)
(* main goroutine and, while it waits, the goroutine that pumps the        *)
(* notification stream into a channel.  All readers have one identity, so  *)
(* what one acknowledges another no longer finds unread.  The server is    *)
(* external: it stores a message, then announces it to a room.             *)
(***************************************************************************)
EXTENDS Naturals, Sequences, FiniteSets

CONSTANTS
  Readers,    \* invocations; also names the message an invocation sends
  Messages,   \* messages of others, delivered to this identity
  AsInstance, \* they run in the workload of an agent instance
  Targets,    \* the messages in the threads the readers ask for
  Backlog,    \* what was there before, in the order of its arrival
  PageSize,   \* defaultPageSize
  EventsCap,  \* capacity of the events channel, 32 in the code
  Invocations,\* the commands the readers may be, together
  MaxFaults   \* bound on failed requests, streams, outputs, noise, kills

AllMessages == Messages \union Readers
Bad == "bad"        \* a message.created event whose payload lacks an id
Foreign == "other"  \* an event of another kind

\* Sending and creating wait for unread messages; a creation that neither
\* sends nor waits does not come here.
Commands ==
  {c \in [kind : {"create", "send", "read"}, unread : BOOLEAN, wait : BOOLEAN] :
     /\ c.kind # "read" => c.unread
     /\ c.kind = "create" => c.wait}

ASSUME ThreadsAssumption ==
  /\ Messages \intersect Readers = {}
  /\ {Bad, Foreign} \intersect AllMessages = {}
  /\ Backlog \in Seq(Messages)
  /\ Targets \subseteq AllMessages
  /\ PageSize \in Nat \ {0}
  /\ EventsCap \in Nat \ {0}
  /\ MaxFaults \in Nat
  /\ AsInstance \in BOOLEAN
  /\ Invocations \subseteq [Readers -> Commands]

VARIABLES
  stored,       \* server: messages in the order of their arrival
  unacked,      \* server: delivered, not acknowledged
  unannounced,  \* server: delivered, notification not yet published
  stream,       \* the subscription of a reader
  wire,         \* notifications on their way to a reader
  pump,         \* the goroutine of the subscription
  events,       \* the channel between the goroutines
  pc,           \* the main goroutine
  command, cursor, fetched,
  expired,      \* the timeout of the wait is over
  outcome,
  shown,        \* what a reader has printed
  faults

server == <<stored, unacked, unannounced>>
pipe == <<stream, wire, pump, events>>
main == <<pc, command, cursor, fetched, expired, outcome, shown>>
vars == <<server, pipe, main, faults>>

\* The phases under the context with the timeout, and those that fetch.
InWait == {"subscribe", "check", "drain", "recheck", "waiting"}
Fetching == {"look", "check", "recheck"}
Phases == InWait \union Fetching \union {"idle", "send", "output", "ack", "done"}
Outcomes == {"none", "sent", "printed", "timedOut", "stream", "failed", "killed"}

TypeOK ==
  /\ stored \in Seq(AllMessages)
  /\ unacked \subseteq Messages
  /\ unannounced \subseteq Messages
  /\ stream \in [Readers -> {"none", "open", "over"}]
  /\ wire \in [Readers -> Seq(Messages \union {Bad, Foreign})]
  /\ pump \in [Readers -> {"none", "receiving", "closed"}]
  /\ events \in [Readers -> Seq(Messages)]
  /\ \A r \in Readers : Len(events[r]) <= EventsCap
  /\ pc \in [Readers -> Phases]
  /\ command \in [Readers -> Commands]
  /\ cursor \in [Readers -> Nat]
  /\ fetched \in [Readers -> SUBSET AllMessages]
  /\ expired \in [Readers -> BOOLEAN]
  /\ outcome \in [Readers -> Outcomes]
  /\ shown \in [Readers -> SUBSET AllMessages]
  /\ faults \in 0 .. MaxFaults

Arrived == {stored[i] : i \in 1 .. Len(stored)}

Init ==
  /\ stored = Backlog
  /\ unacked = Arrived
  /\ unannounced = {}
  /\ stream = [r \in Readers |-> "none"]
  /\ wire = [r \in Readers |-> <<>>]
  /\ pump = [r \in Readers |-> "none"]
  /\ events = [r \in Readers |-> <<>>]
  /\ pc = [r \in Readers |-> "idle"]
  /\ command \in Invocations
  /\ cursor = [r \in Readers |-> 0]
  /\ fetched = [r \in Readers |-> {}]
  /\ expired = [r \in Readers |-> FALSE]
  /\ outcome = [r \in Readers |-> "none"]
  /\ shown = [r \in Readers |-> {}]
  /\ faults = 0

Fault ==
  /\ faults < MaxFaults
  /\ faults' = faults + 1

\* The process exits: what it held in memory, its goroutine and its
\* connection are gone.
Ends(r, how) ==
  /\ pc' = [pc EXCEPT ![r] = "done"]
  /\ outcome' = [outcome EXCEPT ![r] = how]
  /\ stream' = [stream EXCEPT ![r] = "none"]
  /\ wire' = [wire EXCEPT ![r] = <<>>]
  /\ pump' = [pump EXCEPT ![r] = "none"]
  /\ events' = [events EXCEPT ![r] = <<>>]
  /\ cursor' = [cursor EXCEPT ![r] = 0]
  /\ fetched' = [fetched EXCEPT ![r] = {}]
  /\ expired' = [expired EXCEPT ![r] = FALSE]

Goes(r, phase) ==
  /\ pc' = [pc EXCEPT ![r] = phase]
  /\ UNCHANGED outcome

(***************************************************************************)
(* The server.  A delivery is to one surface: message recipients for users *)
(* and apps, inbox items for agent instances, each with its own room.  An  *)
(* item carries one message, and both are acknowledged together.           *)
(***************************************************************************)
EventRoom == IF AsInstance THEN "instance_inbox:me" ELSE "thread_participant:me"

callerRoom == IF AsInstance THEN "instance_inbox:me" ELSE "thread_participant:me"

Deliver(m) ==
  /\ m \notin Arrived
  /\ stored' = Append(stored, m)
  /\ unacked' = unacked \union {m}
  /\ unannounced' = unannounced \union {m}
  /\ UNCHANGED <<pipe, main, faults>>

Listens(r) == stream[r] = "open" /\ pump[r] = "receiving" /\ callerRoom = EventRoom

Announce(m) ==
  /\ m \in unannounced
  /\ unannounced' = unannounced \ {m}
  /\ wire' = [r \in Readers |-> IF Listens(r) THEN Append(wire[r], m) ELSE wire[r]]
  /\ UNCHANGED <<stored, unacked, stream, pump, events, main, faults>>

\* The server or a proxy ends the stream, cleanly or not.
StreamEnds(r) ==
  /\ Fault
  /\ stream[r] = "open"
  /\ stream' = [stream EXCEPT ![r] = "over"]
  /\ UNCHANGED <<server, wire, pump, events, main>>

\* Other events share the room, and a payload may be malformed.
Noise(r) ==
  /\ Fault
  /\ Listens(r)
  /\ \E event \in {Bad, Foreign} : wire' = [wire EXCEPT ![r] = Append(@, event)]
  /\ UNCHANGED <<server, stream, pump, events, main>>

(***************************************************************************)
(* The goroutine of subscribeMessageNotifications.  The error it may put   *)
(* in errs and the two closes are one step: whichever of them the wait     *)
(* sees first, it ends with a stream error.                                *)
(***************************************************************************)
\* The wait has returned or run out of time: its context is done.
Cancelled(r) == expired[r] \/ pc[r] \in {"output", "ack"}

\* Fault: the channel is pushed to without regard to its capacity.
ForwardUnbounded(r) ==
  /\ pump[r] = "receiving"
  /\ wire[r] # <<>>
  /\ Head(wire[r]) \in Targets
  /\ events' = [events EXCEPT ![r] = Append(@, Head(wire[r]))]
  /\ wire' = [wire EXCEPT ![r] = Tail(@)]
  /\ UNCHANGED <<server, stream, pump, main, faults>>

Forward(r) ==
  /\ pump[r] = "receiving"
  /\ wire[r] # <<>>
  /\ Head(wire[r]) \in Targets
  /\ Len(events[r]) < EventsCap
  /\ events' = [events EXCEPT ![r] = Append(@, Head(wire[r]))]
  /\ wire' = [wire EXCEPT ![r] = Tail(@)]
  /\ UNCHANGED <<server, stream, pump, main, faults>>

Skip(r) ==
  /\ pump[r] = "receiving"
  /\ wire[r] # <<>>
  /\ Head(wire[r]) \notin Targets \union {Bad}
  /\ wire' = [wire EXCEPT ![r] = Tail(@)]
  /\ UNCHANGED <<server, stream, pump, events, main, faults>>

PumpReturns(r) ==
  /\ pump[r] = "receiving"
  /\ \/ Cancelled(r)
     \/ wire[r] # <<>> /\ Head(wire[r]) = Bad
     \/ wire[r] = <<>> /\ stream[r] = "over"
  /\ pump' = [pump EXCEPT ![r] = "closed"]
  /\ wire' = [wire EXCEPT ![r] = <<>>]
  /\ UNCHANGED <<server, stream, events, main, faults>>

(***************************************************************************)
(* The command.  Requests before and after the wait run under the          *)
(* command's own context, which has no timeout.                            *)
(***************************************************************************)
FirstPhase(c) ==
  CASE c.kind = "send" -> "send"
    [] c.kind = "create" -> "subscribe"
    [] c.kind = "read" -> "look"

Start(r) ==
  /\ pc[r] = "idle"
  /\ Goes(r, FirstPhase(command[r]))
  /\ UNCHANGED <<server, pipe, command, cursor, fetched, expired, shown, faults>>

\* Own messages are not delivered to their sender.
Send(r) ==
  /\ pc[r] = "send"
  /\ stored' = Append(stored, r)
  /\ IF command[r].wait
       THEN Goes(r, "subscribe") /\ UNCHANGED <<pipe, cursor, fetched, expired>>
       ELSE Ends(r, "sent")
  /\ UNCHANGED <<unacked, unannounced, command, shown, faults>>

\* The request is refused, or its answer is lost.
SendFails(r) ==
  /\ Fault
  /\ pc[r] = "send"
  /\ stored' \in {stored, Append(stored, r)}
  /\ Ends(r, "failed")
  /\ UNCHANGED <<unacked, unannounced, command, shown>>

\* The server has the subscription when the answer's headers are back.
Subscribe(r) ==
  /\ pc[r] = "subscribe"
  /\ stream' = [stream EXCEPT ![r] = "open"]
  /\ pump' = [pump EXCEPT ![r] = "receiving"]
  /\ Goes(r, "check")
  /\ UNCHANGED <<server, wire, events, command, cursor, fetched, expired, shown, faults>>

SubscribeFails(r) ==
  /\ pc[r] = "subscribe"
  /\ IF expired[r] THEN UNCHANGED faults ELSE Fault
  /\ Ends(r, "stream")
  /\ UNCHANGED <<server, command, shown>>

\* What the server offers: what is unread, of all threads, or the history.
Offered(r) == IF command[r].unread THEN unacked ELSE Arrived \intersect Targets

Rest(r) == {i \in cursor[r] + 1 .. Len(stored) : stored[i] \in Offered(r)}

Page(r) == {i \in Rest(r) : Cardinality({j \in Rest(r) : j <= i}) <= PageSize}

\* Messages of other threads are dropped here: a page may add none.
Found(r) == fetched[r] \union ({stored[i] : i \in Page(r)} \intersect Targets)

FetchOn(r) ==
  /\ pc[r] \in Fetching
  /\ Page(r) # Rest(r)
  /\ fetched' = [fetched EXCEPT ![r] = Found(r)]
  /\ \E last \in Page(r) :
       /\ \A i \in Page(r) : i <= last
       /\ cursor' = [cursor EXCEPT ![r] = last]
  /\ UNCHANGED <<server, pipe, pc, command, expired, outcome, shown, faults>>

\* Fault: a notification is trusted, whatever the fetch after it finds.
AfterFetchTrusting(r) ==
  CASE Found(r) # {} \/ pc[r] = "recheck" -> "output"
    [] Found(r) = {} /\ pc[r] = "look" -> IF command[r].wait THEN "subscribe" ELSE "output"
    [] Found(r) = {} /\ pc[r] = "check" -> "drain"

AfterFetch(r) ==
  CASE Found(r) # {} -> "output"
    [] Found(r) = {} /\ pc[r] = "look" -> IF command[r].wait THEN "subscribe" ELSE "output"
    [] Found(r) = {} /\ pc[r] = "check" -> "drain"
    [] Found(r) = {} /\ pc[r] = "recheck" -> "waiting"

FetchDone(r) ==
  /\ pc[r] \in Fetching
  /\ Page(r) = Rest(r)
  /\ fetched' = [fetched EXCEPT ![r] = Found(r)]
  /\ cursor' = [cursor EXCEPT ![r] = 0]
  /\ Goes(r, AfterFetch(r))
  /\ UNCHANGED <<server, pipe, command, expired, shown, faults>>

FetchFails(r) ==
  /\ pc[r] \in Fetching
  /\ \/ Fault /\ Ends(r, "failed")
     \/ pc[r] \in InWait /\ expired[r] /\ Ends(r, "timedOut") /\ UNCHANGED faults
  /\ UNCHANGED <<server, command, shown>>

\* Fault: what was announced during the fetch is dropped without a second one.
DrainForgetting(r) ==
  /\ pc[r] = "drain"
  /\ events' = [events EXCEPT ![r] = <<>>]
  /\ Goes(r, "waiting")
  /\ UNCHANGED <<server, stream, wire, pump, command, cursor, fetched, expired, shown, faults>>

\* drainNotifications: anything in it means that something may have arrived
\* after the fetch.
Drain(r) ==
  /\ pc[r] = "drain"
  /\ events' = [events EXCEPT ![r] = <<>>]
  /\ Goes(r, IF events[r] = <<>> THEN "waiting" ELSE "recheck")
  /\ UNCHANGED <<server, stream, wire, pump, command, cursor, fetched, expired, shown, faults>>

\* The select of waitForNotificationMessages takes any case that is ready.
SeeDeadline(r) ==
  /\ pc[r] = "waiting"
  /\ expired[r]
  /\ Ends(r, "timedOut")
  /\ UNCHANGED <<server, command, shown, faults>>

\* Fault: a closed channel reads like one without an error.
SeeClosedAsNoError(r) ==
  /\ pc[r] = "waiting"
  /\ pump[r] = "closed"
  /\ Goes(r, "waiting")
  /\ UNCHANGED <<server, pipe, command, cursor, fetched, expired, shown, faults>>

SeeClosed(r) ==
  /\ pc[r] = "waiting"
  /\ pump[r] = "closed"
  /\ Ends(r, "stream")
  /\ UNCHANGED <<server, command, shown, faults>>

SeeEvent(r) ==
  /\ pc[r] = "waiting"
  /\ events[r] # <<>>
  /\ events' = [events EXCEPT ![r] = Tail(@)]
  /\ Goes(r, "recheck")
  /\ UNCHANGED <<server, stream, wire, pump, command, cursor, fetched, expired, shown, faults>>

Output(r) ==
  /\ pc[r] = "output"
  /\ shown' = [shown EXCEPT ![r] = @ \union fetched[r]]
  /\ IF command[r].unread /\ fetched[r] # {}
       THEN Goes(r, "ack") /\ UNCHANGED <<pipe, cursor, fetched, expired>>
       ELSE Ends(r, "printed")
  /\ UNCHANGED <<server, command, faults>>

\* A message without a required field, or a write that fails half way.
OutputFails(r) ==
  /\ Fault
  /\ pc[r] = "output"
  /\ \E S \in SUBSET fetched[r] : shown' = [shown EXCEPT ![r] = @ \union S]
  /\ Ends(r, "failed")
  /\ UNCHANGED <<server, command>>

\* Fault: the threads are acknowledged, not the messages that were printed.
AckThreads(r) ==
  /\ pc[r] = "ack"
  /\ unacked' = unacked \ Targets
  /\ Ends(r, "printed")
  /\ UNCHANGED <<stored, unannounced, command, shown, faults>>

Ack(r) ==
  /\ pc[r] = "ack"
  /\ unacked' = unacked \ fetched[r]
  /\ Ends(r, "printed")
  /\ UNCHANGED <<stored, unannounced, command, shown, faults>>

\* The request is refused, or its answer is lost.
AckFails(r) ==
  /\ Fault
  /\ pc[r] = "ack"
  /\ unacked' \in {unacked, unacked \ fetched[r]}
  /\ Ends(r, "failed")
  /\ UNCHANGED <<stored, unannounced, command, shown>>

Expire(r) ==
  /\ pc[r] \in InWait
  /\ ~expired[r]
  /\ expired' = [expired EXCEPT ![r] = TRUE]
  /\ UNCHANGED <<server, pipe, pc, command, cursor, fetched, outcome, shown, faults>>

Kill(r) ==
  /\ Fault
  /\ pc[r] \notin {"idle", "done"}
  /\ Ends(r, "killed")
  /\ UNCHANGED <<server, command, shown>>

-----------------------------------------------------------------------------
Main(r) ==
  \/ Send(r) \/ Subscribe(r) \/ FetchOn(r) \/ FetchDone(r) \/ Drain(r)
  \/ SeeDeadline(r) \/ SeeClosed(r) \/ SeeEvent(r) \/ Output(r) \/ Ack(r)

Pump(r) == Forward(r) \/ Skip(r) \/ PumpReturns(r)

Failure(r) ==
  \/ StreamEnds(r) \/ Noise(r) \/ SendFails(r) \/ SubscribeFails(r)
  \/ FetchFails(r) \/ OutputFails(r) \/ AckFails(r) \/ Kill(r)

Next ==
  \/ \E m \in Messages : Deliver(m) \/ Announce(m)
  \/ \E r \in Readers : Start(r) \/ Main(r) \/ Pump(r) \/ Expire(r) \/ Failure(r)

\* The goroutines run, requests are answered, notifications are published.
\* Nobody has to send anything, no timeout has to be short.
Fairness ==
  /\ \A m \in Messages : WF_vars(Announce(m))
  /\ \A r \in Readers : WF_vars(Main(r)) /\ WF_vars(Pump(r))

Spec == Init /\ [][Next]_vars /\ Fairness

-----------------------------------------------------------------------------
\* A message is acknowledged only by an invocation that has printed it; it is
\* unread until then (outputAndAck prints first; a failed or lost
\* acknowledgement shows it again).
M == INSTANCE Mailbox WITH
       delivered <- Arrived \intersect Messages,
       unread <- unacked,
       shown <- [r \in Readers |-> shown[r] \intersect Messages]

ReadsThenAcks == M!Spec

\* A wait that succeeds has something to show, also when what it was woken
\* for was acknowledged by another invocation in the meantime.
WaitShowsSomething ==
  \A r \in Readers :
    outcome[r] = "printed" /\ command[r].wait => shown[r] # {}

\* No wait goes on for ever with an unread message in its threads: a message
\* cannot fall between the subscription and the fetch.
MessageEndsWait ==
  \A r \in Readers : []<>(pc[r] \notin InWait \/ unacked \intersect Targets = {})

\* A wait does not outlive its stream or its timeout.
LossEndsWait ==
  \A r \in Readers : []<>(pc[r] \notin InWait \/ (~expired[r] /\ stream[r] # "over"))

=============================================================================
