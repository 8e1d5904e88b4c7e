-------------------------- MODULE ThreadsWaitProofs --------------------------
(***************************************************************************)
(* For every number of invocations and messages, page size and capacity:   *)
(* types, that messages are acknowledged only by who has printed them, and *)
(* that a wait that succeeds shows something.                              *)
(***************************************************************************)
EXTENDS ThreadsWait, SequenceTheorems, TLAPS

\* Sequences: what the server's store and the two queues need.
LEMMA AppendArrives ==
  ASSUME NEW S, NEW s \in Seq(S), NEW e
  PROVE  {Append(s, e)[i] : i \in 1 .. Len(Append(s, e))} =
           {s[i] : i \in 1 .. Len(s)} \union {e}
<1>1. /\ Len(Append(s, e)) = Len(s) + 1
      /\ \A i \in 1 .. Len(s) : Append(s, e)[i] = s[i]
      /\ Append(s, e)[Len(s) + 1] = e
      /\ Len(s) \in Nat
  OBVIOUS
<1>2. 1 .. Len(Append(s, e)) = 1 .. Len(s) \union {Len(s) + 1}
  BY <1>1
<1>. QED
  BY <1>1, <1>2


-----------------------------------------------------------------------------
\* Types.
LEMMA InitTyped == Init => TypeOK
<1>. SUFFICES ASSUME Init PROVE TypeOK
  OBVIOUS
<1>. USE ThreadsAssumption DEF Init
<1>1. stored \in Seq(Messages)
  OBVIOUS
<1>2. stored \in Seq(AllMessages)
  BY <1>1, SeqMonotonic DEF AllMessages
<1>3. unacked \subseteq Messages
  BY <1>1 DEF Arrived
<1>4. \A r \in Readers : Len(events[r]) <= EventsCap
  OBVIOUS
<1>. QED
  BY <1>2, <1>3, <1>4 DEF TypeOK, Phases, Outcomes, AllMessages

\* An exit leaves everything that is the process's own in its type.
LEMMA EndsTyped ==
  ASSUME TypeOK, NEW r \in Readers, NEW how \in Outcomes, Ends(r, how)
  PROVE  /\ stream' \in [Readers -> {"none", "open", "over"}]
         /\ wire' \in [Readers -> Seq(Messages \union {Bad, Foreign})]
         /\ pump' \in [Readers -> {"none", "receiving", "closed"}]
         /\ events' \in [Readers -> Seq(Messages)]
         /\ \A q \in Readers : Len(events'[q]) <= EventsCap
         /\ pc' \in [Readers -> Phases]
         /\ cursor' \in [Readers -> Nat]
         /\ fetched' \in [Readers -> SUBSET AllMessages]
         /\ expired' \in [Readers -> BOOLEAN]
         /\ outcome' \in [Readers -> Outcomes]
<1>. USE DEF TypeOK, Ends
<1>1. <<>> \in Seq(Messages \union {Bad, Foreign}) /\ <<>> \in Seq(Messages) /\ Len(<<>>) <= EventsCap
  BY ThreadsAssumption
<1>2. \A q \in Readers : Len(events'[q]) <= EventsCap
  BY <1>1
<1>. QED
  BY <1>1, <1>2 DEF Phases

LEMMA GoesTyped ==
  ASSUME TypeOK, NEW r \in Readers, NEW phase \in Phases, Goes(r, phase)
  PROVE  pc' \in [Readers -> Phases] /\ outcome' \in [Readers -> Outcomes]
BY DEF TypeOK, Goes

LEMMA FaultTyped ==
  ASSUME TypeOK, Fault
  PROVE  faults' \in 0 .. MaxFaults
BY ThreadsAssumption DEF TypeOK, Fault

LEMMA ServerTyped ==
  ASSUME TypeOK, NEW m \in Messages, Deliver(m) \/ Announce(m)
  PROVE  TypeOK'
<1>. USE DEF TypeOK, pipe, main
<1>1. CASE Deliver(m)
  <2>1. stored' \in Seq(AllMessages)
    BY <1>1, AppendProperties DEF Deliver, AllMessages
  <2>. QED
    BY <1>1, <2>1 DEF Deliver
<1>2. CASE Announce(m)
  <2>1. \A r \in Readers : Append(wire[r], m) \in Seq(Messages \union {Bad, Foreign})
    BY AppendProperties
  <2>2. wire' \in [Readers -> Seq(Messages \union {Bad, Foreign})]
    BY <1>2, <2>1 DEF Announce
  <2>. QED
    BY <1>2, <2>2 DEF Announce
<1>. QED
  BY <1>1, <1>2

LEMMA PumpTyped ==
  ASSUME TypeOK, NEW r \in Readers, Pump(r)
  PROVE  TypeOK'
<1>. USE DEF TypeOK, server, main
<1>. DEFINE Events == Messages \union {Bad, Foreign}
<1>1. wire[r] \in Seq(Events) /\ events[r] \in Seq(Messages) /\ Len(events[r]) \in Nat
  OBVIOUS
<1>2. ASSUME wire[r] # <<>>
      PROVE  Head(wire[r]) \in Events /\ Tail(wire[r]) \in Seq(Events)
  BY <1>1, <1>2, HeadTailProperties
<1>3. CASE Forward(r)
  <2>1. Head(wire[r]) \in Messages
    BY <1>2, <1>3, ThreadsAssumption DEF Forward
  <2>2. /\ Append(events[r], Head(wire[r])) \in Seq(Messages)
        /\ Len(Append(events[r], Head(wire[r]))) <= EventsCap
    BY <1>1, <1>3, <2>1, AppendProperties, ThreadsAssumption DEF Forward
  <2>3. /\ events' \in [Readers -> Seq(Messages)]
        /\ \A q \in Readers : Len(events'[q]) <= EventsCap
        /\ wire' \in [Readers -> Seq(Events)]
    BY <1>2, <1>3, <2>2 DEF Forward
  <2>. QED
    BY <1>3, <2>3 DEF Forward
<1>4. CASE Skip(r)
  BY <1>2, <1>4 DEF Skip
<1>5. CASE PumpReturns(r)
  BY <1>5 DEF PumpReturns
<1>. QED
  BY <1>3, <1>4, <1>5 DEF Pump

LEMMA MainTyped ==
  ASSUME TypeOK, NEW r \in Readers, Start(r) \/ Main(r) \/ Expire(r)
  PROVE  TypeOK'
<1>. USE DEF TypeOK, server, pipe
<1>1. CASE Start(r)
  <2>1. FirstPhase(command[r]) \in Phases
    BY DEF FirstPhase, Phases, InWait, Fetching, Commands
  <2>. QED
    BY <1>1, <2>1, GoesTyped DEF Start
<1>2. CASE Send(r)
  <2>1. stored' \in Seq(AllMessages)
    BY <1>2, AppendProperties DEF Send, AllMessages
  <2>2. "subscribe" \in Phases /\ "sent" \in Outcomes
    BY DEF Phases, InWait, Outcomes
  <2>3. CASE command[r].wait
    BY <1>2, <2>1, <2>2, <2>3, GoesTyped DEF Send
  <2>4. CASE ~command[r].wait
    BY <1>2, <2>1, <2>2, <2>4, EndsTyped DEF Send
  <2>. QED
    BY <2>3, <2>4
<1>3. CASE Subscribe(r)
  BY <1>3, GoesTyped DEF Subscribe, Phases, InWait
<1>4. Found(r) \in SUBSET AllMessages
  <2>1. Page(r) \subseteq 1 .. Len(stored)
    BY DEF Page, Rest
  <2>. QED
    BY <2>1, ElementOfSeq DEF Found
<1>5. CASE FetchOn(r)
  <2>1. \A i \in Page(r) : i \in Nat
    BY DEF Page, Rest
  <2>. QED
    BY <1>4, <1>5, <2>1 DEF FetchOn
<1>6. CASE FetchDone(r)
  <2>1. AfterFetch(r) \in Phases
    BY <1>6 DEF FetchDone, AfterFetch, Phases, InWait, Fetching
  <2>. QED
    BY <1>4, <1>6, <2>1, GoesTyped DEF FetchDone
<1>7. <<>> \in Seq(Messages) /\ Len(<<>>) <= EventsCap
  BY ThreadsAssumption
<1>8. CASE Drain(r)
  <2>1. \A q \in Readers : Len(events'[q]) <= EventsCap
    BY <1>7, <1>8 DEF Drain
  <2>2. "waiting" \in Phases /\ "recheck" \in Phases
    BY DEF Phases, InWait
  <2>. QED
    BY <1>7, <1>8, <2>1, <2>2, GoesTyped DEF Drain
<1>9. CASE SeeDeadline(r)
  BY <1>9, EndsTyped DEF SeeDeadline, Outcomes
<1>10. CASE SeeClosed(r)
  BY <1>10, EndsTyped DEF SeeClosed, Outcomes
<1>11. CASE SeeEvent(r)
  <2>1. Tail(events[r]) \in Seq(Messages) /\ Len(Tail(events[r])) <= EventsCap
    <3>1. events[r] \in Seq(Messages) /\ events[r] # <<>> /\ Len(events[r]) <= EventsCap
      BY <1>11 DEF SeeEvent
    <3>2. Len(events[r]) \in Nat /\ EventsCap \in Nat
      BY <3>1, ThreadsAssumption
    <3>. QED
      BY <3>1, <3>2, HeadTailProperties
  <2>2. \A q \in Readers : Len(events'[q]) <= EventsCap
    BY <1>11, <2>1 DEF SeeEvent
  <2>3. "recheck" \in Phases
    BY DEF Phases, InWait
  <2>. QED
    BY <1>11, <2>1, <2>2, <2>3, GoesTyped DEF SeeEvent
<1>12. CASE Output(r)
  <2>1. "ack" \in Phases /\ "printed" \in Outcomes
    BY DEF Phases, Outcomes
  <2>2. shown' \in [Readers -> SUBSET AllMessages]
    BY <1>12 DEF Output
  <2>3. CASE command[r].unread /\ fetched[r] # {}
    BY <1>12, <2>1, <2>2, <2>3, GoesTyped DEF Output
  <2>4. CASE ~(command[r].unread /\ fetched[r] # {})
    BY <1>12, <2>1, <2>2, <2>4, EndsTyped DEF Output
  <2>. QED
    BY <2>3, <2>4
<1>13. CASE Ack(r)
  BY <1>13, EndsTyped DEF Ack, Outcomes
<1>14. CASE Expire(r)
  BY <1>14 DEF Expire
<1>. QED
  BY <1>1, <1>2, <1>3, <1>5, <1>6, <1>8, <1>9, <1>10, <1>11, <1>12, <1>13, <1>14 DEF Main

LEMMA FailureTyped ==
  ASSUME TypeOK, NEW r \in Readers, Failure(r)
  PROVE  TypeOK'
<1>. USE DEF TypeOK, server
<1>1. CASE StreamEnds(r)
  BY <1>1, FaultTyped DEF StreamEnds, main
<1>2. CASE Noise(r)
  <2>1. \A event \in {Bad, Foreign} :
          Append(wire[r], event) \in Seq(Messages \union {Bad, Foreign})
    BY AppendProperties
  <2>. QED
    BY <1>2, <2>1, FaultTyped DEF Noise, main
<1>. HIDE DEF TypeOK
<1>3. {"failed", "stream", "timedOut", "killed"} \subseteq Outcomes
  BY DEF Outcomes
<1>4. CASE SendFails(r)
  <2>1. stored' \in Seq(AllMessages)
    <3>1. r \in AllMessages /\ stored \in Seq(AllMessages)
      BY DEF AllMessages, TypeOK
    <3>2. Append(stored, r) \in Seq(AllMessages)
      BY <3>1, AppendProperties
    <3>. QED
      BY <1>4, <3>1, <3>2 DEF SendFails
  <2>. QED
    BY <1>3, <1>4, <2>1, EndsTyped, FaultTyped DEF SendFails, TypeOK
<1>5. CASE SubscribeFails(r)
  <2>1. faults' \in 0 .. MaxFaults
    BY <1>5, FaultTyped DEF SubscribeFails, TypeOK
  <2>. QED
    BY <1>3, <1>5, <2>1, EndsTyped DEF SubscribeFails, TypeOK
<1>6. CASE FetchFails(r)
  <2>1. faults' \in 0 .. MaxFaults
    BY <1>6, FaultTyped DEF FetchFails, TypeOK
  <2>2. \E how \in Outcomes : Ends(r, how)
    BY <1>3, <1>6 DEF FetchFails
  <2>. QED
    BY <1>6, <2>1, <2>2, EndsTyped DEF FetchFails, TypeOK
<1>7. CASE OutputFails(r)
  <2>1. shown' \in [Readers -> SUBSET AllMessages]
    BY <1>7 DEF OutputFails, TypeOK
  <2>. QED
    BY <1>3, <1>7, <2>1, EndsTyped, FaultTyped DEF OutputFails, TypeOK
<1>8. CASE AckFails(r)
  <2>1. unacked' \subseteq Messages
    BY <1>8 DEF AckFails, TypeOK
  <2>. QED
    BY <1>3, <1>8, <2>1, EndsTyped, FaultTyped DEF AckFails, TypeOK
<1>9. CASE Kill(r)
  BY <1>3, <1>9, EndsTyped, FaultTyped DEF Kill, TypeOK
<1>. QED
  BY <1>1, <1>2, <1>4, <1>5, <1>6, <1>7, <1>8, <1>9 DEF Failure

LEMMA StepTyped ==
  ASSUME TypeOK, [Next]_vars
  PROVE  TypeOK'
<1>1. CASE UNCHANGED vars
  BY <1>1 DEF TypeOK, vars, server, pipe, main
<1>2. CASE Next
  BY <1>2, ServerTyped, PumpTyped, MainTyped, FailureTyped DEF Next
<1>. QED
  BY <1>1, <1>2

\* Every variable keeps its type (TypeOK): in particular no channel of a
\* subscription ever holds more than its capacity.
THEOREM TypesHold == Spec => []TypeOK
BY InitTyped, StepTyped, PTL DEF Spec

-----------------------------------------------------------------------------
(***************************************************************************)
(* What a command that waits has fetched when it prints, and has printed   *)
(* when it acknowledges.                                                   *)
(***************************************************************************)
ReadInv ==
  /\ unacked \subseteq Arrived
  /\ WaitShowsSomething
  /\ \A r \in Readers :
       /\ pc[r] = "output" /\ command[r].wait => fetched[r] # {}
       /\ pc[r] = "ack" => fetched[r] # {} /\ fetched[r] \subseteq shown[r]

\* The parts of the invariant about one invocation.
ReaderInv(r) ==
  /\ outcome[r] = "printed" /\ command[r].wait => shown[r] # {}
  /\ pc[r] = "output" /\ command[r].wait => fetched[r] # {}
  /\ pc[r] = "ack" => fetched[r] # {} /\ fetched[r] \subseteq shown[r]

LEMMA ReadInvParts ==
  ReadInv <=> unacked \subseteq Arrived /\ \A r \in Readers : ReaderInv(r)
BY DEF ReadInv, ReaderInv, WaitShowsSomething

LEMMA InitReads == Init => ReadInv
BY DEF Init, ReadInv, WaitShowsSomething

\* A step of one invocation leaves the others alone.
LEMMA OthersAlone ==
  ASSUME TypeOK, NEW r \in Readers,
         Start(r) \/ Main(r) \/ Pump(r) \/ Expire(r) \/ Failure(r),
         NEW q \in Readers, q # r
  PROVE  /\ pc'[q] = pc[q] /\ outcome'[q] = outcome[q] /\ command'[q] = command[q]
         /\ fetched'[q] = fetched[q] /\ shown'[q] = shown[q]
<1>. USE DEF TypeOK, Ends, Goes, main
<1>1. CASE Start(r)
  BY <1>1 DEF Start
<1>2. CASE Main(r)
  <2>1. CASE Send(r) \/ Subscribe(r) \/ FetchOn(r) \/ FetchDone(r)
    BY <2>1 DEF Send, Subscribe, FetchOn, FetchDone
  <2>2. CASE Drain(r) \/ SeeDeadline(r) \/ SeeClosed(r) \/ SeeEvent(r)
    BY <2>2 DEF Drain, SeeDeadline, SeeClosed, SeeEvent
  <2>3. CASE Output(r) \/ Ack(r)
    BY <2>3 DEF Output, Ack
  <2>. QED
    BY <1>2, <2>1, <2>2, <2>3 DEF Main
<1>3. CASE Pump(r)
  BY <1>3 DEF Pump, Forward, Skip, PumpReturns
<1>4. CASE Expire(r)
  BY <1>4 DEF Expire
<1>5. CASE Failure(r)
  <2>1. CASE StreamEnds(r) \/ Noise(r) \/ SendFails(r) \/ SubscribeFails(r)
    BY <2>1 DEF StreamEnds, Noise, SendFails, SubscribeFails
  <2>2. CASE FetchFails(r) \/ OutputFails(r) \/ AckFails(r) \/ Kill(r)
    BY <2>2 DEF FetchFails, OutputFails, AckFails, Kill
  <2>. QED
    BY <1>5, <2>1, <2>2 DEF Failure
<1>. QED
  BY <1>1, <1>2, <1>3, <1>4, <1>5

LEMMA OwnReads ==
  ASSUME TypeOK, NEW r \in Readers, ReaderInv(r),
         Start(r) \/ Main(r) \/ Pump(r) \/ Expire(r) \/ Failure(r)
  PROVE  ReaderInv(r)'
<1>. USE DEF TypeOK, ReaderInv, Goes
<1>1. CASE Start(r)
  BY <1>1 DEF Start, FirstPhase, Commands
<1>2. CASE Send(r) \/ Subscribe(r) \/ FetchOn(r) \/ Drain(r) \/ SeeDeadline(r) \/ SeeClosed(r)
           \/ SeeEvent(r)
  <2>1. CASE Send(r) \/ Subscribe(r) \/ FetchOn(r)
    BY <2>1 DEF Ends, Send, Subscribe, FetchOn, Fetching
  <2>2. CASE Drain(r) \/ SeeDeadline(r) \/ SeeClosed(r) \/ SeeEvent(r)
    BY <2>2 DEF Ends, Drain, SeeDeadline, SeeClosed, SeeEvent, Fetching
  <2>. QED
    BY <1>2, <2>1, <2>2
<1>3. CASE FetchDone(r)
  <2>1. /\ pc' = [pc EXCEPT ![r] = AfterFetch(r)]
        /\ fetched'[r] = Found(r)
        /\ UNCHANGED <<outcome, command, shown>>
    BY <1>3 DEF FetchDone
  <2>2. /\ AfterFetch(r) # "ack"
        /\ AfterFetch(r) = "output" /\ command[r].wait => Found(r) # {}
    BY <1>3 DEF FetchDone, AfterFetch, Fetching
  <2>. QED
    BY <2>1, <2>2
<1>4. CASE Output(r)
  <2>1. shown'[r] = shown[r] \union fetched[r] /\ command' = command
    BY <1>4 DEF Output
  <2>2. CASE command[r].unread /\ fetched[r] # {}
    BY <1>4, <2>1, <2>2 DEF Output
  <2>3. CASE ~(command[r].unread /\ fetched[r] # {})
    BY <1>4, <2>1, <2>3 DEF Output, Ends
  <2>. QED
    BY <2>2, <2>3
<1>5. CASE Ack(r)
  BY <1>5 DEF Ack, Ends
<1>6. CASE Pump(r)
  BY <1>6 DEF Pump, Forward, Skip, PumpReturns, main
<1>7. CASE Expire(r)
  BY <1>7 DEF Expire
<1>8. CASE StreamEnds(r) \/ Noise(r)
  BY <1>8 DEF StreamEnds, Noise, main
<1>9. CASE SendFails(r) \/ SubscribeFails(r) \/ FetchFails(r) \/ OutputFails(r) \/ AckFails(r)
           \/ Kill(r)
  BY <1>9 DEF SendFails, SubscribeFails, FetchFails, OutputFails, AckFails, Kill, Ends
<1>. QED
  BY <1>1, <1>2, <1>3, <1>4, <1>5, <1>6, <1>7, <1>8, <1>9 DEF Main, Failure

\* What has arrived stays, and only what arrives is unread.
LEMMA ArrivalsGrow ==
  ASSUME TypeOK, unacked \subseteq Arrived, [Next]_vars
  PROVE  Arrived \subseteq Arrived' /\ unacked' \subseteq Arrived'
<1>1. stored \in Seq(AllMessages)
  BY DEF TypeOK
<1>2. \A e : {Append(stored, e)[i] : i \in 1 .. Len(Append(stored, e))} = Arrived \union {e}
  BY <1>1, AppendArrives DEF Arrived
<1>3. CASE \E m \in Messages : Deliver(m)
  BY <1>2, <1>3 DEF Deliver, Arrived
<1>4. CASE \E r \in Readers : Send(r) \/ SendFails(r)
  BY <1>2, <1>4 DEF Send, SendFails, Arrived
<1>5. CASE UNCHANGED stored /\ unacked' \subseteq unacked
  BY <1>5 DEF Arrived
<1>6. CASE UNCHANGED vars
  BY <1>5, <1>6 DEF vars, server
<1>7. CASE \E m \in Messages : Announce(m)
  BY <1>5, <1>7 DEF Announce
<1>8. CASE \E r \in Readers : Pump(r) \/ Expire(r) \/ Start(r)
  BY <1>5, <1>8 DEF Pump, Forward, Skip, PumpReturns, Expire, Start, server
<1>9. CASE \E r \in Readers : Main(r)
  BY <1>4, <1>5, <1>9 DEF Main, Subscribe, FetchOn, FetchDone, Drain, SeeDeadline, SeeClosed,
                          SeeEvent, Output, Ack, server
<1>10. CASE \E r \in Readers : Failure(r)
  BY <1>4, <1>5, <1>10 DEF Failure, StreamEnds, Noise, SubscribeFails, FetchFails, OutputFails,
                           AckFails, Kill, server
<1>. QED
  BY <1>3, <1>6, <1>7, <1>8, <1>9, <1>10 DEF Next

LEMMA StepReads ==
  ASSUME TypeOK, ReadInv, [Next]_vars
  PROVE  ReadInv'
<1>1. unacked' \subseteq Arrived'
  BY ArrivalsGrow DEF ReadInv
<1>2. \A q \in Readers : ReaderInv(q)
  BY ReadInvParts
<1>3. ASSUME NEW q \in Readers PROVE ReaderInv(q)'
  <2>1. CASE UNCHANGED main
    BY <1>2, <2>1 DEF main, ReaderInv
  <2>2. CASE \E m \in Messages : Deliver(m) \/ Announce(m)
    BY <2>1, <2>2 DEF Deliver, Announce
  <2>3. ASSUME NEW r \in Readers,
               Start(r) \/ Main(r) \/ Pump(r) \/ Expire(r) \/ Failure(r)
        PROVE  ReaderInv(q)'
    <3>1. CASE q = r
      BY <1>2, <2>3, <3>1, OwnReads
    <3>2. CASE q # r
      BY <1>2, <2>3, <3>2, OthersAlone DEF ReaderInv
    <3>. QED
      BY <3>1, <3>2
  <2>. QED
    BY <2>1, <2>2, <2>3 DEF Next, vars
<1>. QED
  BY <1>1, <1>3 DEF ReadInv, ReaderInv, WaitShowsSomething

\* At every moment: what is unread has arrived, a command that waited prints
\* something (WaitShowsSomething), and what is to be acknowledged is printed.
THEOREM ReadsInvariantly == Spec => []ReadInv
<1>1. Init => TypeOK /\ ReadInv
  BY InitTyped, InitReads
<1>2. TypeOK /\ ReadInv /\ [Next]_vars => (TypeOK /\ ReadInv)'
  BY StepTyped, StepReads
<1>. QED
  BY <1>1, <1>2, PTL DEF Spec

\* A wait that succeeds has something to show (WaitShowsSomething).
THEOREM WaitsShow == Spec => []WaitShowsSomething
<1>1. ReadInv => WaitShowsSomething
  BY DEF ReadInv
<1>. QED
  BY <1>1, ReadsInvariantly, PTL

-----------------------------------------------------------------------------
(***************************************************************************)
(* The mailbox: deliveries, prints and acknowledgements of the command are *)
(* those of the abstract specification, and nothing else touches them.     *)
(***************************************************************************)
MailboxShown == [r \in Readers |-> shown[r] \intersect Messages]

LEMMA MailboxInit == Init => M!Init
<1>. SUFFICES ASSUME Init PROVE M!Init
  OBVIOUS
<1>1. Arrived \subseteq Messages
  BY ThreadsAssumption DEF Init, Arrived
<1>. QED
  BY <1>1 DEF Init, M!Init

\* Without a change of these, a step is a stutter of the mailbox.
LEMMA MailboxStutters ==
  ASSUME Arrived' \intersect Messages = Arrived \intersect Messages,
         unacked' = unacked, shown' = shown
  PROVE  UNCHANGED M!vars
BY DEF M!vars

LEMMA MailboxDelivers ==
  ASSUME TypeOK, NEW m \in Messages, Deliver(m)
  PROVE  M!Next
<1>1. Arrived' = Arrived \union {m}
  BY AppendArrives DEF TypeOK, Deliver, Arrived
<1>2. M!Deliver(m)
  BY <1>1 DEF Deliver, M!Deliver, main
<1>. QED
  BY <1>2 DEF M!Next

LEMMA MailboxShows ==
  ASSUME TypeOK, NEW r \in Readers, NEW S \in SUBSET AllMessages,
         shown' = [shown EXCEPT ![r] = @ \union S], UNCHANGED server
  PROVE  M!Next
<1>1. MailboxShown' = [MailboxShown EXCEPT ![r] = @ \union (S \intersect Messages)]
  BY DEF MailboxShown, TypeOK
<1>2. Arrived' = Arrived
  BY DEF server, Arrived
<1>3. S \intersect Messages \in SUBSET Messages /\ unacked' = unacked
  BY DEF server
<1>4. M!Show(r)
  BY <1>1, <1>2, <1>3 DEF M!Show, MailboxShown
<1>. QED
  BY <1>4 DEF M!Next

LEMMA MailboxAcknowledges ==
  ASSUME TypeOK, NEW r \in Readers, fetched[r] \subseteq shown[r],
         unacked' = unacked \ fetched[r], UNCHANGED <<stored, shown>>
  PROVE  M!Next
<1>1. unacked' = unacked \ (fetched[r] \intersect Messages)
  BY DEF TypeOK
<1>2. fetched[r] \intersect Messages \in SUBSET MailboxShown[r]
  BY DEF MailboxShown
<1>3. M!Acknowledge(r)
  BY <1>1, <1>2 DEF M!Acknowledge, MailboxShown, Arrived
<1>. QED
  BY <1>3 DEF M!Next

LEMMA MailboxStep ==
  ASSUME TypeOK, ReadInv, [Next]_vars
  PROVE  [M!Next]_M!vars
<1>1. CASE UNCHANGED server /\ UNCHANGED shown
  BY <1>1, MailboxStutters DEF server, Arrived
<1>2. CASE UNCHANGED vars
  BY <1>1, <1>2 DEF vars, main
<1>3. CASE \E m \in Messages : Deliver(m)
  BY <1>3, MailboxDelivers
<1>4. CASE \E m \in Messages : Announce(m)
  BY <1>4, MailboxStutters DEF Announce, Arrived, main
<1>5. ASSUME NEW r \in Readers, Send(r) \/ SendFails(r)
      PROVE  UNCHANGED M!vars
  <2>1. Arrived' \in {Arrived, Arrived \union {r}}
    <3>1. stored \in Seq(AllMessages)
      BY DEF TypeOK
    <3>2. CASE stored' = stored
      BY <3>2 DEF Arrived
    <3>3. CASE stored' = Append(stored, r)
      BY <3>1, <3>3, AppendArrives DEF Arrived
    <3>. QED
      BY <1>5, <3>2, <3>3 DEF Send, SendFails
  <2>2. r \notin Messages
    BY ThreadsAssumption
  <2>. QED
    BY <1>5, <2>1, <2>2, MailboxStutters DEF Send, SendFails
<1>6. ASSUME NEW r \in Readers, Output(r) \/ OutputFails(r)
      PROVE  M!Next
  BY <1>6, MailboxShows DEF Output, OutputFails, TypeOK
<1>7. ASSUME NEW r \in Readers, Ack(r) \/ AckFails(r)
      PROVE  [M!Next]_M!vars
  <2>1. fetched[r] \subseteq shown[r]
    BY <1>7 DEF ReadInv, Ack, AckFails
  <2>2. CASE unacked' = unacked \ fetched[r]
    BY <1>7, <2>1, <2>2, MailboxAcknowledges DEF Ack, AckFails
  <2>3. CASE unacked' = unacked
    BY <1>7, <2>3, MailboxStutters DEF Ack, AckFails, Arrived
  <2>. QED
    BY <1>7, <2>2, <2>3 DEF Ack, AckFails
<1>8. ASSUME NEW r \in Readers, Start(r) \/ Pump(r) \/ Expire(r)
      PROVE  [M!Next]_M!vars
  BY <1>1, <1>8 DEF Start, Pump, Forward, Skip, PumpReturns, Expire, main
<1>9. ASSUME NEW r \in Readers, Main(r)
      PROVE  [M!Next]_M!vars
  BY <1>1, <1>5, <1>6, <1>7, <1>9 DEF Main, Subscribe, FetchOn, FetchDone, Drain, SeeDeadline,
                                      SeeClosed, SeeEvent
<1>10. ASSUME NEW r \in Readers, Failure(r)
       PROVE  [M!Next]_M!vars
  BY <1>1, <1>5, <1>6, <1>7, <1>10 DEF Failure, StreamEnds, Noise, SubscribeFails, FetchFails,
                                       Kill, main
<1>. QED
  BY <1>2, <1>3, <1>4, <1>8, <1>9, <1>10 DEF Next

\* The command implements the mailbox (ReadsThenAcks): nothing stops being
\* unread before an invocation that has printed it acknowledges it.
THEOREM MailboxKept == Spec => ReadsThenAcks
<1>1. [](TypeOK /\ ReadInv) /\ [][Next]_vars => [][M!Next]_M!vars
  <2>1. TypeOK /\ ReadInv /\ [Next]_vars => [M!Next]_M!vars
    BY MailboxStep
  <2>. QED
    BY <2>1, PTL
<1>. QED
  BY <1>1, MailboxInit, TypesHold, ReadsInvariantly, PTL DEF Spec, ReadsThenAcks, M!Spec
=============================================================================
