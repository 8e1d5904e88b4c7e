---------------------------- MODULE TerminalAttach ----------------------------
(***************************************************************************)
(* The bridge between the local terminal and the remote one: the signal    *)
(* that the window changed, the goroutine that measures and emits the size,*)
(* the channel of one size, the outbound pump that forwards sizes and      *)
(* input, and the inbound pump that ends with the ending's exit frame, a    *)
(* close, or an error.  The proxy is assumed to take frames in order.      *)
(***************************************************************************)
EXTENDS Naturals, Sequences, SequencesExt

CONSTANTS
  Sizes,      \* window sizes; Unset is the size of a window nobody set
  Unset,
  Default,    \* the size that stands in for it
  MaxChanges, \* bound on changes of the window
  MaxInput,   \* bound on chunks typed
  MaxFrames   \* frames that wait for the pump (16 in the code)

ASSUME TerminalAssumption ==
  /\ Unset \in Sizes /\ Default \in Sizes \ {Unset}
  /\ MaxChanges \in Nat /\ MaxInput \in Nat /\ MaxFrames \in Nat \ {0}

Empty == Unset  \* nothing in a channel: what is measured is never unset

VARIABLES
  window,    \* the local window
  changes,   \* how often it changed
  signal,    \* the signal channel holds one
  watcher,   \* the goroutine of WatchResize
  measured,  \* the size it emits
  resize,    \* the channel of sizes
  phase,     \* where streamTerminal and Attach are
  pump,      \* the outbound pump
  input,     \* stdin: chunks read and not forwarded, whether it ended, how much was typed
  wire,      \* frames on their way to the proxy
  remote,    \* the size of the remote terminal
  ending,    \* "running", or how the remote side ended
  inbound,   \* frames on their way from the proxy
  shown,     \* what was written to stdout
  result     \* what Attach returned

terminalVars ==
  <<window, changes, signal, watcher, measured, resize, phase, pump, input, wire,
    remote, ending, inbound, shown, result>>

\* An exit frame gives a reason (completed, cancelled or error) or none ("unnamed");
\* which one it gives only words a notice.
Reasons == {"named"}
None0 == [code |-> "none", err |-> FALSE]
Result(code, err) == [code |-> code, err |-> err]

TerminalInit ==
  /\ window \in Sizes /\ changes = 0
  /\ signal = FALSE /\ watcher = "off" /\ measured = Empty /\ resize = Empty
  /\ phase = "raw" /\ pump = "off"
  /\ input = [queue |-> 0, end |-> "open", typed |-> 0]
  /\ wire = <<>> /\ remote = Empty
  /\ ending = "running" /\ inbound = <<>> /\ shown = 0
  /\ result = None0

-----------------------------------------------------------------------------
\* TTY.Size: a size nobody set is answered with the default.
Size(w) == IF w = Unset THEN Default ELSE w

Open == phase = "open" /\ result = None0
Session == <<phase, pump, input, wire, remote, ending, inbound, shown, result>>
Watching == <<signal, watcher, measured, resize>>
Local == <<window, changes>>

\* The window changes; the signal is kept if one is not already waiting.
WindowChanges ==
  /\ changes < MaxChanges /\ result = None0
  /\ window' \in Sizes \ {window} /\ changes' = changes + 1
  /\ signal' = (signal \/ watcher # "off")
  /\ UNCHANGED <<watcher, measured, resize>> /\ UNCHANGED Session

\* streamTerminal watches first and measures the initial size after that; the
\* handshake carries it.
\* Fault: the size is measured before the signal is asked for.
MeasureThenWatch ==
  \/ phase = "raw" /\ phase' = "sized" /\ wire' = <<Size(window)>> /\ UNCHANGED watcher
  \/ phase = "sized" /\ phase' = "dial" /\ watcher' = "idle" /\ UNCHANGED wire
StartUp ==
  \/ phase = "raw" /\ phase' = "sized" /\ watcher' = "idle" /\ UNCHANGED wire
  \/ phase = "sized" /\ phase' = "dial" /\ wire' = <<Size(window)>> /\ UNCHANGED watcher

Prepare ==
  /\ StartUp
  /\ UNCHANGED <<signal, measured, resize, pump, input, remote, ending, inbound, shown, result>>
  /\ UNCHANGED Local
Dial ==
  /\ phase = "dial"
  /\ \/ phase' = "open" /\ pump' = "on" /\ UNCHANGED <<wire, result>>
     \/ phase' = "closed" /\ result' = Result("none", TRUE) /\ wire' = <<>> /\ UNCHANGED pump
  /\ UNCHANGED <<input, remote, ending, inbound, shown>> /\ UNCHANGED Watching /\ UNCHANGED Local

-----------------------------------------------------------------------------
\* WatchResize: take the signal, measure, emit.
Wake ==
  /\ watcher = "idle" /\ signal /\ result = None0
  /\ signal' = FALSE /\ measured' = Size(window) /\ watcher' = "send"
  /\ UNCHANGED resize /\ UNCHANGED Session /\ UNCHANGED Local

\* emit, one select at a time: the pump may take the size between two of them.
\* Fault: a size that finds the channel full is dropped.
Drops ==
  /\ watcher = "send"
  /\ resize' = IF resize = Empty THEN measured ELSE resize
  /\ watcher' = "idle"
Emit ==
  \/ /\ watcher = "send" /\ resize = Empty
     /\ resize' = measured /\ watcher' = "idle"
  \/ /\ watcher = "send" /\ resize # Empty
     /\ watcher' = "drain" /\ UNCHANGED resize
  \/ /\ watcher = "drain"
     /\ resize' = Empty /\ watcher' = "retry"
  \/ /\ watcher = "retry"
     /\ resize' = (IF resize = Empty THEN measured ELSE resize) /\ watcher' = "idle"
EmitSize ==
  /\ result = None0 /\ Emit
  /\ UNCHANGED <<signal, measured>> /\ UNCHANGED Session /\ UNCHANGED Local

-----------------------------------------------------------------------------
\* pumpOutbound.  Its select takes a size or a chunk when there is one.
ForwardSize ==
  /\ Open /\ pump = "on" /\ resize # Empty
  /\ wire' = Append(wire, resize) /\ resize' = Empty
  /\ UNCHANGED <<signal, watcher, measured, phase, pump, input, remote, ending, inbound, shown, result>>
  /\ UNCHANGED Local
ForwardInput ==
  /\ Open /\ pump = "on" /\ input.queue > 0
  /\ input' = [input EXCEPT !.queue = @ - 1]
  /\ UNCHANGED <<phase, pump, wire, remote, ending, inbound, shown, result>>
  /\ UNCHANGED Watching /\ UNCHANGED Local
\* Stdin ended: at its end the pump waits for the session, and forwards no more
\* sizes either; an error of stdin, or of a write, ends the pump.
InputEnds ==
  /\ Open /\ pump = "on" /\ input.queue = 0 /\ input.end # "open"
  /\ pump' = IF input.end = "eof" THEN "waits" ELSE "failed"
  /\ UNCHANGED <<phase, input, wire, remote, ending, inbound, shown, result>>
  /\ UNCHANGED Watching /\ UNCHANGED Local
WriteFails ==
  /\ Open /\ pump = "on" /\ (resize # Empty \/ input.queue > 0)
  /\ pump' = "failed"
  /\ \/ ending' = "lost" /\ inbound' = <<>>  \* the connection is gone
     \/ ending # "running" /\ UNCHANGED <<ending, inbound>>
  /\ UNCHANGED <<phase, input, wire, remote, shown, result>>
  /\ UNCHANGED Watching /\ UNCHANGED Local
ReadInput ==
  /\ Open /\ input.end = "open"
  /\ \/ /\ input.typed < MaxInput /\ input.queue < MaxFrames
        /\ input' = [input EXCEPT !.queue = @ + 1, !.typed = @ + 1]
     \/ \E how \in {"eof", "error"} : input' = [input EXCEPT !.end = how]
  /\ UNCHANGED <<phase, pump, wire, remote, ending, inbound, shown, result>>
  /\ UNCHANGED Watching /\ UNCHANGED Local

-----------------------------------------------------------------------------
\* The proxy: takes a size, sends output, and the ending's exit or no more.
ProxyTakesSize ==
  /\ Open /\ wire # <<>>
  /\ remote' = Head(wire) /\ wire' = Tail(wire)
  /\ UNCHANGED <<phase, pump, input, ending, inbound, shown, result>>
  /\ UNCHANGED Watching /\ UNCHANGED Local
ProxySends ==
  /\ Open /\ ending = "running"
  /\ \/ Len(inbound) < 2 /\ shown = 0 /\ inbound' = Append(inbound, "output") /\ UNCHANGED ending
     \/ \E reason \in Reasons \union {"unnamed"} :
          inbound' = Append(inbound, reason) /\ ending' = reason
     \/ ending' = "lost" /\ inbound' \in {inbound, <<>>}
  /\ UNCHANGED <<phase, pump, input, wire, remote, shown, result>>
  /\ UNCHANGED Watching /\ UNCHANGED Local

\* What Attach makes of the end: an exit frame gives the ending's code; a write
\* that failed is reported only if the exit gave no reason.
\* Fault: a write that failed is reported whatever the exit says.
AlwaysReported(reason) == Result("shell", pump = "failed")
Ending(reason) == Result("shell", pump = "failed" /\ reason = "unnamed")

Finish(r) == phase' = "closed" /\ result' = r
PumpInbound ==
  /\ Open
  /\ \/ /\ inbound # <<>> /\ inbound' = Tail(inbound)
        /\ \/ /\ Head(inbound) = "output"
              /\ \/ shown' = shown + 1 /\ UNCHANGED <<phase, result>>
                 \/ Finish(Result("lost", TRUE)) /\ UNCHANGED shown  \* stdout fails
           \/ /\ Head(inbound) # "output"
              /\ \/ Finish(Ending(Head(inbound)))
                 \* its error is not on the channel yet, or is of an orderly close
                 \/ pump = "failed" /\ Finish(Result("shell", FALSE))
              /\ UNCHANGED shown
     \* closed without an exit frame: an orderly close is no error, code 1 is
     \/ /\ inbound = <<>> /\ ending = "lost"
        /\ \E err \in BOOLEAN : Finish(Result("lost", err))
        /\ UNCHANGED <<inbound, shown>>
  /\ UNCHANGED <<pump, input, wire, remote, ending>> /\ UNCHANGED Watching /\ UNCHANGED Local

TerminalNext ==
  \/ WindowChanges \/ Prepare \/ Dial
  \/ Wake \/ EmitSize
  \/ ForwardSize \/ ForwardInput \/ InputEnds \/ WriteFails \/ ReadInput
  \/ ProxyTakesSize \/ ProxySends \/ PumpInbound

\* The goroutines run, the network delivers, and a select that can take a size
\* again and again takes one in the end (Go's select picks at random).
TerminalFairness ==
  /\ WF_terminalVars(Prepare) /\ WF_terminalVars(Dial)
  /\ WF_terminalVars(Wake) /\ WF_terminalVars(EmitSize)
  /\ SF_terminalVars(ForwardSize) /\ WF_terminalVars(ProxyTakesSize)

TerminalSpec == TerminalInit /\ [][TerminalNext]_terminalVars /\ TerminalFairness

-----------------------------------------------------------------------------
\* The last size of the window arrives: unless the session ends, or stdin ends
\* or the connection fails and the pump forwards nothing more, the remote
\* terminal has the size of the window in the end, whatever was coalesced.
SizeArrives ==
  <>[](result # None0 \/ pump \in {"waits", "failed"} \/ remote = Size(window))

\* A shell that exits is reported with its own code, and as an error of the
\* connection only when the exit frame gives no reason, whether the outbound
\* side had failed by then or not.
ExitIsTheShells ==
  [][result' # result /\ inbound # <<>> /\ Head(inbound) \in Reasons =>
       result' = Result("shell", FALSE)]_terminalVars
=============================================================================
