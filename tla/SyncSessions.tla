---------------------------- MODULE SyncSessions ----------------------------
(***************************************************************************)
(* The sync sessions of one machine: the directory ~/.agyn/sync/sessions,  *)
(* the daemons that drive sessions (internal/cmd/sandbox_sync_run.go with  *)
(* internal/sync/session/runner.go) and the commands that create, remove,  *)
(* recover and restart them (internal/cmd/sandbox_sync_manage.go and       *)
(* sandbox_sync_daemon.go).                                                *)
(*                                                                         *)
(* Nothing locks a session: daemons and commands share its files and a     *)
(* pid.  Every file operation and every request to the Gateway is a step   *)
(* of its own here.  What a cycle does to the files it synchronizes is     *)
(* SyncCycle; here a cycle completes, halts or fails.                      *)
(***************************************************************************)
EXTENDS Naturals, FiniteSets

CONSTANTS
  Id,              \* the sessions ever created; an id is a fresh uuid
  Overlapping,     \* Overlapping[i]: the sessions whose local root nests with i's
  Sandbox,         \* sandboxes
  SandboxOf,       \* SandboxOf[i]: the sandbox session i is created for
  MaxDaemons,      \* bound on the daemons ever launched
  MaxCommands,     \* bound on the commands ever typed
  MaxDisruptions   \* bound on crashes, Gateway failures and sandbox changes

ASSUME SessionsAssumption ==
  /\ Id # {}
  /\ Overlapping \in [Id -> SUBSET Id]
  /\ \A i \in Id : i \in Overlapping[i]
  /\ \A i, j \in Id : j \in Overlapping[i] => i \in Overlapping[j]
  /\ SandboxOf \in [Id -> Sandbox]
  /\ MaxDaemons \in Nat
  /\ MaxCommands \in Nat
  /\ MaxDisruptions \in Nat

Daemon == 1..MaxDaemons  \* process ids, handed out in order and never twice

VARIABLES
  record,       \* the status in session.json; "missing" without the file
  dir,          \* the sessions that have a directory
  pidFile,      \* pidFile[i]: the daemon named by the pid file, if there is one
  created,      \* the sessions created so far
  at,           \* where a daemon is
  drives,       \* the session a daemon was launched for
  cancelled,    \* daemons that were interrupted
  sandbox,      \* the state of each sandbox
  commands,     \* the commands in progress
  typed,        \* commands so far
  disruptions,  \* disruptions so far
  raced         \* history: what was checked and no longer true when acted upon

store == <<record, dir, pidFile, created>>
daemons == <<at, drives, cancelled>>
vars == <<store, daemons, sandbox, commands, typed, disruptions, raced>>

Status == {"idle", "paused", "halted"}

\* A hibernated sandbox is waited for like a stopped one.
SandboxState == {"running", "stopped", "terminated"}

Place == {"unused", "load", "pid", "dial", "attach", "wait", "cycling", "silent",
          "commit", "classify", "pausing", "sleep", "halting", "exit", "gone", "crashed"}

Race == {"launched twice", "removed while busy", "halt missed", "stale record", "overlap"}

\* A command between two of its steps: the session it is about, the sessions
\* it listed before, and the status it read before.
Command ==
  [step : {"check", "clear", "save", "spawn", "launch", "remove", "recover", "resolve"},
   id : Id, victim : Id, listed : SUBSET Id, read : Status \cup {"missing"}]

CommandAt(step, i) ==
  [step |-> step, id |-> i, victim |-> i, listed |-> {}, read |-> record[i]]

Init ==
  /\ record = [i \in Id |-> "missing"]
  /\ dir = {}
  /\ pidFile = [i \in Id |-> {}]
  /\ created = {}
  /\ at = [p \in Daemon |-> "unused"]
  /\ drives = [p \in Daemon |-> CHOOSE i \in Id : TRUE]
  /\ cancelled = {}
  /\ sandbox = [b \in Sandbox |-> "running"]
  /\ commands = {}
  /\ typed = 0
  /\ disruptions = 0
  /\ raced = {}

Live(p) == at[p] \notin {"unused", "gone", "crashed"}

LiveFor(i) == {p \in Daemon : Live(p) /\ drives[p] = i}

\* os.FindProcess and signal 0 on what the pid file names.
sessionRunning(i) == \E p \in pidFile[i] : Live(p)

signalSession(i) == cancelled' = cancelled \cup {p \in pidFile[i] : Live(p)}

\* store.Save makes the directory when it has to.
Save(i, status) ==
  /\ record' = [record EXCEPT ![i] = status]
  /\ dir' = dir \cup {i}
  /\ UNCHANGED <<pidFile, created>>

Move(p, place) == at' = [at EXCEPT ![p] = place]

Noted(race, happened) == raced' = IF happened THEN raced \cup {race} ELSE raced

Disrupt == disruptions < MaxDisruptions /\ disruptions' = disruptions + 1

-----------------------------------------------------------------------------
(***************************************************************************)
(* A daemon: sandbox sync run, runSession and Runner.Run.  A step that     *)
(* leaves the state of the others alone moves the daemon only.             *)
(***************************************************************************)

DaemonOnly == UNCHANGED <<drives, cancelled, sandbox, commands, typed, raced>>

Goes(p, from, place) ==
  /\ at[p] = from
  /\ Move(p, place)
  /\ DaemonOnly
  /\ UNCHANGED <<store, disruptions>>

Load(p) == Goes(p, "load", IF record[drives[p]] = "missing" THEN "gone" ELSE "pid")

\* Fault: a pid file that is already there is left alone.
writeFirstPID(p) ==
  /\ at[p] = "pid"
  /\ IF drives[p] \in dir
     THEN /\ Move(p, "dial")
          /\ pidFile' = [pidFile EXCEPT ![drives[p]] = IF @ = {} THEN {p} ELSE @]
     ELSE Move(p, "gone") /\ UNCHANGED pidFile
  /\ DaemonOnly
  /\ UNCHANGED <<record, dir, created, disruptions>>

\* The pid file is written without making the directory.
writeSessionPID(p) ==
  /\ at[p] = "pid"
  /\ IF drives[p] \in dir
     THEN Move(p, "dial") /\ pidFile' = [pidFile EXCEPT ![drives[p]] = {p}]
     ELSE Move(p, "gone") /\ UNCHANGED pidFile
  /\ DaemonOnly
  /\ UNCHANGED <<record, dir, created, disruptions>>

\* Fault: an interrupted daemon saves its state on the way out.
InterruptedSaving(p) ==
  /\ p \in cancelled
  /\ at[p] \in {"dial", "wait", "classify", "sleep"}
  /\ Move(p, "exit")
  /\ Save(drives[p], "idle")
  /\ DaemonOnly
  /\ UNCHANGED disruptions

\* The places at which a daemon notices that its context was cancelled.
Interrupted(p) ==
  /\ p \in cancelled
  /\ \E place \in {"dial", "wait", "classify", "sleep"} : Goes(p, place, "exit")

Dial(p) ==
  /\ p \notin cancelled
  /\ Goes(p, "dial", IF sandbox[SandboxOf[drives[p]]] = "running" THEN "attach" ELSE "classify")

\* The Gateway or the stream fails although the sandbox runs.
DialFails(p) ==
  /\ Disrupt
  /\ at[p] = "dial"
  /\ Move(p, "classify")
  /\ DaemonOnly
  /\ UNCHANGED store

SetStatus(p, from, status, place) ==
  /\ at[p] = from
  /\ Move(p, place)
  /\ Save(drives[p], status)
  /\ DaemonOnly
  /\ UNCHANGED disruptions

Attach(p) == SetStatus(p, "attach", "idle", "wait")

\* Fault: the loop over cycles does not look for an interrupt.
StartCycleDeaf(p) == Goes(p, "wait", "cycling")

StartCycle(p) == p \notin cancelled /\ Goes(p, "wait", "cycling")

\* A cycle needs the endpoint's answers to complete; it ends with SaveAncestor,
\* which makes the directory like Save.
CompleteCycle(p) ==
  /\ at[p] = "cycling"
  /\ sandbox[SandboxOf[drives[p]]] = "running"
  /\ Move(p, "commit")
  /\ dir' = dir \cup {drives[p]}
  /\ DaemonOnly
  /\ UNCHANGED <<record, pidFile, created, disruptions>>

Commit(p) == SetStatus(p, "commit", "idle", "wait")

\* A guard of the cycle or the endpoint's refusal: durable.
CycleHalts(p) ==
  /\ Disrupt
  /\ at[p] = "cycling"
  /\ Move(p, "halting")
  /\ DaemonOnly
  /\ UNCHANGED store

\* The stream breaks: with the sandbox, or with the network.
CycleFails(p) ==
  /\ \/ Disrupt
     \/ sandbox[SandboxOf[drives[p]]] # "running" /\ UNCHANGED disruptions
  /\ at[p] = "cycling"
  /\ Move(p, "classify")
  /\ DaemonOnly
  /\ UNCHANGED store

\* The endpoint says nothing more and the stream stays open.  Reads and writes on
\* it have no deadline and no part in the daemon's context: nothing ends the wait
\* but what comes over the stream, an answer or an error, if ever.
GoesSilent(p) ==
  /\ Disrupt
  /\ at[p] = "cycling"
  /\ Move(p, "silent")
  /\ DaemonOnly
  /\ UNCHANGED store

SpeaksAgain(p) == Goes(p, "silent", "cycling")

\* Fault: a terminated sandbox is waited for like a stopped one.
ClassifyPausing(p) ==
  /\ p \notin cancelled
  /\ Goes(p, "classify",
          IF sandbox[SandboxOf[drives[p]]] = "running" THEN "sleep" ELSE "pausing")

\* What the sandbox is doing tells a pause from a halt from a reconnect.
Classify(p) ==
  /\ p \notin cancelled
  /\ Goes(p, "classify",
          CASE sandbox[SandboxOf[drives[p]]] = "terminated" -> "halting"
            [] sandbox[SandboxOf[drives[p]]] = "stopped" -> "pausing"
            [] OTHER -> "sleep")

\* The Gateway does not answer either: reconnect.
ClassifyFails(p) ==
  /\ Disrupt
  /\ at[p] = "classify"
  /\ Move(p, "sleep")
  /\ DaemonOnly
  /\ UNCHANGED store

\* Fault: a paused session gives its process up.
PauseAndExit(p) == SetStatus(p, "pausing", "paused", "exit")

Pause(p) == SetStatus(p, "pausing", "paused", "sleep")

Halt(p) == SetStatus(p, "halting", "halted", "exit")

Wakes(p) == p \notin cancelled /\ Goes(p, "sleep", "dial")

\* Whatever pid the file names by now.
removeSessionPID(p) ==
  /\ at[p] = "exit"
  /\ Move(p, "gone")
  /\ pidFile' = [pidFile EXCEPT ![drives[p]] = {}]
  /\ DaemonOnly
  /\ UNCHANGED <<record, dir, created, disruptions>>

Run(p) ==
  \/ Load(p) \/ writeSessionPID(p) \/ Interrupted(p) \/ Dial(p) \/ DialFails(p)
  \/ Attach(p) \/ StartCycle(p) \/ CompleteCycle(p) \/ Commit(p)
  \/ CycleHalts(p) \/ CycleFails(p) \/ Classify(p) \/ ClassifyFails(p)
  \/ Pause(p) \/ Halt(p) \/ Wakes(p) \/ removeSessionPID(p)

DaemonStep(p) == Run(p) \/ GoesSilent(p) \/ SpeaksAgain(p)

-----------------------------------------------------------------------------
(***************************************************************************)
(* Commands.                                                               *)
(***************************************************************************)

Types(cs) ==
  /\ typed < MaxCommands
  /\ typed' = typed + 1
  /\ commands' = commands \cup cs

Ends(c) == commands' = commands \ {c} /\ UNCHANGED typed

Becomes(c, d) == commands' = (commands \ {c}) \cup {d} /\ UNCHANGED typed

\* sync start: the sandbox is brought up, and what overlaps is listed.
Start(i) ==
  /\ i \notin created /\ \A c \in commands : c.id # i
  /\ sandbox[SandboxOf[i]] # "terminated"
  /\ sandbox' = [sandbox EXCEPT ![SandboxOf[i]] = "running"]
  /\ Types({[CommandAt("check", i) EXCEPT
               !.listed = {j \in Overlapping[i] : record[j] # "missing"}]})
  /\ UNCHANGED <<store, daemons, disruptions, raced>>

\* A session whose sandbox is gone makes way for the new one.
ClearGone(c) ==
  /\ c.step = "check"
  /\ \E j \in c.listed :
       /\ sandbox[SandboxOf[j]] = "terminated"
       /\ signalSession(j)
       /\ Becomes(c, [c EXCEPT !.step = "clear", !.victim = j, !.listed = @ \ {j}])
  /\ UNCHANGED <<store, at, drives, sandbox, disruptions, raced>>

\* Fault: what overlaps is listed and not refused.
CreateBeside(c) ==
  /\ c.step = "check"
  /\ record' = [record EXCEPT ![c.id] = "idle"]
  /\ dir' = dir \cup {c.id}
  /\ created' = created \cup {c.id}
  /\ Becomes(c, [c EXCEPT !.step = "spawn"])
  /\ UNCHANGED <<pidFile, daemons, sandbox, disruptions, raced>>

Create(c) ==
  /\ c.step = "check"
  /\ c.listed = {}
  /\ record' = [record EXCEPT ![c.id] = "idle"]
  /\ dir' = dir \cup {c.id}
  /\ created' = created \cup {c.id}
  /\ Noted("overlap", \E j \in Overlapping[c.id] : record[j] # "missing")
  /\ Becomes(c, [c EXCEPT !.step = "spawn"])
  /\ UNCHANGED <<pidFile, daemons, sandbox, disruptions>>

startDetached(c, place) ==
  \E p \in Daemon :
    /\ at[p] = "unused" /\ \A q \in 1..(p - 1) : at[q] # "unused"
    /\ Move(p, place)
    /\ drives' = [drives EXCEPT ![p] = c.id]
    /\ raced' = raced
         \cup (IF LiveFor(c.id) # {} THEN {"launched twice"} ELSE {})
         \cup (IF record[c.id] = "halted" /\ c.read # "halted" THEN {"halt missed"} ELSE {})
    /\ UNCHANGED <<store, cancelled, sandbox, disruptions>>

\* --foreground drives the session without loading it again.
Spawn(c) ==
  /\ c.step = "spawn"
  /\ startDetached(c, "load") \/ startDetached(c, "pid")
  /\ Ends(c)

\* sync stop interrupts the daemon and does not wait for it.
Stop(i) ==
  /\ record[i] # "missing"
  /\ signalSession(i)
  /\ Types({CommandAt("remove", i)})
  /\ UNCHANGED <<store, at, drives, sandbox, disruptions, raced>>

\* May the daemon still write the session's files after an interrupt?
Busy(p) ==
  \/ at[p] \in {"attach", "cycling", "silent", "commit", "pausing", "halting"}
  \/ at[p] \notin {"load", "pid", "exit"} /\ p \notin cancelled

\* Fault: the pid file is kept beside the directory and stays behind.
RemoveWithoutPID(c) ==
  /\ c.step \in {"clear", "remove"}
  /\ record' = [record EXCEPT ![c.victim] = "missing"]
  /\ dir' = dir \ {c.victim}
  /\ IF c.step = "clear" THEN Becomes(c, [c EXCEPT !.step = "check"]) ELSE Ends(c)
  /\ UNCHANGED <<pidFile, created, daemons, sandbox, disruptions, raced>>

Remove(c) ==
  /\ c.step \in {"clear", "remove"}
  /\ record' = [record EXCEPT ![c.victim] = "missing"]
  /\ dir' = dir \ {c.victim}
  /\ pidFile' = [pidFile EXCEPT ![c.victim] = {}]
  /\ Noted("removed while busy", \E p \in LiveFor(c.victim) : Busy(p))
  /\ IF c.step = "clear" THEN Becomes(c, [c EXCEPT !.step = "check"]) ELSE Ends(c)
  /\ UNCHANGED <<created, daemons, sandbox, disruptions>>

\* resume and reset of any session; accept-deletions of a halted one.
Recover(i) ==
  /\ record[i] # "missing"
  /\ Types({CommandAt("recover", i)})
  /\ UNCHANGED <<store, daemons, sandbox, disruptions, raced>>

\* resolve leaves the status as it read it.
Resolve(i) ==
  /\ record[i] # "missing"
  /\ Types({CommandAt("resolve", i)})
  /\ UNCHANGED <<store, daemons, sandbox, disruptions, raced>>

Rewrite(c) ==
  /\ \/ c.step = "recover" /\ Save(c.id, "idle")
     \/ c.step = "resolve" /\ Save(c.id, c.read)
  /\ Noted("stale record", record[c.id] # c.read)
  /\ Ends(c)
  /\ UNCHANGED <<daemons, sandbox, disruptions>>

\* Fault: halted sessions are started with the rest.
ResumeEvery ==
  /\ Types({CommandAt("launch", i) : i \in {j \in Id : record[j] # "missing"}})
  /\ UNCHANGED <<store, daemons, sandbox, disruptions, raced>>

\* sync resume-all, at login: every session listed as not halted is tried.
ResumeAll ==
  /\ Types({CommandAt("launch", i) : i \in {j \in Id : record[j] \notin {"missing", "halted"}}})
  /\ UNCHANGED <<store, daemons, sandbox, disruptions, raced>>

Launch(c) ==
  /\ c.step = "launch"
  /\ \/ /\ ~sessionRunning(c.id)
        /\ startDetached(c, "load")
     \/ /\ sessionRunning(c.id)
        /\ UNCHANGED <<store, daemons, sandbox, disruptions, raced>>
  /\ Ends(c)

\* A refusal, a declined prompt, a failed request, an interrupt.
GiveUp(c) ==
  /\ Ends(c)
  /\ UNCHANGED <<store, daemons, sandbox, disruptions, raced>>

-----------------------------------------------------------------------------
(***************************************************************************)
(* The rest of the world.                                                  *)
(***************************************************************************)

\* A daemon is killed, or goes down with the machine.
Crash(p) ==
  /\ Disrupt
  /\ Live(p)
  /\ Move(p, "crashed")
  /\ UNCHANGED <<store, drives, cancelled, sandbox, commands, typed, raced>>

\* A sandbox stops or hibernates, comes back with its user, or is terminated.
SandboxChanges(b) ==
  /\ Disrupt
  /\ sandbox[b] # "terminated"
  /\ \E s \in SandboxState \ {sandbox[b]} : sandbox' = [sandbox EXCEPT ![b] = s]
  /\ UNCHANGED <<store, daemons, commands, typed, raced>>

Next ==
  \/ \E p \in Daemon : DaemonStep(p) \/ Crash(p)
  \/ \E i \in Id : Start(i) \/ Stop(i) \/ Recover(i) \/ Resolve(i)
  \/ \E c \in commands :
       ClearGone(c) \/ Create(c) \/ Spawn(c) \/ Remove(c) \/ Rewrite(c) \/ Launch(c) \/ GiveUp(c)
  \/ ResumeAll
  \/ \E b \in Sandbox : SandboxChanges(b)

\* The operating system runs every daemon, and the Gateway answers or refuses a
\* request in the end.  Nothing makes a silent stream speak or break, and people
\* type what they like.
Spec == Init /\ [][Next]_vars /\ \A p \in Daemon : WF_vars(Run(p))

-----------------------------------------------------------------------------

\* Types, and the layout of a session's directory: session.json and the pid file
\* are in it, the pid file names one daemon (state.go Store, runSession).
TypeOK ==
  /\ record \in [Id -> Status \cup {"missing"}]
  /\ dir \subseteq created
  /\ created \subseteq Id
  /\ pidFile \in [Id -> SUBSET Daemon]
  /\ \A i \in Id : record[i] # "missing" \/ pidFile[i] # {} => i \in dir
  /\ \A i \in Id : Cardinality(pidFile[i]) <= 1
  /\ at \in [Daemon -> Place]
  /\ drives \in [Daemon -> Id]
  /\ cancelled \subseteq Daemon
  /\ sandbox \in [Sandbox -> SandboxState]
  /\ commands \subseteq Command
  /\ typed \in 0..MaxCommands
  /\ disruptions \in 0..MaxDisruptions
  /\ raced \subseteq Race

\* May the daemon apply changes to its session's local root, now or later?
Engine(p) ==
  /\ Live(p) /\ at[p] \notin {"load", "pid", "halting", "exit"}
  /\ at[p] \in {"cycling", "silent"} \/ p \notin cancelled

\* No two daemons ever work on one subtree (sandbox_sync_run.go:92-94: "two
\* engines writing one subtree cannot be reconciled"), unless a session was
\* launched a second time before its daemon had written its pid, or removed
\* under a daemon at work, or two starts or a stale record went past each other.
OneEnginePerSubtree ==
  raced \subseteq {"halt missed"} =>
    \A p, q \in Daemon :
      p # q /\ Engine(p) /\ Engine(q) => drives[q] \notin Overlapping[drives[p]]

\* Every daemon past its start is the one in its session's pid file, through
\* crashes, restarts and stops: status reports it, stop reaches it, resume-all
\* sees it.  The exceptions are those above but for overlapping starts.
EnginesAreReported ==
  raced \subseteq {"halt missed", "overlap"} =>
    \A p \in Daemon :
      Live(p) /\ at[p] \notin {"load", "pid"} /\ drives[p] \in dir => pidFile[drives[p]] = {p}

\* A halted session stays halted until somebody who saw the halt takes it back
\* or removes the session (sandbox_sync_daemon.go:76-78: "a halt is a durable
\* state a reboot does not resolve"), as long as no command acted on what it
\* had read before the halt.
HaltIsDurable ==
  [][raced' \cap {"launched twice", "halt missed", "stale record"} = {} =>
       \A i \in Id :
         record[i] = "halted" /\ record'[i] \notin {"halted", "missing"} =>
           \E c \in commands \ commands' : c.step = "recover" /\ c.id = i]_vars

\* What stop removed does not come back, unless it was removed under a daemon
\* that was about to write, or a command wrote back what it had read before.
RemovedStaysRemoved ==
  [][raced' \cap {"removed while busy", "stale record"} = {} =>
       \A i \in created \ dir : i \notin dir']_vars

\* sandbox_sync_manage.go:138 and 154: stop is to "Remove a sync session" and
\* reports "removed session".  Without the exceptions above this is not so: the
\* daemon that was interrupted in a cycle saves its state when the cycle ends.
StopIsFinal == [][\A i \in created \ dir : i \notin dir']_vars

\* An interrupted daemon goes away, whatever it was doing and whatever happens
\* to its session, its sandbox and the Gateway, unless it is left waiting for ever
\* on a stream that says nothing (Cycle.Run takes no context, transport.go:89).
InterruptedDaemonsExit ==
  \A p \in Daemon : p \in cancelled ~> (~Live(p) \/ [](at[p] = "silent"))

\* Nothing goes on driving a session whose sandbox was terminated, but for a
\* daemon whose stream neither said so nor broke.
TerminatedSettles ==
  \A i \in Id :
    []<>(sandbox[SandboxOf[i]] = "terminated" => \A p \in LiveFor(i) : at[p] = "silent")

\* A session is not left paused beside a sandbox that runs, unless its daemon
\* was interrupted or killed, or a command wrote an old pause back.
PausesEnd ==
  \A i \in Id :
    <>[](sandbox[SandboxOf[i]] = "running") =>
      []<>(\/ record[i] # "paused"
           \/ "stale record" \in raced
           \/ \E p \in Daemon : drives[p] = i /\ (p \in cancelled \/ at[p] = "crashed"))
=============================================================================
