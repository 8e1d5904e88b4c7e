# Verification of agyn-cli

`agyn` is the command line of the Agyn platform. Most of it sends one request
to the Gateway and prints the answer. The parts with logic of their own are
workspace sync (two directory trees, one on the engineer's machine and one in a
sandbox, kept equal by a daemon), the life of local platform VMs, terminal
attach, waiting for thread messages, and a few shared files. Workspace sync, where
a mistake destroys somebody's work, is modelled in most detail; every other part
with state or with more than one request has a module of its own.

Modules are TLA+; TLC checks small instances of them (the `.cfg` files), and
TLAPS proves the main results for every value of the constants.
`PROJECT.json` maps every definition to the lines it stands for.

## 1. The system

| Part | State it keeps | Operations |
|---|---|---|
| Filesystem side (`internal/sync/tree`) | a root, its staging directory | `Scan`, `Stage.Put/Missing`, `Transition` (remove, mkdir, file, link, chmod) |
| Reconciliation (`internal/sync/reconcile`, vendored mutagen core) | none | `Reconcile`, `flatten`, `rank`, `diff`, `Apply` |
| Cycle (`internal/sync/session/cycle.go`) | base (`ancestor.bin`), trash, quarantine, scans and plan of the running cycle | `Run`: identity, handshake, scans, guard, reconcile, stage and apply remote, fetch, trash and apply local, commit |
| Endpoint (`internal/sync/endpoint`) in the sandbox | marker, staging directory | `Handshake`, `Scan`, `StageQuery`, `StagePut`, `Transition`, `Supply` |
| Client, wire, transport (`internal/sync/client`, `wire`, `transport`) | a stream | one request, one answer, over a terminal session |
| Session store (`session/state.go`) | `session.json`, directory, pid file | `Save`, `List`, `Load`, `Remove`, `SaveAncestor` |
| Runner and daemon (`session/runner.go`, `cmd/sandbox_sync_run.go`) | its copy of the record, a connection, a back-off | dial, attach, cycle, pause, halt, reconnect |
| Session commands (`cmd/sandbox_sync_manage.go`, `_daemon.go`) | none; they edit the store | `start`, `stop`, `resume`, `resolve`, `accept-deletions`, `reset`, `resume-all` |
| `sandbox cp` (`internal/sync/transfer`) | the staging directory, shared with every session | `Push`, `Pull` |
| Sandbox lifecycle (`cmd/sandbox.go`, `sandbox_shells.go`) | the sandbox and its recorded tabs, at the server | start, connect, stop, delete, tabs |
| Terminal attach (`internal/terminal/session.go`) | a WebSocket, two pumps, a channel of one size | attach, input, resize, exit |
| Threads (`cmd/threads.go`, `internal/threads`) | references file; unacknowledged messages at the server | create, add, send, read, wait, acknowledge |
| Local VM (`cmd/local*.go`, `internal/local`, its scripts) | image directory, Lima instances, ports, tokens, CA, Helm release | start, download, stop, restart, delete, purge, upgrade, resume, reset, credentials, config set |
| Configuration, profiles, credentials, kubeconfig (`internal/config`, `internal/auth`, `local/kubeconfig.go`) | `config.yaml`, `credentials`, `threads.json`, the user's kubeconfig | migrate, set, select, remove, store a token, merge a context |
| Gateway commands (`cmd/*.go`) | the selected organization; everything else is the server's | look up, page through, create, update, delete, link |
| Output, generated code | none | formatting |

How they interact:

- The daemon calls the endpoint through one terminal session. Requests are
  answered in turn. A broken stream ends the cycle; the next one starts from
  the handshake and the stored base.
- Daemons and commands share the files of `~/.agyn/sync/sessions/<id>` without
  a lock. A daemon reads its record once and writes its copy back when it is
  connected, after each cycle, on a pause and on a halt. Commands read the
  record, may ask the Gateway or the user, and write it back. The pid file is
  the only sign that a daemon runs.
- Users of both roots, and programs in the sandbox, write at any time.
- A local VM's commands share its Lima instance, the images and the files with
  every other terminal, and talk to the cluster through scripts run in the guest;
  a profile, a token and a CA on this side must fit what is in the VM.
- A Gateway command is a sequence of requests. Other clients change what the
  Gateway holds between any two of them.
- The tabs of a sandbox are read and written by attaches and by the browser.
- The platform stops, hibernates or terminates a sandbox at any time; an
  explicit `sync start` wakes it, the daemon never does.

What is hard, and what must hold:

- *One cycle*: concurrent edits, streams that break in any phase, a crash
  between applying and recording, changes that fail singly, roots that come
  back wiped, replaced or empty. Must hold: nothing only one side knows is
  overwritten, conflicts are left alone, the base records what both sides
  showed, removals can be recovered, an empty root is not mirrored, and the
  roots come to agree.
- *Sessions*: two starts at once, stop or resume under a working daemon, a
  daemon that was killed, a login service that starts everything. Must hold:
  one engine per subtree, a daemon is the one the pid file names, halts last,
  removed sessions stay removed, interrupted daemons exit, pauses end.
- *Threads*: notifications against fetches, printing against acknowledging.
  Must hold: no message is missed by a wait, none is acknowledged unprinted.
- *Local VM*: a bring-up of some twenty steps that may be cut short anywhere and
  is run again, by this terminal or another. Must hold: a start that ends well
  leaves a machine every other command can be run on, no truncated disk boots,
  ports of two VMs differ.
- *Terminal*: two pumps, a signal handler and a teardown. Must hold: the exit
  code is the shell's, the last window size arrives.
- *Copies*: files that change while they are copied, a staging directory shared
  with sessions and other copies. Must hold: what appears under a name is whole,
  and both ends stay in step.
- *Shared files*: read-modify-write without a lock. Must hold: a command changes
  its own key only, and the selected profile is configured.
- *Gateway commands*: a name is looked up in one request and its identifier used
  in another. Must hold: what is changed is what was named, an answer is true of
  something that was there, an update keeps what it has no flag for.

The full list, at its lines, is `hazards` in `PROJECT.json`.

## 2. The plan

| Order | Module | What it models | State |
|---|---|---|---|
| 1 | `SyncTree` | trees, scans, the effect of a change | written |
| 2 | `SyncReconcile`, `SyncReconcileRef` | the decisions as formulas; the recursive algorithm as the reference | written |
| 3 | `SyncQuiet`, `SyncAgreement` | one whole cycle from every triple of trees; the formulas against the reference there | written |
| 4 | `SyncCycle` (extends `SyncReconcile`) | the cycle step by step with users, failures and recovery | written |
| 5 | `SyncPromises` (extends `SyncCycle`) | what comments promise and the code does not do | written |
| 6 | `SyncReconcileProofs`, `SyncCycleProofs`, `SyncQuietProofs` | the theorems of section 5 about reconciliation and cycles | written |
| 7 | `SyncSessions` | store, daemons, commands, sandboxes | written |
| 8 | `ThreadsWait`, `Mailbox`, `ThreadsWaitProofs` | subscription goroutine, channels, fetch, timeout, acknowledgement; refines "every message is shown, then acknowledged" | written |
| 9 | `LocalFiles` | the shared files under any number of writers | written |
| 10 | `LocalVM` | image, VM, guest and profile with commands cut short between any two steps | written |
| 11 | `GatewayCommands`, `Gateway` | each command as its steps; lookups, pages, changes, and other clients | written |
| 12 | `SandboxShells`, `TerminalAttach` | from a start or connect to the terminal session; the bridge itself | written |
| 13 | `SandboxCopy` | `sandbox cp` frame by frame, over one staging directory | written |
| 14 | `SyncSessionsProofs` | one engine per subtree, reported engines, durable halts and removals | written |
| 15 | `LocalProofs` | the shared files; disks, ports and what a start leaves | written |
| 16 | `SandboxCopyProofs`, `RemoteProofs` | copies in step and whole; tabs, exits, edits, lookups and what a command changes | written |
| 17 | `SyncReconcileRef`, `SyncQuietProofs` | the recursion as recursive functions on places, and the proof of what `AgreesWithRecursion` checks | written |

`MCLocal` and `MCRemote` put modules that share no state side by side: a behaviour
of theirs is a behaviour of one of the modules, the others at rest.

## 3. Modules and code

**`SyncTree`** — a root is a function from relative paths to what a scan reports
(`Absent`, a directory, a file with a digest and an executable bit, a link).
`Above` gives the ancestors of a path, so the directory structure is a constant.
`applyChange` is `tree.applyChange`, `stagedAfter` the rename that consumes the
staged copy, `Scan` a scan with unreadable paths.

**`SyncReconcile`** — the code recurses over nested entries; here each path is
decided by a formula over whole trees (`RemoteTakes`, `LocalTakes`,
`Conflicts`, `NewAncestor`), and `flatten`, `rank` and `NextChanges` give the
changes and their order. **`SyncReconcileRef`** is the recursive algorithm, call by
call (`reconcile`, `handleDisagreementBidirectional`, `diff`, `Apply`,
`flattenEntry`), used only to justify the formulas. An entry is a function on
places, the paths and the root (`Root`, `""` in the code); what it has at a place
and below is the nested entry the code would hold there. Each recursive function of
the code is a recursive function on places that descends through `GetContents`. The
lists of changes are sets: the code ranges over maps, and `rank` orders what comes
of it. `Apply` is given as what it leads to, since the recursion records a place
before what is inside it.

**`SyncQuiet`** — one step is one undisturbed cycle. `Batch` is `tree.Transition`: the
root, the staging directory and what is left after each change of the batch.
**`SyncAgreement`** adds the comparison with `SyncReconcileRef` in every state.

**`SyncCycle`** — one action per phase of `Cycle.Run` and per change of a
transition. On disk, and so surviving a crash: `tree`, `staged`, `marker`,
`ancestor`, `trash`, `quarantine`. In the daemon: `remembered`, `halted`, `phase`,
`scan`, `base`, `todo`, `queue`. `Halt` and `Retry` are the two ways a cycle ends
early. Environment: user edits, dropped connections, crashes, wiped, foreign,
swapped and emptied roots, unreadable paths, and the recovery commands.

**`SyncSessions`** — `record`, `dir` and `pidFile` are a session's directory; `at`
is where a daemon is; `commands` holds the commands between two of their steps,
each with what it read. Every file operation and Gateway request is a step of
its own, except that one `launch` looks for a daemon and spawns in a single
step. `raced` is a history variable: which checks were no longer true when
acted upon. The properties name the races under which they may fail, so they
say both what the code guarantees and what it leaves to chance; for each race
excluded there is a behaviour that breaks the property. `Run(p)` is what a daemon
does by itself; `GoesSilent` and `SpeaksAgain` are a stream over which nothing comes
in the middle of a cycle, for a while or for ever (`at[p] = "silent"`): `Cycle.Run`
has no context and the transport no deadline, so that nothing on this side ends that
wait, an interrupt included. The assumption says that
overlapping is what "one root is inside the other" is: reflexive and symmetric.

**`ThreadsWait`** — a reader is one invocation of `threads create`, `send` or
`read`. `pc` is its main goroutine: `look` is the fetch of a `read` before it
waits, `check`, `drain`, `recheck` and `waiting` are
`waitForNotificationMessages`. `pump` is the goroutine of
`subscribeMessageNotifications`, `events` its channel; the errors channel is the
value `closed` of `pump`. A fetch goes page by page over `stored` from `cursor`.
When a process exits, `Ends` clears what was in its memory. Server state, external:
`stored`, `unacked`, `unannounced`, `stream`, `wire`. **`Mailbox`** is the promise:
a message is unread until a reader that has shown it acknowledges it.

**`LocalFiles`** — a process is one command. `job` steps through the files it changes:
`load` is the `Load` at its beginning, `read` the read in `mutateConfigFile`,
`SaveTokenFor`, `RefStore.Load` or `MergeKubeconfig`, `write` the truncation,
`fill` the content. A value is named after the command that wrote it, so a value
that comes back is seen. Two commands that fill a file at once may leave a garbled
one; a kill may leave an empty one. The kubeconfig is renamed over in one step.

**`LocalVM`** — a run is a terminal, with a script of commands. `host` is what this
machine keeps of a VM, `image` the download directory, `vms` what Lima knows,
`guests` the cluster: the Secret and the token the Gateway has read, the ports of
controller, overlay, identities and URLs, the Helm release. One action per step of
`runLocalStart`, `newLocalUpgradeCmd`, the scripts and the rest; `Cut` ends a
command anywhere, and `scars` names what the code is known not to repair. Two
entries came out of the proof: a script that rewrites identities while another moved
the controller meanwhile leaves stray ones (`RewriteIdentities`), and a command that
unpacks anew wipes out the torn disk of an earlier one (`Unpack`).

**`GatewayCommands`** has one definition per command: the sequence of its requests,
made of `Find`, `Get`, `Create`, `Update`, `Delete`, `Link`, `Unlink` and the like.
**`Gateway`** runs one command, a request (and a page) at a time, against resources
with parents and names, while `OthersCreate`, `OthersRename`, `OthersDelete` and
`OthersWrite` go on. `how` says how a lookup matches: name, name or identifier,
any case, first page only, as each function does. The ghosts `facts`, `steady` and
`touched` remember what was true while the command ran, and `Meant` is what the
arguments stand for by those facts. `WellFormed` says how the commands are put
together: what a step refers to was found by an earlier one, a change is of the
last thing found, pages are searched under a place. For an egress rule, `copy` is
what was read, and `Merged` and `ReadBack` what the command makes of it: a part with
a flag is sent whole, and what it keeps goes through the command's own arguments,
which have no private resource, no scheme or user name of a value in the clear, and
one reading for each form of header. `Undirected` and `Unparsable` are the edits
refused for what was read, not for what was asked.

**`SandboxShells`** — an attach from the sandbox's answer to its terminal session:
wait, read the tabs, choose or open one, write the layout over the version that was
read, wait again, ask for a ticket. **`TerminalAttach`** — `watcher` is the
goroutine of `WatchResize`, `resize` the channel of one that `emit` drains, `pump`
the outbound pump; `PumpInbound` ends the session.

**`SandboxCopy`** — `client` and `endpoint` are the two ends of a copy, `up` and `down`
the frames between them. A body goes chunk by chunk; a content stands for its
digest. `kept` is what an open file still holds when its name is taken away. Contents are
sequences and `NoFile` none of them; nothing else is assumed of a start.

Definitions whose comment starts with *Fault* are not part of the model: they
are the changed versions that show each property can fail.

## 4. The runs

`CHECK_DEADLOCK FALSE` in all but `quiet`: a halted
session, one whose bounded users and disruptions are used up, and commands that
have all returned really stop. `SyncQuiet` never
stops and is checked for deadlock.

| Run | Instance | Shows |
|---|---|---|
| `quiet` | a directory with a subdirectory, a file in each; 2 digests, a link, executable bits; every base, local and remote (91,125 states) | the formulas equal the recursion, for an empty base stored or missing; one cycle brings the roots together outside conflicts, keeps both versions of a conflict, never trades new work for old, and leaves strictly less to do |
| `cycle_races` | a directory and a file in it, 2 digests; 2 edits at any time, 1 of: lost connection, crash, resolve, unreadable path, emptied root, accepted deletions; failing trash (326,713 states) | the plan spares what only one side knows; only scanned base content is overwritten; the session settles |
| `cycle_losses` | the directory and an unrelated file with links; 1 edit between cycles, 2 of: lost connection, wiped, foreign, swapped, emptied root, resume, reset (1,404,551 states) | conflicts untouched, removals in the trash, empty roots contained, base only of agreed content |
| `sessions` | 2 sessions of nested roots on 2 sandboxes, 2 daemons, 3 commands, 2 crashes, failures or sandbox changes (598,066 states) | one engine per subtree, reported engines, durable halts, final removals; interrupted daemons exit and terminated sandboxes settle, but for a daemon on a stream that stays silent; pauses end |
| `threads` | 2 invocations, one of any kind that sends or waits and one that reads; 2 messages to come and 1 of another thread; pages and channel of 1; 1 failure (367,914 states) | acknowledged means printed (refines `Mailbox`), a wait that succeeds shows something, no wait misses a message or outlives its stream |
| `local` | files: 3 commands, one of them a selection, 1 kill, old and new shape of the settings. VMs: 2 terminals, 2 VMs, 3 ports, 1 command cut short, 12 first scripts against 7 second ones, on a new machine or one with a running VM (1,970,000 states) | writes keep what is not theirs, the selected profile is configured; a start that ends well leaves a usable machine, only whole disks boot, ports differ |
| `remote` | Gateway: one of its commands, up to 6 resources, pages of 1, up to 2 changes by others. Shells: 2 attaches and a browser. Terminal: 3 sizes, 2 changes, a queue of 1. Copies: 2 copies, 2 files, 1 change and 1 cut (1,160,743 states) | what is changed was named, answers are true, an edit keeps the rest but for what arguments cannot say; tabs are kept; the last size arrives, the exit code is the shell's; copies land whole and in step |
| `wiped_remote`, `trash_fails`, `resolve_returns`, `late_base`, `stop_undone` | the smallest instance that shows it | a counterexample each, see section 6 |

Why the bounds are enough. A decision at a path depends on the path, on what is
above it and on everything below it: two levels give each of these a member, and
`quiet` starts from every combination, so what a longer history could bring
about between two cycles is covered too. A file and a directory with an entry
are needed for changes that interfere, a second digest for an edit that is
neither the base nor the other side's. Two edits are a conflict; with one
disruption they fall before, into and after every phase. The content-loss floor
is 2 in place of 10 so that small trees are above and below it, except in
`wiped_remote`, which uses 10. Two daemons and three commands are what a race for
one session takes: start, resume-all and a stop or recovery. In `threads` two
messages fill a channel of one and leave the pump blocked, pages of one make every
fetch more than one request with pages that add nothing, and the second
invocation takes away what woke the first. `MaxEdits`, `MaxDisruptions`,
`MaxDaemons`, `MaxCommands` and `MaxFaults` are the only bounds in their guards.

In `local`, a lost update takes a reader and a writer, and the third command is the
selection that may be left dangling. One cut per behaviour is enough for what a
cut leaves behind, because the next command meets it; the scripts put before a cut
what changes the next path through the code (a running VM, another port, an upgrade).
Three ports are the default and two to choose from. In `remote`, pages of one make
every listing of two more than one request, six resources hold two levels under an
organization, an ambiguous name and what others create, and two changes are a
deletion and a new one of the same name. The rules to edit have between them every
kind of header, a domain and none, and a private resource and none. Two sizes besides the unset one are what
coalescing can confuse. Two copies are a live one and the one whose handshake
collects; a content of two chunks can be cut in the middle. `MaxKills`, `MaxCuts`,
`MaxPort`, `MaxId`, `MaxVersion`, `MaxWorkloads`, `MaxChanges`, `MaxInput`, `MaxFrames`
and the bounds in a command or a start of `MCRemote` are those of their guards.

Fairness. `WF_vars(Engine)` in `SyncCycle`: the daemon's loop goes on by itself;
users, failures and commands are not fair. `WF_vars(Run(p))` per daemon in
`SyncSessions`: the operating system schedules each process, its sleeps time out, and
a request to the Gateway is answered or refused in the end (the HTTP client has no
timeout of its own, but every request outside a cycle carries the daemon's context,
so an interrupt ends it); that a failing Gateway answers follows from the bound on
disruptions. The stream of a cycle is another matter. The transport reads and writes
under `context.Background()` without a deadline (`transport.go:89`, `120`), so
`GoesSilent` may happen in any cycle and `SpeaksAgain` has no fairness: a cycle need
not end. `InterruptedDaemonsExit` and `TerminatedSettles` except a daemon in that
wait; without the exception TLC answers with the interrupt that is never heard
(section 6). The fairness of
`Engine` in `SyncCycle` is therefore that of a daemon whose endpoint answers or
breaks off: it says how a session settles when it is not left waiting for ever.
Commands get no fairness: a prompt may stay unanswered.

`TerminatedSettles` is about the status the Gateway reports: a sandbox that is not
found at all is an error of the request, and the daemon reconnects
(`sandbox_sync_run.go:275-291`).

In `ThreadsWait` the two goroutines of an invocation run and the server publishes
what it stored; timeouts, failures and deliveries are not fair, so
`MessageEndsWait` cannot lean on the timeout.

`TerminalFairness`: the goroutines run and the network delivers (weak), and the
pump's `select` takes a size in the end when it can do so again and again (strong:
Go's `select` picks at random among ready cases). `SizeArrives` needs nothing of the
user, who may stop changing the window or not.

`Settles` says that a session halts, or that the roots agree from some point on
outside recorded conflicts. `EveryCycleProgresses` is the safety half, from every
state and not only reachable ones.

## 5. What is proved

For every value of the constants that satisfies the assumptions named below; for the
modules of sync trees that is any finite set of paths with their ancestors
(`PathAssumption`). Liveness apart, every property of a passing run is the
statement of a theorem.

| Theorem (`SyncCycleProofs`) | Says |
|---|---|
| `TypeCorrect` | `Spec => []TypeOK` |
| `CycleInvariant` | the inductive invariant below |
| `PlansKeepNewWork` | nothing left of a plan replaces work only one side knows (`PlanKeepsNewWork`) |
| `PlansAvoidConflicts` | nothing left of a plan reaches a conflict (`PlanAvoidsConflicts`) |
| `NewWorkIsKept` | no engine step overwrites a scanned version the base does not hold (`OnlyBaseOverwritten`) |
| `ConflictsSurvive` | applying a plan leaves conflicts and all inside them alone (`ConflictsUntouched`) |
| `EmptyRootContained` | an empty root takes nothing from the other at or above the floor (`EmptyRootIsContained`) |
| `BaseAgreed` | unless a resolve happens, the base moves only to what both scans showed (`BaseIsAgreed`) |
| `RemovalsTrashed` | without edits in a cycle and with renames that work, what is removed locally is in the trash (`LocalRemovalsTrashed`) |

| Theorem (`ThreadsWaitProofs`) | Says |
|---|---|
| `TypesHold` | `Spec => []TypeOK`, the capacity of the channel included |
| `WaitsShow` | a wait that succeeds has something to show (`WaitShowsSomething`) |
| `MailboxKept` | every step is a step or a stutter of `Mailbox` (`ReadsThenAcks`) |

| Theorem (`SyncQuietProofs`) | Says |
|---|---|
| `QuietRoots` | the base and both roots are trees (`QuietTypes`) |
| `FormulasAreTheRecursion` | the formulas decide what the recursion decides: the changes for both sides, the conflicts, the ancestor (`AgreesWithRecursion`) |
| `OneCycleIsEnough` | one undisturbed cycle brings the roots together outside conflicts, unless it creates two files of one content (`OneCycleAgrees`) |
| `ConflictsLastOneCycle` | it leaves both versions of a conflict as they were (`ConflictsKeepBoth`) |
| `CyclesKeepNewWork` | what is new on one side is on some side afterwards (`NewWorkSurvives`) |
| `CyclesComeToRest` | a cycle that has something to do leaves strictly less of it (`EveryCycleProgresses`) |

| Theorem (`SyncSessionsProofs`) | Says |
|---|---|
| `SessionsTyped` | types and the layout of the session directory (`TypeOK`) |
| `EnginesStayApart` | no two engines on one subtree, but for the races named (`OneEnginePerSubtree`) |
| `EnginesReported` | an engine is the one its pid file names, likewise (`EnginesAreReported`) |
| `HaltsAreDurable` | a halt lasts until a command that saw it takes it back, likewise (`HaltIsDurable`) |
| `RemovalsStay` | a removed session does not come back, likewise (`RemovedStaysRemoved`) |

| Theorem (`LocalProofs`) | Says |
|---|---|
| `FilesTypes` | the types of the files and of what commands hold, the kubeconfig always whole (`FilesTypeOK`) |
| `KeepOthers` | a command changes another's key only from a stale read (`WritesKeepOthers`) |
| `CurrentConfigured` | a selection is left dangling only from a stale read (`CurrentStaysConfigured`) |
| `VMsStayKnown` | the inductive invariant of `LocalVM` below |
| `DisksAreComplete` | a VM is made from a complete disk unless somebody unpacks it or was killed unpacking (`BootsCompleteDisks`) |
| `PortsFoundAreFree` | a port found for a VM is no other's, unless commands for both ran side by side (`PickedPortsApart`) |
| `EndsUsable` | a start, restart or credentials nobody interfered with leaves a usable VM (`StartLeavesUsable`) |

| Theorem (`SandboxCopyProofs`) | Says |
|---|---|
| `StaysInStep` | every frame is of the kind its reader waits for (`InStep`) |
| `LandsAsTold` | what a copy puts under a name is whole and as announced, and a copy that reports success has put all of it there (`LandsWhole`) |

| Theorem (`RemoteProofs`) | Says |
|---|---|
| `ChannelsHoldSizes` | nothing arrives before the session is open; no size stands for an empty channel |
| `ExitsAreReported` | a shell that exits is reported with its own code (`ExitIsTheShells`) |
| `LayoutsExtend` | a layout about to be written extends the recorded one if its version still stands |
| `AttachesKeepTabs` | an attach takes no tab away and renumbers none (`TabsKept`) |
| `EditsAreOfWhatWasRead` | what an edit merges with is what the rule holds, but for writes by others since the read |
| `EditsKeepTheRest` | an update keeps what its flags do not name, but for what others wrote since the read and what its arguments cannot say, as the property lists it (`EditsKeepRest`) |
| `ListingsMissNothing` | a lookup between two pages has every undisturbed match it passed |
| `LookupsAnswerTrue` | "not found", "which one" and listings were true (`AnswersTrue`) |
| `FindsWhatIsMeant` | what a command has found is what its arguments mean |
| `CommandsChangeTheNamed` | a command changes, and creates under, only what its arguments name (`ChangesTheNamed`) |

The argument for the sync theorems. The action properties are not inductive by themselves, because a
plan is made in one step and applied in many, while users write in between.
`CycleInv` carries over what was true of the whole plan: what is left of it aims at
nothing only one side knows (`PlanKeepsNewWork`), stays clear of conflicts
(`PlanAvoidsConflicts`), and there is work only in a cycle that passed the
content-loss guard (`WorkMatchesPhase`). `BaseAgreed` adds that the base a cycle
works with is the stored one (`BaseStands`), `RemovalsTrashed` that a path already
brought to the trash stays empty until its removal (`RemovalsEmptied`).
`SyncReconcileProofs` has the lemmas about trees and reconciliation: `Under` and
`Above`, that two paths in disagreement are apart, that a plan touches nothing
outside them, that a subtree that is taken holds nothing the base does not. The step
lemmas then have one case per action. All rest on `PathAssumption` and
`CycleAssumption` only.

For `ThreadsWait`, from `ThreadsAssumption`: `WaitShowsSomething` speaks of the end
of a command; `ReadInv` adds what holds on the way there: a command that waited
reaches its output only with something fetched, what is to be acknowledged has
been printed, and only what arrived is unread. Each step is of one reader, and the
lemmas `OthersAlone` and `OwnReads` split the invariant by reader. The
refinement has one lemma per abstract action, and `ReadInv` supplies that an
acknowledgement names printed messages only.

For `LocalFiles`, from `FilesAssumption` and `MachinesAssumption`, for any number of
commands, profiles, VMs and kills: only a fill and a merge change a text
(`OnlyWrites`), and what a write puts there is a function of what its command read
(`Mutated`). The invariant adds to the types that a command that is about to select
a profile has found it configured in what it loaded (`SelectsConfigured`): without
it the write of a selection could not be told from a dangling one. Both action
properties then go through the jobs one by one.

For `SyncQuiet`, from `PathAssumption` alone. A cycle applies two batches, each a
plan to replace some subtrees of one root by the other's, and two replaced subtrees
are apart (`RegionsApart`). The recursive function `Batch` is unfolded once by
well-founded recursion (`BatchEquation`); what holds at its start and is kept by one
change then holds at its end (`BatchGoes`). Two things are: `Outside`, a batch
touches nothing outside what it replaces, which gives conflicts and new work; and
`Inside`. Its part `Settled` says of a subtree that it is as before until its
removal, and from then on each path is as it should be or its change is still to
come; `Stocked` says that every file still to be created is staged. Both are relative
to a set `missed` of paths where a file may find its content gone, because the first
of two files of one content consumes the staged copy: the empty set when no content
is asked for twice, which gives `OneCycleIsEnough`, or all files of the plan.
That a creation works when its turn comes needs the order (`RankIs`): removals come
first, and a directory before what is in it (`CreationLands`). At the end nothing is
left to come (`TransitionSettles`). `CyclesComeToRest` compares two plans. The next
one has nothing to do but at files this one missed (`OnlyTheLost`): a conflict is one
again, since base and both roots are the same there (`ConflictsAgain`), and
everything else agrees. Where a file was missed, one change settles it (`OneChange`).
Fewer files are missed than there were changes, because the first to be created finds
its content (`FirstLands`, `LostAreFewer`).

`FormulasAreTheRecursion` needs `RootAssumption` as well. A recursive function is
known only by its equation, and has one only if some function solves it. So for
each of `diff`, `reconcile` and `flattenEntry` there is a closed form (`Differing`,
`Found`, `Flattened`) that says which places below p the recursion from p records;
it is shown to solve the equation, child by child (`DifferingInside`,
`CaughtInside`, `FlattenedDescends`), and then to be the only solution, by induction
from the leaves up (`PlaceInduction`). What is inside a place is inside exactly the
children the recursion visits, or both entries have nothing there
(`BelowIsChildren`, `NotInContents`). From the root, the closed form of `reconcile`
is handling at every disagreement (`DisagreementsAre`), which takes the side
`RemoteTakes` or `LocalTakes` names (`DisagreementIs`), whatever entry it passes as
the old one (`FlattenAgrees`); and recording what both scans agree on, which turns
the old ancestor into `NewAncestor` (`AncestorAgrees`) with every parent in place, so
that `Apply` does not fail.

For `SyncSessions`, from `SessionsAssumption`, for any number of sessions, daemons,
commands and disruptions. `TypesInv` adds to the types that daemons and commands are
about sessions that were created, and that what a command read fits its step
(`KnownSessions`). `RunCases` sorts the steps of a daemon into five kinds: those
that write nothing, save the record, save the ancestor, enter or leave the pid
file; `NextCases` does the same for everything. `SessionsInv` then has one conjunct
per promise, each under the races it excepts: `OneDaemon`, `Present` (a daemon that
may write has its files), `Apart` (sessions on disk do not overlap), `HaltSettled`
(the daemon of a halted session is on its way out) and `EnginesAreReported`. `raced`
only grows, so a conjunct that was excused stays excused.
`OneEnginePerSubtree` is what `OneDaemon` and `Apart` say together. The two action
properties go through the kinds of step: a daemon that saves is not the one of a
halted or removed session, and a command rewrites a record that is still what it
read (`SaversPresent`, `RewritesWhatItRead`).

For `LocalVM`, from `LocalVMAssumption`, for any number of terminals, VMs, ports,
scripts and cuts. `VMInv` has seven conjuncts: the types (`VMTypes`); commands have
serials and know whom they run beside (`Apart`); which commands get to which step
(`OnTheirWay`); a port that was picked is free as long as nobody runs beside
(`PicksAreFree`); a disk that is not complete is being filled or was by a command
that is gone (`DiskExplained`); the token the Gateway has read is the Secret's and the
identities are at the controller's port, unless a script is on its way to that or a
scar says it was cut short (`AllFollow`); and what a command alone
on its VM has brought about at each step (`AllAchieved`). Every action is first
summarised as a command that begins or one that acts (`Begins`, `Acts`), then there
is one lemma per conjunct and group of actions. `DisksAreComplete` follows from
`DiskExplained`, `PortsFoundAreFree` from `PicksAreFree`, `EndsUsable` from
`AllFollow` and `AllAchieved`.

For `SandboxCopy`, from `CopyAssumption`, for any number of copies, files and
contents. `StepInv` says for each copy where command and endpoint can be at the same
time, and what is on the wire then (`UpFits`, `DownFits`): whoever reads has a frame
of the kind it waits for, or none. It is kept copy by copy, with one lemma per step.
`LandInv` adds what the digests of the staging directory are of, what a job does and
how far it is (`Jobs`, `Progress`), and of a file that nobody moves, that what has
arrived and what is on its way are what was announced (`Streams`, `Carries`).

For the modules of `RemoteProofs`, each from its own assumption. `TerminalAttach`:
nothing arrives before the session is open, so that no exit is read early. `SandboxShells`: a layout to be written
extends the recorded tabs by at most the shell entered, under a new number, as long
as its version stands; the server's check of the version does the rest. `Gateway`
has three invariants that build on each other. `GatewayInv`: what was read for an
edit is what the rule holds but for what others wrote, and no identifier is given
out again (`UsedCovers`), so that a rule that is gone does not come back. What
`ReadBack` leaves alone is then what the rule holds, and the rest is the list of
losses in `EditsKeepRest`. `AnswersInv` adds that what is held now is among the facts, and that
a lookup between two pages has every match up to its cursor that nothing happened to
(`Paging`). `MeantInv` adds that each place a command found is one its argument means
(`PlacesAreMeant`). `Meant` is a recursive function over the steps; it grows
with the facts and depends on nothing others can take away, which `MeantEquation`
and the lemmas after it show, so a rename by others in the middle of a command
cannot make it change something else.

Model-checked only. Liveness (`Settles`, `InterruptedDaemonsExit`,
`TerminatedSettles`, `PausesEnd`, `MessageEndsWait`, `LossEndsWait`, `SizeArrives`) is
beyond the prover here. Every other property of a passing run is the statement of a
theorem.

## 6. Where code and comments differ

Each has a run that ends in a counterexample, and a finding in `PROJECT.json`.

- `wiped_remote`: a wiped workspace is given the session's marker by the handshake
  that should detect it, and below the content-loss floor its emptiness is
  mirrored, against `cycle.go:68-70`.
- `trash_fails`: a removal goes ahead after its move to the trash failed, against
  `cycle.go:311-312`.
- `resolve_returns`: a resolved path is quarantined again by the next cycle,
  against `sandbox_sync_manage.go:238-240`.
- `late_base`: work is discarded without a conflict because the base of a
  propagated path lags by a cycle, against `reconcile.go:20-22`.
- `stop_undone`: a session stopped under a busy daemon is on disk again when the
  daemon saves, against `sandbox_sync_manage.go:138`.

Seen while modelling, without a run: a daemon whose stream goes silent in a cycle
never exits, although `Run` "drives the session until the context is cancelled or it
halts" (`runner.go:64`): only the checks between cycles look at the context
(`runner.go:75`, `138`, `174`); a halt in the middle of `Run` leaves the
remote side applied (`cycle.go:32`, `293`), and one vanished file makes `supply`
fail the cycle although `endpoint.proto:54-56` promises the contrary
(`cycle.go:326`); `resume` re-records a swapped root and goes on
(`sandbox_sync_manage.go:164-166`, `182`); an unreadable path is taken for a
deletion (`tree.go:55-57`, `88`); `accept-deletions` meets the same guard again
when the other side still has the entries (`sandbox_sync_manage.go:266-267`,
`287`); `reset` merges when it says that one side becomes the base (`307-308`,
`337`); an edit made after the scan is overwritten (`tree.go:355`); `resume` and
`reset` point to `sync start`, which refuses the existing session;
a wait whose timeout is over may report a broken stream in place of "wait timed
out", because the select at `threads.go:867` may see the pump's text-only error
first (832, 931); "closed before a message arrived" is also said when the
notification of one is still in the channel (872);
`undelete` restores the oldest of several trashed versions of a path, without its
executable bit, and stops at a trashed link that leads nowhere
(`sandbox_sync_manage.go:431-465`);
`sandbox_sync_test.go:87` says that `sandbox delete` removes sessions, and nothing
calls `removeSessionsForSandbox`.

In copies: a push of a directory with two files of one content fails, because the
rename of the first consumes the staged body (`transfer.go:96`), although
`transfer.go:48` says that such content is sent once; a handshake's `CollectStale`
removes what a live session is receiving, not only what dead ones left
(`tree.go:233-237`); a file that changes after `supply` compared its digest is pulled
as it is then, a shorter one included (`endpoint.go:399`). All three are in the model,
and `LandsWhole` is stated around them.

In local files: `profile use` and `set` write back all profiles as read when the
command began (`profile.go:177`), so a concurrent change is lost and a removed
profile selected; an empty `threads.json` fails every later command; two writers may
garble a file.

In local VMs: a cut between the controller's upgrade and the enrolled identities
leaves identities no rerun rewrites (`set-ingress-port.sh:41-43`); a cut between
patching the Secret and restarting the Gateway makes the rerun say that the token is
current (`set-bootstrap-token.sh:16`, `62-67`); an upgrade killed after Helm and
before the ports are restored is followed by one that finds nothing changed and
restores nothing (`local.go:771`); a disk that was being decompressed is taken for a
whole one (`download.go:60`); a download that dies after its last byte asks for an
empty range on every rerun (`download.go:155`); `delete --purge` of one VM removes
the directories of all; a second start of a VM whose creation fails deletes it under
the first; `--port` on an existing VM is neither saved nor, on a running one,
applied; `local reset` reverts URLs to the release's port. `scars` and `beside` in
`StartLeavesUsable` and `BootsCompleteDisks` are these exceptions.

In Gateway commands: an update of an action or a matcher of an egress rule
writes back what it read through the command's own arguments (`egress.go:339-401`).
A Basic value loses scheme and user name, a Bearer value its scheme; a value in the
clear that begins with `secret:` or `bearer-secret:` becomes the name of a secret,
and one with `basic:` a user name and a password; a Basic secret, and a value with
`basic:` and no second colon, make the update fail; domain, path and methods are
trimmed and put in upper case; the private resource is dropped, and a rule that has
one and no domain cannot be updated in its matcher at all (`egress.go:404`, `415`), although the test of such an update asks that it preserve
existing fields (`egress_test.go:160`, with a rule that has no private resource); an
environment's contents, nicknames and handles are searched on one page; `findSubscription` takes the first match of a name or an identifier
where `matchOrganization` puts the identifier first (`subscriptions.go:409`,
`organizations.go:152-154`); `vars set` only creates. `EditsKeepRest` and
`AnswersTrue` name these exceptions.

In sandboxes: `sandbox start` refuses a wrong sync root before it creates a sandbox,
because one nobody asked for is left otherwise, but looks for a terminal only
after the sandbox is created and a tab recorded (`sandbox_attach.go:33`); a layout
that is refused makes the next connect return to an older shell, which a
comment accepts (`sandbox_shells.go:81`). `files download` truncates its destination
before the first byte arrives.

## 7. Not modelled, and why

Within sync: digests collide never and are compared by value; the sentinel file,
notes and notices are wording; in `SyncCycle` the endpoint ends with its connection
and `supply` is one step (`SandboxCopy` has the two reads and the endpoint that
lingers, with copies in place of cycles); two
removals into the trash within a second collide like any failed rename
(`TrashRenameFails`); process ids are never reused. In `SyncCycle` resume, reset and
accept-deletions happen to a halted session; under a live daemon only what they do
to the record is modelled, in `SyncSessions`. The `resolve` there keeps the record
as read. A hibernated sandbox is a stopped one. `undelete` is a user's edit.

Within copies: the two scans and the handshake are one step each; others rewrite a
file in one step; directories, links, modes, the walk and the numbers of the free
space check are left out, and so is what the endpoint writes to stderr.

Within threads: the server has a subscription once its answer's headers are back,
which is when the client library returns from `Subscribe`; an inbox item carries one message and a message is in
one item, so the map from messages to items is left out; the order of printing
is wording.

Within shared files: single fields of a profile or an instance, environment variables,
`current-context` of the kubeconfig, `--path` and `--print`, and writes by other
programs such as kubectl.

Within local VMs: `--no-ca`, `--no-profile` and `load-image`; the operating system's
trust store; the API port, which is allocated like the other; preflight and host
tools, which only read; retries and waits inside a script; the `agyn-apps` release;
the download's range requests. A read-modify-write of a file is one step there
(`LocalFiles` has the two). `DeleteVM`, Helm and Lima are external.

Within the Gateway: fields nothing depends on, output, permissions, cascades of a
deletion other than that nothing hangs under what is gone, and the chunks of uploads
and downloads. Listings are assumed in the order of identifiers, pages to start
after the last entry returned, and a layout to be taken only over the version it
names.

Within terminals: raw mode, a failing ioctl in the watcher, bytes of the output, the
wording of the notice that goes with the reason of an exit. A shell id or tab number
the command refuses by its pattern never enters.

Outside: `PROJECT.json` lists every component with its reason. The output, the
gateway client and generated code keep no state; the step display and the picker
draw; the login service writes a unit that calls `resume-all`; the vendored mutagen
code other than reconciliation is not called.
