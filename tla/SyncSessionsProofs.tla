-------------------------- MODULE SyncSessionsProofs --------------------------
(***************************************************************************)
(* For any number of sessions, sandboxes, daemons, commands and            *)
(* disruptions: the layout of the session directory, one engine for each   *)
(* subtree, every engine in its pid file, and that halts and removals      *)
(* last, each with the races it excepts.                                   *)
(***************************************************************************)
EXTENDS SyncSessions, FiniteSetTheorems, TLAPS

Starting == {"check", "clear"}

\* Daemons and commands are about sessions that were created, but for a start
\* that has not got that far; and what a command read before fits its step.
KnownSessions ==
  /\ \A p \in Daemon : at[p] # "unused" => drives[p] \in created
  /\ \A c \in commands :
       /\ c.step \in Starting <=> c.id \notin created
       /\ c.step \in {"recover", "resolve"} => c.read # "missing"
       /\ c.step \in Starting \union {"spawn", "launch"} => c.read # "halted"
  /\ \A c, d \in commands :
       c.step \in Starting /\ d.step \in Starting /\ c.id = d.id => c = d

\* TypeOK, with the pid file's one line said without counting.
TypesInv ==
  /\ record \in [Id -> Status \union {"missing"}]
  /\ dir \subseteq created
  /\ created \subseteq Id
  /\ pidFile \in [Id -> SUBSET Daemon]
  /\ \A i \in Id : record[i] # "missing" \/ pidFile[i] # {} => i \in dir
  /\ \A i \in Id : \A p, q \in pidFile[i] : p = q
  /\ at \in [Daemon -> Place]
  /\ drives \in [Daemon -> Id]
  /\ cancelled \subseteq Daemon
  /\ sandbox \in [Sandbox -> SandboxState]
  /\ commands \subseteq Command
  /\ typed \in 0..MaxCommands
  /\ disruptions \in 0..MaxDisruptions
  /\ raced \subseteq Race
  /\ KnownSessions

\* One daemon drives a session, unless one was launched beside another.
OneDaemon ==
  "launched twice" \notin raced =>
    \A p, q \in Daemon : Live(p) /\ Live(q) /\ drives[p] = drives[q] => p = q

\* A daemon that may write its session's files has them, unless they were
\* removed under it; then a directory without a session.json is not made either.
Present ==
  "removed while busy" \notin raced =>
    /\ \A p \in Daemon : Live(p) /\ Busy(p) => record[drives[p]] # "missing"
    /\ \A i \in dir : record[i] # "missing"

\* The sessions on disk do not overlap.
Apart ==
  raced \cap {"removed while busy", "stale record", "overlap"} = {} =>
    \A i \in Id : \A j \in Overlapping[i] :
      record[i] # "missing" /\ record[j] # "missing" => i = j

\* The daemon of a halted session is on its way out.
HaltSettled ==
  raced \cap {"launched twice", "halt missed", "stale record"} = {} =>
    \A p \in Daemon : Live(p) /\ record[drives[p]] = "halted" => at[p] = "exit"

SessionsInv ==
  /\ TypesInv
  /\ OneDaemon
  /\ Present
  /\ Apart
  /\ HaltSettled
  /\ EnginesAreReported

-----------------------------------------------------------------------------
(***************************************************************************)
(* A step of a daemon is one of five kinds.                                *)
(***************************************************************************)

\* It changes no file.
QuietStep(p) ==
  /\ UNCHANGED store
  /\ at[p] # "exit"
  /\ Live(p)' /\ Busy(p)' => Busy(p)
  /\ Live(p)' => at[p] \notin {"load", "pid"} \/ at'[p] \in {"load", "pid"}

\* It saves the session's record.
SaveStep(p) ==
  /\ at[p] \in {"attach", "commit", "pausing", "halting"}
  /\ at'[p] \in {"wait", "sleep", "exit"}
  /\ \E status \in Status :
       Save(drives[p], status) /\ (status = "halted" => at'[p] = "exit")

\* It saves the ancestor.
AncestorStep(p) ==
  /\ at[p] = "cycling" /\ at'[p] = "commit"
  /\ dir' = dir \union {drives[p]}
  /\ UNCHANGED <<record, pidFile, created>>

\* It writes the pid file.
EnterStep(p) ==
  /\ at[p] = "pid" /\ at'[p] = "dial"
  /\ drives[p] \in dir
  /\ pidFile' = [pidFile EXCEPT ![drives[p]] = {p}]
  /\ UNCHANGED <<record, dir, created>>

\* It removes the pid file.
LeaveStep(p) ==
  /\ at[p] = "exit" /\ at'[p] = "gone"
  /\ pidFile' = [pidFile EXCEPT ![drives[p]] = {}]
  /\ UNCHANGED <<record, dir, created>>

LEMMA RunCases ==
  ASSUME TypesInv, NEW p \in Daemon, DaemonStep(p)
  PROVE  /\ Live(p)
         /\ UNCHANGED <<drives, cancelled, sandbox, commands, typed, raced>>
         /\ at' = [at EXCEPT ![p] = at'[p]] /\ at'[p] \in Place \ {"unused"}
         /\ disruptions' \in 0..MaxDisruptions
         /\ QuietStep(p) \/ SaveStep(p) \/ AncestorStep(p) \/ EnterStep(p) \/ LeaveStep(p)
<1> USE DEF TypesInv, DaemonOnly, Move
<1>1. ASSUME NEW from \in Place, NEW place \in Place \ {"unused"}, Goes(p, from, place),
             from \notin {"unused", "gone", "crashed", "exit"},
             from \in {"load", "pid"} => place \in {"pid", "gone"},
             \/ place \in {"pid", "gone", "exit"}
             \/ p \notin cancelled
      PROVE  /\ Live(p)
             /\ UNCHANGED <<drives, cancelled, sandbox, commands, typed, raced>>
             /\ at' = [at EXCEPT ![p] = at'[p]] /\ at'[p] \in Place \ {"unused"}
             /\ disruptions' \in 0..MaxDisruptions
             /\ QuietStep(p)
  BY <1>1 DEF Goes, QuietStep, Busy, Live, store
<1>2. CASE Load(p)
  <2>1. PICK place \in {"pid", "gone"} : Goes(p, "load", place)
    BY <1>2 DEF Load
  <2> QED
    BY <2>1, <1>1 DEF Place
<1>3. CASE Interrupted(p)
  <2>1. PICK place \in {"dial", "wait", "classify", "sleep"} : Goes(p, place, "exit")
    BY <1>3 DEF Interrupted
  <2> QED
    BY <2>1, <1>1 DEF Place
<1>4. CASE Dial(p)
  <2>1. PICK place \in {"attach", "classify"} : Goes(p, "dial", place)
    BY <1>4 DEF Dial
  <2> QED
    BY <2>1, <1>1, <1>4 DEF Place, Dial
<1>5. CASE StartCycle(p)
  BY <1>1, <1>5 DEF Place, StartCycle
<1>6. CASE Wakes(p)
  BY <1>1, <1>6 DEF Place, Wakes
<1>7. CASE Classify(p)
  <2>1. PICK place \in {"halting", "pausing", "sleep"} : Goes(p, "classify", place)
    BY <1>7 DEF Classify
  <2> QED
    BY <2>1, <1>1, <1>7 DEF Place, Classify
<1>8. CASE DialFails(p) \/ CycleHalts(p) \/ CycleFails(p) \/ ClassifyFails(p) \/ GoesSilent(p)
  <2>1. disruptions' \in 0..MaxDisruptions
    BY <1>8, SessionsAssumption
    DEF DialFails, CycleHalts, CycleFails, ClassifyFails, GoesSilent, Disrupt
  <2>2. \/ at[p] = "dial" /\ Move(p, "classify")
        \/ at[p] = "cycling" /\ Move(p, "halting")
        \/ at[p] = "cycling" /\ Move(p, "classify")
        \/ at[p] = "classify" /\ Move(p, "sleep")
        \/ at[p] = "cycling" /\ Move(p, "silent")
    BY <1>8 DEF DialFails, CycleHalts, CycleFails, ClassifyFails, GoesSilent
  <2>3. UNCHANGED store /\ DaemonOnly
    BY <1>8 DEF DialFails, CycleHalts, CycleFails, ClassifyFails, GoesSilent
  <2> QED
    BY <2>1, <2>2, <2>3 DEF QuietStep, Busy, Live, store, Place
<1>9. CASE Attach(p) \/ Commit(p) \/ Pause(p) \/ Halt(p)
  BY <1>9 DEF Attach, Commit, Pause, Halt, SetStatus, SaveStep, Save, Live, Place, Status
<1>10. CASE CompleteCycle(p)
  BY <1>10 DEF CompleteCycle, AncestorStep, Live, Place
<1>11. CASE writeSessionPID(p)
  <2>1. CASE drives[p] \in dir
    BY <1>11, <2>1 DEF writeSessionPID, EnterStep, Live, Place
  <2>2. CASE drives[p] \notin dir
    BY <1>11, <2>2 DEF writeSessionPID, QuietStep, Live, Place, store
  <2> QED
    BY <2>1, <2>2
<1>12. CASE removeSessionPID(p)
  BY <1>12 DEF removeSessionPID, LeaveStep, Live, Place
<1>13. CASE SpeaksAgain(p)
  BY <1>13 DEF SpeaksAgain, Goes, QuietStep, Busy, Live, store, Place
<1> QED
  BY <1>2, <1>3, <1>4, <1>5, <1>6, <1>7, <1>8, <1>9, <1>10, <1>11, <1>12, <1>13
  DEF DaemonStep, Run

-----------------------------------------------------------------------------
(***************************************************************************)
(* Types.                                                                  *)
(***************************************************************************)

LEMMA InitTypes == Init => TypesInv
<1>1. (CHOOSE i \in Id : TRUE) \in Id
  BY SessionsAssumption
<1> QED
  BY <1>1, SessionsAssumption DEF Init, TypesInv, KnownSessions, Status, Place, SandboxState

LEMMA RunTypes ==
  ASSUME TypesInv, NEW p \in Daemon, DaemonStep(p)
  PROVE  TypesInv'
<1>1. /\ Live(p)
      /\ UNCHANGED <<drives, cancelled, sandbox, commands, typed, raced>>
      /\ at' = [at EXCEPT ![p] = at'[p]] /\ at'[p] \in Place \ {"unused"}
      /\ disruptions' \in 0..MaxDisruptions
  BY RunCases
<1>2. at' \in [Daemon -> Place]
  BY <1>1 DEF TypesInv
<1>3. drives[p] \in Id /\ drives[p] \in created
  BY <1>1 DEF TypesInv, KnownSessions, Live
<1>4. created' = created
  BY RunCases DEF QuietStep, SaveStep, AncestorStep, EnterStep, LeaveStep, Save, store
<1>5. KnownSessions'
  BY <1>1, <1>4 DEF TypesInv, KnownSessions, Live
<1>6. /\ record' \in [Id -> Status \union {"missing"}]
      /\ dir' \subseteq created
      /\ pidFile' \in [Id -> SUBSET Daemon]
      /\ \A i \in Id : record'[i] # "missing" \/ pidFile'[i] # {} => i \in dir'
      /\ \A i \in Id : \A q, r \in pidFile'[i] : q = r
  <2>1. CASE QuietStep(p)
    BY <2>1 DEF QuietStep, store, TypesInv
  <2>2. CASE SaveStep(p)
    BY <2>2, <1>3 DEF SaveStep, Save, TypesInv
  <2>3. CASE AncestorStep(p)
    BY <2>3, <1>3 DEF AncestorStep, TypesInv
  <2>4. CASE EnterStep(p)
    BY <2>4, <1>3 DEF EnterStep, TypesInv
  <2>5. CASE LeaveStep(p)
    BY <2>5, <1>3 DEF LeaveStep, TypesInv
  <2> QED
    BY <2>1, <2>2, <2>3, <2>4, <2>5, RunCases
<1> QED
  BY <1>1, <1>2, <1>4, <1>5, <1>6 DEF TypesInv

\* A command that is typed has read the record of a session.
LEMMA CommandAtTyped ==
  ASSUME TypesInv, NEW i \in Id,
         NEW step \in {"check", "clear", "save", "spawn", "launch", "remove", "recover", "resolve"}
  PROVE  /\ CommandAt(step, i) \in Command
         /\ CommandAt(step, i).step = step
         /\ CommandAt(step, i).id = i
         /\ CommandAt(step, i).read = record[i]
BY DEF CommandAt, Command, TypesInv

\* Typing commands about sessions that are there leaves the rest as it is.
LEMMA TypesKept ==
  ASSUME TypesInv, NEW cs \in SUBSET Command, Types(cs),
         UNCHANGED <<store, at, drives, disruptions, raced>>,
         cancelled' \subseteq Daemon, sandbox' \in [Sandbox -> SandboxState],
         \A c \in cs :
           /\ c.step \in Starting <=> c.id \notin created
           /\ c.step \in {"recover", "resolve"} => c.read # "missing"
           /\ c.step \in Starting \union {"spawn", "launch"} => c.read # "halted",
         \A c \in commands \union cs, d \in cs :
           c.step \in Starting /\ d.step \in Starting /\ c.id = d.id => c = d
  PROVE  TypesInv'
<1>1. typed' \in 0..MaxCommands
  BY SessionsAssumption DEF Types, TypesInv
<1>2. commands' = commands \union cs
  BY DEF Types
<1>3. commands' \subseteq Command
  BY <1>2 DEF TypesInv
<1>4. KnownSessions'
  BY <1>2 DEF KnownSessions, TypesInv, store
<1> QED
  BY <1>1, <1>3, <1>4 DEF TypesInv, store

\* A command that ends leaves the others.
LEMMA EndsKept ==
  ASSUME TypesInv, NEW c \in commands, Ends(c)
  PROVE  /\ commands' \subseteq commands /\ typed' = typed
         /\ created' = created /\ at' = at /\ drives' = drives => KnownSessions'
BY DEF Ends, TypesInv, KnownSessions

LEMMA TypedTypes ==
  ASSUME TypesInv,
         \/ \E i \in Id : Start(i) \/ Stop(i) \/ Recover(i) \/ Resolve(i)
         \/ ResumeAll
  PROVE  TypesInv'
<1> USE DEF Starting
<1>1. ASSUME NEW i \in Id, Start(i)
      PROVE  TypesInv'
  <2> DEFINE listed == {j \in Overlapping[i] : record[j] # "missing"}
             c == [CommandAt("check", i) EXCEPT !.listed = listed]
  <2>1. record[i] = "missing"
    BY <1>1 DEF Start, TypesInv
  <2>2. listed \subseteq Id
    BY SessionsAssumption
  <2>3. CommandAt("check", i) \in Command
    BY CommandAtTyped
  <2>4. c \in Command /\ c.step = "check" /\ c.id = i /\ c.read = "missing"
    <3> HIDE DEF listed
    <3> QED
      BY <2>1, <2>2, <2>3, CommandAtTyped DEF Command
  <2>5. sandbox' \in [Sandbox -> SandboxState]
    BY <1>1, SessionsAssumption DEF Start, TypesInv, SandboxState
  <2>6. i \notin created /\ \A d \in commands : d.id # i
    BY <1>1 DEF Start
  <2>7. Types({c}) /\ UNCHANGED <<store, at, drives, cancelled, disruptions, raced>>
    BY <1>1 DEF Start, daemons
  <2>8. cancelled' \subseteq Daemon
    BY <2>7 DEF TypesInv
  <2> HIDE DEF c
  <2> QED
    BY <2>4, <2>5, <2>6, <2>7, <2>8, TypesKept
<1>2. ASSUME NEW i \in Id, NEW step \in {"remove", "recover", "resolve"},
             record[i] # "missing", Types({CommandAt(step, i)}),
             UNCHANGED <<store, at, drives, sandbox, disruptions, raced>>,
             cancelled' \subseteq Daemon
      PROVE  TypesInv'
  <2>1. i \in created
    BY <1>2 DEF TypesInv
  <2>2. sandbox' \in [Sandbox -> SandboxState]
    BY <1>2 DEF TypesInv
  <2> QED
    BY <1>2, <2>1, <2>2, CommandAtTyped, TypesKept
<1>3. ASSUME NEW i \in Id, Stop(i)
      PROVE  TypesInv'
  BY <1>2, <1>3 DEF Stop, signalSession, TypesInv
<1>4. ASSUME NEW i \in Id, Recover(i)
      PROVE  TypesInv'
  BY <1>2, <1>4 DEF Recover, daemons, TypesInv
<1>5. ASSUME NEW i \in Id, Resolve(i)
      PROVE  TypesInv'
  BY <1>2, <1>5 DEF Resolve, daemons, TypesInv
<1>6. CASE ResumeAll
  <2> DEFINE cs == {CommandAt("launch", i) : i \in {j \in Id : record[j] \notin {"missing", "halted"}}}
  <2>1. /\ cs \in SUBSET Command
        /\ \A c \in cs : c.step = "launch" /\ c.id \in created /\ c.read # "halted"
    BY CommandAtTyped DEF TypesInv
  <2>2. Types(cs) /\ UNCHANGED <<store, at, drives, cancelled, sandbox, disruptions, raced>>
    BY <1>6 DEF ResumeAll, daemons
  <2>3. cancelled' \subseteq Daemon /\ sandbox' \in [Sandbox -> SandboxState]
    BY <2>2 DEF TypesInv
  <2> HIDE DEF cs
  <2> QED
    BY <2>1, <2>2, <2>3, TypesKept
<1> QED
  BY <1>1, <1>3, <1>4, <1>5, <1>6

\* A command that goes on keeps its session, and what it has read.
LEMMA BecomesKept ==
  ASSUME TypesInv, NEW c \in commands, NEW d \in Command, Becomes(c, d),
         d.id = c.id, d.read = c.read, c.step \in Starting, d.step \in Starting \union {"spawn"},
         at' = at, drives' = drives, created \subseteq created', created' \subseteq created \union {c.id},
         d.step \in Starting <=> c.id \notin created'
  PROVE  commands' \subseteq Command /\ typed' = typed /\ KnownSessions'
<1>1. commands' = (commands \ {c}) \union {d} /\ typed' = typed
  BY DEF Becomes
<1>2. ASSUME NEW e \in commands'
      PROVE  /\ e.step \in Starting <=> e.id \notin created'
             /\ e.step \in {"recover", "resolve"} => e.read # "missing"
             /\ e.step \in Starting \union {"spawn", "launch"} => e.read # "halted"
  <2>1. CASE e = d
    BY <2>1 DEF TypesInv, KnownSessions, Starting
  <2>2. CASE e # d
    BY <1>1, <2>2 DEF TypesInv, KnownSessions, Starting
  <2> QED
    BY <2>1, <2>2
<1>3. \A e, o \in commands' : e.step \in Starting /\ o.step \in Starting /\ e.id = o.id => e = o
  BY <1>1 DEF TypesInv, KnownSessions, Starting
<1>4. \A p \in Daemon : at'[p] # "unused" => drives'[p] \in created'
  BY DEF TypesInv, KnownSessions
<1> QED
  BY <1>1, <1>2, <1>3, <1>4 DEF TypesInv, KnownSessions

\* A launch takes a process id that was never used.
LEMMA Launched ==
  ASSUME TypesInv, NEW c \in commands, NEW place \in {"load", "pid"}, startDetached(c, place),
         c.id \in created, Ends(c)
  PROVE  /\ TypesInv'
         /\ UNCHANGED <<store, cancelled, sandbox, disruptions>>
         /\ \E p \in Daemon :
              /\ at[p] = "unused"
              /\ at' = [at EXCEPT ![p] = place]
              /\ drives' = [drives EXCEPT ![p] = c.id]
              /\ raced \subseteq raced' /\ raced' \subseteq raced \union {"launched twice", "halt missed"}
              /\ LiveFor(c.id) # {} => "launched twice" \in raced'
              /\ record[c.id] = "halted" /\ c.read # "halted" => "halt missed" \in raced'
<1>1. PICK p \in Daemon :
        /\ at[p] = "unused"
        /\ Move(p, place)
        /\ drives' = [drives EXCEPT ![p] = c.id]
        /\ raced' = raced
             \union (IF LiveFor(c.id) # {} THEN {"launched twice"} ELSE {})
             \union (IF record[c.id] = "halted" /\ c.read # "halted" THEN {"halt missed"} ELSE {})
        /\ UNCHANGED <<store, cancelled, sandbox, disruptions>>
  BY DEF startDetached
<1>2. c.id \in Id
  BY DEF TypesInv
<1>3. at' \in [Daemon -> Place] /\ drives' \in [Daemon -> Id]
  BY <1>1, <1>2 DEF TypesInv, Move, Place
<1>4. raced' \subseteq Race
  BY <1>1 DEF TypesInv, Race
<1>5. commands' \subseteq commands /\ typed' = typed
  BY EndsKept
<1>6. KnownSessions'
  <2>1. \A q \in Daemon : at'[q] # "unused" => drives'[q] \in created'
    BY <1>1 DEF TypesInv, KnownSessions, Move, store
  <2> QED
    BY <1>1, <1>5, <2>1 DEF TypesInv, KnownSessions, store
<1>7. commands' \subseteq Command
  BY <1>5 DEF TypesInv
<1>8. TypesInv'
  BY <1>1, <1>3, <1>4, <1>5, <1>6, <1>7 DEF TypesInv, store
<1> QED
  BY <1>1, <1>8 DEF Move

LEMMA CommandTypes ==
  ASSUME TypesInv, NEW c \in commands,
         ClearGone(c) \/ Create(c) \/ Spawn(c) \/ Remove(c) \/ Rewrite(c) \/ Launch(c) \/ GiveUp(c)
  PROVE  TypesInv'
<1> USE DEF Starting
<1>c. c \in Command
  BY DEF TypesInv
<1>1. CASE ClearGone(c)
  <2>1. PICK j \in c.listed :
          /\ signalSession(j)
          /\ Becomes(c, [c EXCEPT !.step = "clear", !.victim = j, !.listed = @ \ {j}])
    BY <1>1 DEF ClearGone
  <2> DEFINE d == [c EXCEPT !.step = "clear", !.victim = j, !.listed = @ \ {j}]
  <2>2. d \in Command /\ d.id = c.id /\ d.read = c.read /\ d.step = "clear"
    BY <1>c DEF Command
  <2>3. c.step = "check" /\ UNCHANGED <<store, at, drives, sandbox, disruptions, raced>>
    BY <1>1 DEF ClearGone
  <2>4. c.id \notin created
    BY <2>3 DEF TypesInv, KnownSessions
  <2>5. cancelled' \subseteq Daemon
    <3>1. j \in Id
      BY <1>c DEF Command
    <3> QED
      BY <2>1, <3>1 DEF signalSession, TypesInv
  <2>6. Becomes(c, d)
    BY <2>1
  <2>7. created' = created
    BY <2>3 DEF store
  <2> HIDE DEF d
  <2>8. commands' \subseteq Command /\ typed' = typed /\ KnownSessions'
    BY <2>2, <2>3, <2>4, <2>6, <2>7, BecomesKept
  <2> QED
    BY <2>3, <2>5, <2>8 DEF TypesInv, store
<1>2. CASE Create(c)
  <2> DEFINE d == [c EXCEPT !.step = "spawn"]
  <2>1. /\ c.step = "check" /\ Becomes(c, d)
        /\ record' = [record EXCEPT ![c.id] = "idle"]
        /\ dir' = dir \union {c.id} /\ created' = created \union {c.id}
        /\ UNCHANGED <<pidFile, at, drives, cancelled, sandbox, disruptions>>
    BY <1>2 DEF Create, daemons
  <2>2. d \in Command /\ d.id = c.id /\ d.read = c.read /\ d.step = "spawn" /\ c.id \in Id
    BY <1>c DEF Command
  <2>3. raced' \subseteq Race
    BY <1>2 DEF Create, Noted, TypesInv, Race
  <2> HIDE DEF d
  <2>4. commands' \subseteq Command /\ typed' = typed /\ KnownSessions'
    BY <2>1, <2>2, BecomesKept
  <2> QED
    BY <2>1, <2>2, <2>3, <2>4 DEF TypesInv, Status
<1>3. CASE Spawn(c)
  <2>1. c.id \in created /\ Ends(c) /\ (startDetached(c, "load") \/ startDetached(c, "pid"))
    BY <1>3 DEF Spawn, TypesInv, KnownSessions
  <2> QED
    BY <2>1, Launched
<1>4. CASE Remove(c)
  <2>1. /\ record' = [record EXCEPT ![c.victim] = "missing"]
        /\ dir' = dir \ {c.victim}
        /\ pidFile' = [pidFile EXCEPT ![c.victim] = {}]
        /\ UNCHANGED <<created, at, drives, cancelled, sandbox, disruptions>>
    BY <1>4 DEF Remove, daemons
  <2>2. raced' \subseteq Race
    BY <1>4 DEF Remove, Noted, TypesInv, Race
  <2>3. commands' \subseteq Command /\ typed' = typed /\ KnownSessions'
    <3>1. CASE c.step = "clear"
      <4> DEFINE d == [c EXCEPT !.step = "check"]
      <4>1. d \in Command /\ d.id = c.id /\ d.read = c.read /\ d.step = "check"
        BY <1>c DEF Command
      <4>2. Becomes(c, d)
        BY <1>4, <3>1 DEF Remove
      <4>3. c.id \notin created
        BY <3>1 DEF TypesInv, KnownSessions
      <4> HIDE DEF d
      <4> QED
        BY <2>1, <3>1, <4>1, <4>2, <4>3, BecomesKept
    <3>2. CASE c.step # "clear"
      <4>1. Ends(c)
        BY <1>4, <3>2 DEF Remove
      <4> QED
        BY <2>1, <4>1, EndsKept DEF TypesInv
    <3> QED
      BY <3>1, <3>2
  <2> QED
    BY <2>1, <2>2, <2>3 DEF TypesInv
<1>5. CASE Rewrite(c)
  <2>1. PICK status \in Status \union {"missing"} : Save(c.id, status)
    BY <1>5, <1>c DEF Rewrite, Command, Status
  <2>2. Ends(c) /\ UNCHANGED <<at, drives, cancelled, sandbox, disruptions>>
    BY <1>5 DEF Rewrite, daemons
  <2>3. c.id \in created /\ c.id \in Id
    BY <1>5, <1>c DEF Rewrite, TypesInv, KnownSessions
  <2>4. raced' \subseteq Race
    BY <1>5 DEF Rewrite, Noted, TypesInv, Race
  <2>5. commands' \subseteq Command /\ typed' = typed /\ KnownSessions'
    BY <2>1, <2>2, EndsKept DEF Save, TypesInv
  <2> QED
    BY <2>1, <2>2, <2>3, <2>4, <2>5 DEF TypesInv, Save
<1>6. CASE Launch(c)
  <2>1. c.id \in created /\ Ends(c)
    BY <1>6 DEF Launch, TypesInv, KnownSessions
  <2>2. CASE startDetached(c, "load")
    BY <2>1, <2>2, Launched
  <2>3. CASE UNCHANGED <<store, daemons, sandbox, disruptions, raced>>
    <3>1. commands' \subseteq Command /\ typed' = typed /\ KnownSessions'
      BY <2>1, <2>3, EndsKept DEF TypesInv, store, daemons
    <3> QED
      BY <2>3, <3>1 DEF TypesInv, store, daemons
  <2> QED
    BY <1>6, <2>2, <2>3 DEF Launch
<1>7. CASE GiveUp(c)
  <2>1. commands' \subseteq Command /\ typed' = typed /\ KnownSessions'
    BY <1>7, EndsKept DEF GiveUp, TypesInv, store, daemons
  <2> QED
    BY <1>7, <2>1 DEF GiveUp, TypesInv, store, daemons
<1> QED
  BY <1>1, <1>2, <1>3, <1>4, <1>5, <1>6, <1>7

LEMMA WorldTypes ==
  ASSUME TypesInv,
         \/ \E p \in Daemon : Crash(p)
         \/ \E b \in Sandbox : SandboxChanges(b)
  PROVE  TypesInv'
<1>1. disruptions' \in 0..MaxDisruptions
  BY SessionsAssumption DEF Crash, SandboxChanges, Disrupt, TypesInv
<1>2. CASE \E p \in Daemon : Crash(p)
  <2>1. PICK p \in Daemon : Crash(p)
    BY <1>2
  <2>2. at' \in [Daemon -> Place]
    BY <2>1 DEF Crash, Move, TypesInv, Place
  <2>3. KnownSessions'
    BY <2>1 DEF Crash, Move, Live, TypesInv, KnownSessions, store
  <2> QED
    BY <1>1, <2>1, <2>2, <2>3 DEF Crash, TypesInv, store
<1>3. CASE \E b \in Sandbox : SandboxChanges(b)
  <2>1. sandbox' \in [Sandbox -> SandboxState]
    BY <1>3 DEF SandboxChanges, TypesInv
  <2>2. UNCHANGED <<store, daemons, commands, typed, raced>>
    BY <1>3 DEF SandboxChanges
  <2> QED
    BY <1>1, <2>1, <2>2 DEF TypesInv, KnownSessions, store, daemons
<1> QED
  BY <1>2, <1>3

LEMMA NextTypes ==
  ASSUME TypesInv, [Next]_vars
  PROVE  TypesInv'
<1>1. CASE UNCHANGED vars
  BY <1>1 DEF vars, store, daemons, TypesInv, KnownSessions
<1> QED
  BY <1>1, RunTypes, TypedTypes, CommandTypes, WorldTypes DEF Next

LEMMA TypesSayTypeOK == TypesInv => TypeOK
<1> SUFFICES ASSUME TypesInv
             PROVE  TypeOK
  OBVIOUS
<1>1. ASSUME NEW i \in Id
      PROVE  Cardinality(pidFile[i]) <= 1
  <2>1. CASE pidFile[i] = {}
    BY <2>1, FS_EmptySet
  <2>2. CASE pidFile[i] # {}
    <3>1. PICK p \in pidFile[i] : TRUE
      BY <2>2
    <3>2. pidFile[i] = {p}
      BY <3>1 DEF TypesInv
    <3>3. Cardinality({p}) = 1
      BY FS_Singleton
    <3> QED
      BY <3>2, <3>3
  <2> QED
    BY <2>1, <2>2
<1> QED
  BY <1>1 DEF TypesInv, TypeOK

\* Types, and the layout of a session's directory: session.json and the pid file
\* are in it and the pid file names one daemon, whatever daemons and commands do
\* (Store, writeSessionPID, removeSessionPID).
THEOREM SessionsTyped == Spec => []TypeOK
<1>1. Init => TypesInv
  BY InitTypes
<1>2. TypesInv /\ [Next]_vars => TypesInv'
  BY NextTypes
<1>3. TypesInv => TypeOK
  BY TypesSayTypeOK
<1> QED
  BY <1>1, <1>2, <1>3, PTL DEF Spec

-----------------------------------------------------------------------------
(***************************************************************************)
(* The other steps, by what they do to files, daemons and races.           *)
(***************************************************************************)

\* It changes neither, but for daemons it interrupts.
StillStep ==
  /\ UNCHANGED <<store, at, drives, raced>>
  /\ cancelled \subseteq cancelled'

\* It launches a daemon for the session of c.
LaunchStep(c) ==
  /\ UNCHANGED <<store, cancelled>>
  /\ c.id \in created /\ c.read # "halted"
  /\ \E p \in Daemon :
       /\ at[p] = "unused"
       /\ at' = [at EXCEPT ![p] = at'[p]] /\ at'[p] \in {"load", "pid"}
       /\ drives' = [drives EXCEPT ![p] = c.id]
       /\ raced \subseteq raced' /\ raced' \subseteq raced \union {"launched twice", "halt missed"}
       /\ LiveFor(c.id) # {} => "launched twice" \in raced'
       /\ record[c.id] = "halted" => "halt missed" \in raced'

LEMMA LaunchCases ==
  ASSUME TypesInv, NEW c \in commands, Spawn(c) \/ Launch(c)
  PROVE  LaunchStep(c) \/ StillStep
<1>1. c.step \in {"spawn", "launch"} /\ Ends(c)
  BY DEF Spawn, Launch
<1>2. c.id \in created /\ c.read # "halted"
  BY <1>1 DEF TypesInv, KnownSessions, Starting
<1>3. ASSUME NEW place \in {"load", "pid"}, startDetached(c, place)
      PROVE  LaunchStep(c)
  <2>1. /\ UNCHANGED <<store, cancelled>>
        /\ \E p \in Daemon :
              /\ at[p] = "unused"
              /\ at' = [at EXCEPT ![p] = place]
              /\ drives' = [drives EXCEPT ![p] = c.id]
              /\ raced \subseteq raced' /\ raced' \subseteq raced \union {"launched twice", "halt missed"}
              /\ LiveFor(c.id) # {} => "launched twice" \in raced'
              /\ record[c.id] = "halted" /\ c.read # "halted" => "halt missed" \in raced'
    BY <1>1, <1>2, <1>3, Launched
  <2> QED
    BY <1>2, <2>1 DEF LaunchStep, TypesInv
<1>4. CASE UNCHANGED <<store, daemons, sandbox, disruptions, raced>>
  BY <1>4 DEF StillStep, daemons
<1> QED
  BY <1>3, <1>4 DEF Spawn, Launch

LEMMA NextCases ==
  ASSUME TypesInv, [Next]_vars
  PROVE  \/ StillStep
         \/ \E p \in Daemon : DaemonStep(p) \/ Crash(p)
         \/ \E c \in commands : Create(c) \/ Remove(c) \/ Rewrite(c) \/ LaunchStep(c)
<1>1. CASE UNCHANGED vars
  BY <1>1 DEF vars, daemons, StillStep
<1>2. CASE \E i \in Id : Start(i) \/ Stop(i) \/ Recover(i) \/ Resolve(i)
  BY <1>2 DEF Start, Stop, Recover, Resolve, signalSession, daemons, StillStep
<1>3. CASE ResumeAll
  BY <1>3 DEF ResumeAll, daemons, StillStep
<1>4. CASE \E b \in Sandbox : SandboxChanges(b)
  BY <1>4 DEF SandboxChanges, daemons, StillStep
<1>5. ASSUME NEW c \in commands, ClearGone(c) \/ GiveUp(c)
      PROVE  StillStep
  BY <1>5 DEF ClearGone, GiveUp, signalSession, daemons, StillStep
<1> QED
  BY <1>1, <1>2, <1>3, <1>4, <1>5, LaunchCases DEF Next

\* What raced stays raced.
LEMMA RacedGrows ==
  ASSUME TypesInv, [Next]_vars
  PROVE  raced \subseteq raced'
<1>1. ASSUME NEW p \in Daemon, DaemonStep(p) \/ Crash(p)
      PROVE  raced' = raced
  BY <1>1, RunCases DEF Crash
<1>2. ASSUME NEW c \in commands, Create(c) \/ Remove(c) \/ Rewrite(c) \/ LaunchStep(c)
      PROVE  raced \subseteq raced'
  BY <1>2 DEF Create, Remove, Rewrite, LaunchStep, Noted
<1> QED
  BY <1>1, <1>2, NextCases DEF StillStep

-----------------------------------------------------------------------------
(***************************************************************************)
(* Safety.                                                                 *)
(***************************************************************************)

LEMMA OneDaemonKept ==
  ASSUME TypesInv, OneDaemon, [Next]_vars
  PROVE  OneDaemon'
<1> SUFFICES ASSUME "launched twice" \notin raced',
                    NEW q \in Daemon, NEW r \in Daemon, Live(q)', Live(r)', drives'[q] = drives'[r]
             PROVE  q = r
  BY DEF OneDaemon
<1>1. "launched twice" \notin raced
  BY RacedGrows
<1>2. ASSUME \A p \in {q, r} : Live(p) /\ drives'[p] = drives[p]
      PROVE  q = r
  BY <1>1, <1>2 DEF OneDaemon
<1>3. ASSUME NEW p \in Daemon, DaemonStep(p) \/ Crash(p)
      PROVE  q = r
  <2>1. Live(p) /\ drives' = drives /\ at' = [at EXCEPT ![p] = at'[p]]
    BY <1>3, RunCases DEF Crash, Move, TypesInv
  <2> QED
    BY <1>2, <2>1 DEF Live, TypesInv
<1>4. ASSUME NEW c \in commands, LaunchStep(c)
      PROVE  q = r
  <2>1. PICK p \in Daemon :
          /\ at[p] = "unused"
          /\ at' = [at EXCEPT ![p] = at'[p]]
          /\ drives' = [drives EXCEPT ![p] = c.id]
          /\ LiveFor(c.id) # {} => "launched twice" \in raced'
    BY <1>4 DEF LaunchStep
  <2>2. \A o \in Daemon : o # p /\ Live(o)' => Live(o) /\ drives'[o] = drives[o] /\ drives[o] # c.id
    BY <2>1 DEF Live, LiveFor, TypesInv
  <2> QED
    BY <1>2, <2>1, <2>2 DEF TypesInv
<1>5. ASSUME UNCHANGED <<at, drives>>
      PROVE  q = r
  BY <1>2, <1>5 DEF Live
<1> QED
  BY <1>3, <1>4, <1>5, NextCases DEF StillStep, Create, Remove, Rewrite, daemons

\* A daemon that may write has its session's record.
LEMMA PresentHas ==
  ASSUME Present, "removed while busy" \notin raced, NEW p \in Daemon, Live(p),
         at[p] \in {"attach", "cycling", "commit", "pausing", "halting"}
  PROVE  record[drives[p]] # "missing"
BY DEF Present, Busy

LEMMA PresentKept ==
  ASSUME TypesInv, TypesInv', Present, [Next]_vars
  PROVE  Present'
<1> SUFFICES ASSUME "removed while busy" \notin raced'
             PROVE  /\ \A q \in Daemon : Live(q)' /\ Busy(q)' => record'[drives'[q]] # "missing"
                    /\ \A i \in dir' : record'[i] # "missing"
  BY DEF Present
<1>1. "removed while busy" \notin raced
  BY RacedGrows
<1>2. /\ \A q \in Daemon : Live(q) /\ Busy(q) => record[drives[q]] # "missing"
      /\ \A i \in dir : record[i] # "missing"
  BY <1>1 DEF Present
<1>3. ASSUME NEW p \in Daemon, DaemonStep(p)
      PROVE  /\ \A q \in Daemon : Live(q)' /\ Busy(q)' => record'[drives'[q]] # "missing"
             /\ \A i \in dir' : record'[i] # "missing"
  <2>1. /\ Live(p) /\ UNCHANGED <<drives, cancelled>> /\ at' = [at EXCEPT ![p] = at'[p]]
        /\ QuietStep(p) \/ SaveStep(p) \/ AncestorStep(p) \/ EnterStep(p) \/ LeaveStep(p)
    BY <1>3, RunCases
  <2>2. \A q \in Daemon : q # p => Live(q)' = Live(q) /\ Busy(q)' = Busy(q)
    BY <2>1 DEF Live, Busy, TypesInv
  <2>3. drives[p] \in Id
    BY DEF TypesInv
  <2>4. CASE QuietStep(p)
    BY <1>2, <2>1, <2>2, <2>4 DEF QuietStep, store
  <2>5. CASE SaveStep(p)
    <3>1. PICK status \in Status : record' = [record EXCEPT ![drives[p]] = status]
      BY <2>5 DEF SaveStep, Save
    <3>2. dir' = dir \union {drives[p]}
      BY <2>5 DEF SaveStep, Save
    <3>3. \A i \in Id : record[i] # "missing" \/ i = drives[p] => record'[i] # "missing"
      BY <2>3, <3>1 DEF Status, TypesInv
    <3>4. \A q \in Daemon : drives[q] \in Id /\ (q = p => drives[q] = drives[p])
      BY DEF TypesInv
    <3>5. dir \subseteq Id
      BY DEF TypesInv
    <3> QED
      BY <1>2, <2>1, <2>2, <2>3, <3>2, <3>3, <3>4, <3>5
  <2>6. CASE AncestorStep(p)
    <3>1. record[drives[p]] # "missing"
      BY <1>1, <2>1, <2>6, PresentHas DEF AncestorStep
    <3> QED
      BY <1>2, <2>1, <2>2, <2>6, <3>1 DEF AncestorStep
  <2>7. CASE EnterStep(p) \/ LeaveStep(p)
    <3>1. UNCHANGED <<record, dir>> /\ (Live(p)' => drives[p] \in dir)
      BY <2>7 DEF EnterStep, LeaveStep, Live
    <3> QED
      BY <1>2, <2>1, <2>2, <3>1
  <2> QED
    BY <2>1, <2>4, <2>5, <2>6, <2>7
<1>4. ASSUME NEW p \in Daemon, Crash(p)
      PROVE  /\ \A q \in Daemon : Live(q)' /\ Busy(q)' => record'[drives'[q]] # "missing"
             /\ \A i \in dir' : record'[i] # "missing"
  BY <1>2, <1>4 DEF Crash, Move, Live, Busy, TypesInv, store
<1>5. CASE StillStep
  BY <1>2, <1>5 DEF StillStep, Live, Busy, store
<1>6. ASSUME NEW c \in commands, Create(c)
      PROVE  /\ \A q \in Daemon : Live(q)' /\ Busy(q)' => record'[drives'[q]] # "missing"
             /\ \A i \in dir' : record'[i] # "missing"
  <2>1. c.id \in Id
    BY DEF TypesInv, Command
  <2>2. /\ UNCHANGED <<at, drives, cancelled>>
        /\ record' = [record EXCEPT ![c.id] = "idle"] /\ dir' = dir \union {c.id}
    BY <1>6 DEF Create, daemons
  <2>3. dir \subseteq Id
    BY DEF TypesInv
  <2> QED
    BY <1>2, <2>1, <2>2, <2>3 DEF Live, Busy, TypesInv
<1>7. ASSUME NEW c \in commands, Remove(c)
      PROVE  /\ \A q \in Daemon : Live(q)' /\ Busy(q)' => record'[drives'[q]] # "missing"
             /\ \A i \in dir' : record'[i] # "missing"
  <2>1. /\ UNCHANGED <<at, drives, cancelled>>
        /\ record' = [record EXCEPT ![c.victim] = "missing"] /\ dir' = dir \ {c.victim}
        /\ ~\E q \in LiveFor(c.victim) : Busy(q)
    BY <1>7 DEF Remove, daemons, Noted
  <2>2. \A q \in Daemon : Live(q) /\ Busy(q) => drives[q] # c.victim
    BY <2>1 DEF LiveFor
  <2>3. dir \subseteq Id
    BY DEF TypesInv
  <2> QED
    BY <1>2, <2>1, <2>2, <2>3 DEF Live, Busy, TypesInv
<1>8. ASSUME NEW c \in commands, Rewrite(c)
      PROVE  /\ \A q \in Daemon : Live(q)' /\ Busy(q)' => record'[drives'[q]] # "missing"
             /\ \A i \in dir' : record'[i] # "missing"
  <2>1. PICK status \in Status : Save(c.id, status)
    BY <1>8 DEF Rewrite, TypesInv, KnownSessions, Command, Status
  <2>2. UNCHANGED <<at, drives, cancelled>>
    BY <1>8 DEF Rewrite, daemons
  <2>3. dir \subseteq Id /\ c.id \in Id /\ status # "missing"
    BY DEF TypesInv, Command, Status
  <2>4. /\ dir' = dir \union {c.id}
        /\ \A i \in Id : record'[i] = IF i = c.id THEN status ELSE record[i]
    <3>1. DOMAIN record = Id
      BY DEF TypesInv
    <3> QED
      BY <2>1, <2>3, <3>1 DEF Save
  <2>5. \A q \in Daemon : Live(q)' /\ Busy(q)' => Live(q) /\ Busy(q) /\ drives[q] \in Id
    BY <2>2 DEF Live, Busy, TypesInv
  <2> QED
    BY <1>2, <2>2, <2>3, <2>4, <2>5
<1>9. ASSUME NEW c \in commands, LaunchStep(c)
      PROVE  /\ \A q \in Daemon : Live(q)' /\ Busy(q)' => record'[drives'[q]] # "missing"
             /\ \A i \in dir' : record'[i] # "missing"
  <2>1. PICK p \in Daemon :
          /\ at' = [at EXCEPT ![p] = at'[p]] /\ at'[p] \in {"load", "pid"}
          /\ drives' = [drives EXCEPT ![p] = c.id]
    BY <1>9 DEF LaunchStep
  <2>2. record' = record /\ dir' = dir /\ cancelled' = cancelled
    BY <1>9 DEF LaunchStep, store
  <2>3. ~Busy(p)'
    BY <2>1 DEF Busy
  <2>4. \A q \in Daemon : q # p => at'[q] = at[q] /\ drives'[q] = drives[q]
    BY <2>1 DEF TypesInv
  <2> QED
    BY <1>2, <2>2, <2>3, <2>4 DEF Live, Busy
<1> QED
  BY <1>3, <1>4, <1>5, <1>6, <1>7, <1>8, <1>9, NextCases

\* A daemon that saves a record, or an ancestor, saves one that is there.
LEMMA SaversPresent ==
  ASSUME TypesInv, Present, "removed while busy" \notin raced, NEW p \in Daemon, Live(p),
         SaveStep(p) \/ AncestorStep(p)
  PROVE  record[drives[p]] # "missing" /\ drives[p] \in dir
<1>1. record[drives[p]] # "missing"
  BY PresentHas DEF SaveStep, AncestorStep
<1> QED
  BY <1>1 DEF TypesInv

\* A command that writes a record back finds the one it had read.
LEMMA RewritesWhatItRead ==
  ASSUME TypesInv, NEW c \in commands, Rewrite(c), "stale record" \notin raced'
  PROVE  /\ record[c.id] # "missing" /\ c.id \in dir /\ c.id \in Id
         /\ \/ c.step = "recover" /\ Save(c.id, "idle")
            \/ record' = record /\ UNCHANGED pidFile /\ dir' = dir
         /\ raced' = raced
<1>1. record[c.id] = c.read /\ c.read # "missing" /\ c.id \in Id
  BY DEF Rewrite, Noted, TypesInv, KnownSessions, Command
<1>2. c.id \in dir
  BY <1>1 DEF TypesInv
<1>3. raced' = raced
  BY DEF Rewrite, Noted
<1>4. CASE c.step = "recover"
  BY <1>1, <1>2, <1>3, <1>4 DEF Rewrite
<1>5. CASE c.step # "recover"
  <2>1. Save(c.id, record[c.id])
    BY <1>1, <1>5 DEF Rewrite
  <2>2. record' = record
    BY <2>1 DEF Save, TypesInv
  <2>3. UNCHANGED pidFile /\ dir' = dir
    BY <1>2, <2>1 DEF Save
  <2> QED
    BY <1>1, <1>2, <1>3, <2>2, <2>3
<1> QED
  BY <1>4, <1>5

LEMMA ApartKept ==
  ASSUME TypesInv, Present, Apart, [Next]_vars
  PROVE  Apart'
<1> DEFINE Excepted == {"removed while busy", "stale record", "overlap"}
<1> SUFFICES ASSUME raced' \cap Excepted = {}, NEW i \in Id, NEW j \in Overlapping[i],
                    record'[i] # "missing", record'[j] # "missing"
             PROVE  i = j
  BY DEF Apart
<1>1. raced \cap Excepted = {} /\ "removed while busy" \notin raced
  BY RacedGrows
<1>2. j \in Id /\ i \in Overlapping[j]
  BY SessionsAssumption
<1>3. ASSUME record[i] # "missing", record[j] # "missing"
      PROVE  i = j
  BY <1>1, <1>3 DEF Apart
<1>4. ASSUME NEW p \in Daemon, DaemonStep(p)
      PROVE  i = j
  <2>1. CASE SaveStep(p)
    <3>1. record[drives[p]] # "missing"
      BY <1>1, <1>4, <2>1, SaversPresent, RunCases
    <3>2. \A k \in Id : k # drives[p] => record'[k] = record[k]
      BY <2>1 DEF SaveStep, Save, TypesInv
    <3> QED
      BY <1>2, <1>3, <3>1, <3>2
  <2>2. CASE record' = record
    BY <1>3, <2>2
  <2> QED
    BY <1>4, <2>1, <2>2, RunCases DEF QuietStep, AncestorStep, EnterStep, LeaveStep, store
<1>5. ASSUME NEW c \in commands, Create(c)
      PROVE  i = j
  <2>1. /\ record' = [record EXCEPT ![c.id] = "idle"]
        /\ ~\E k \in Overlapping[c.id] : record[k] # "missing"
    BY <1>5 DEF Create, Noted
  <2>2. \A k \in Id : k # c.id => record'[k] = record[k]
    BY <2>1 DEF TypesInv
  <2> QED
    BY <1>2, <1>3, <2>1, <2>2
<1>6. ASSUME NEW c \in commands, Remove(c)
      PROVE  i = j
  <2>1. \A k \in Id : record'[k] # "missing" => record[k] # "missing"
    BY <1>6 DEF Remove, TypesInv
  <2> QED
    BY <1>2, <1>3, <2>1
<1>7. ASSUME NEW c \in commands, Rewrite(c)
      PROVE  i = j
  <2>1. record[c.id] # "missing"
    BY <1>7, RewritesWhatItRead
  <2>2. \A k \in Id : k # c.id => record'[k] = record[k]
    <3>1. PICK status : record' = [record EXCEPT ![c.id] = status]
      BY <1>7 DEF Rewrite, Save
    <3>2. DOMAIN record = Id
      BY DEF TypesInv
    <3> QED
      BY <3>1, <3>2
  <2> QED
    BY <1>2, <1>3, <2>1, <2>2
<1>8. CASE record' = record
  BY <1>3, <1>8
<1> QED
  BY <1>4, <1>5, <1>6, <1>7, <1>8, NextCases DEF StillStep, Crash, LaunchStep, store

LEMMA HaltSettledKept ==
  ASSUME TypesInv, OneDaemon, HaltSettled, [Next]_vars
  PROVE  HaltSettled'
<1> DEFINE Excepted == {"launched twice", "halt missed", "stale record"}
<1> SUFFICES ASSUME raced' \cap Excepted = {}, NEW q \in Daemon, Live(q)',
                    record'[drives'[q]] = "halted"
             PROVE  at'[q] = "exit"
  BY DEF HaltSettled
<1>1. raced \cap Excepted = {} /\ "launched twice" \notin raced
  BY RacedGrows
<1>2. /\ drives \in [Daemon -> Id] /\ at \in [Daemon -> Place]
      /\ record \in [Id -> Status \union {"missing"}]
  BY DEF TypesInv
<1>3. \A p \in Daemon : Live(p) /\ record[drives[p]] = "halted" => at[p] = "exit"
  BY <1>1 DEF HaltSettled
<1>4. ASSUME NEW p \in Daemon, DaemonStep(p)
      PROVE  at'[q] = "exit"
  <2>1. /\ Live(p) /\ drives' = drives /\ at' = [at EXCEPT ![p] = at'[p]]
        /\ QuietStep(p) \/ SaveStep(p) \/ AncestorStep(p) \/ EnterStep(p) \/ LeaveStep(p)
    BY <1>4, RunCases
  <2>2. q # p => Live(q) /\ at'[q] = at[q]
    BY <1>2, <2>1 DEF Live
  <2>3. CASE SaveStep(p)
    <3>1. PICK status \in Status :
            /\ record' = [record EXCEPT ![drives[p]] = status]
            /\ status = "halted" => at'[p] = "exit"
      BY <2>3 DEF SaveStep, Save
    <3>2. CASE drives[q] = drives[p]
      <4>1. status = "halted"
        BY <1>2, <2>1, <3>1, <3>2
      <4>2. q = p
        BY <1>1, <2>1, <2>2, <3>2 DEF OneDaemon
      <4> QED
        BY <3>1, <4>1, <4>2
    <3>3. CASE drives[q] # drives[p]
      BY <1>2, <1>3, <2>1, <2>2, <3>1, <3>3
    <3> QED
      BY <3>2, <3>3
  <2>4. CASE QuietStep(p) \/ AncestorStep(p) \/ EnterStep(p)
    <3>1. record' = record /\ at[p] # "exit"
      BY <2>4 DEF QuietStep, AncestorStep, EnterStep, store
    <3> QED
      BY <1>3, <2>1, <2>2, <3>1
  <2>5. CASE LeaveStep(p)
    BY <1>3, <2>1, <2>2, <2>5 DEF LeaveStep, Live
  <2> QED
    BY <2>1, <2>3, <2>4, <2>5
<1>5. ASSUME NEW p \in Daemon, Crash(p)
      PROVE  at'[q] = "exit"
  BY <1>2, <1>3, <1>5 DEF Crash, Move, Live, store
<1>6. ASSUME NEW c \in commands, Create(c)
      PROVE  at'[q] = "exit"
  BY <1>2, <1>3, <1>6 DEF Create, Live, daemons
<1>7. ASSUME NEW c \in commands, Remove(c)
      PROVE  at'[q] = "exit"
  BY <1>2, <1>3, <1>7 DEF Remove, Live, daemons
<1>8. ASSUME NEW c \in commands, Rewrite(c)
      PROVE  at'[q] = "exit"
  <2>1. record' = record \/ record' = [record EXCEPT ![c.id] = "idle"]
    BY <1>8, RewritesWhatItRead DEF Save
  <2>2. UNCHANGED <<at, drives>>
    BY <1>8 DEF Rewrite, daemons
  <2> QED
    BY <1>2, <1>3, <2>1, <2>2 DEF Live
<1>9. ASSUME NEW c \in commands, LaunchStep(c)
      PROVE  at'[q] = "exit"
  <2>1. PICK p \in Daemon :
          /\ at' = [at EXCEPT ![p] = at'[p]]
          /\ drives' = [drives EXCEPT ![p] = c.id]
    BY <1>9 DEF LaunchStep
  <2>2. record' = record /\ record[c.id] # "halted"
    BY <1>9 DEF LaunchStep, store
  <2> QED
    BY <1>2, <1>3, <2>1, <2>2 DEF Live
<1>10. CASE StillStep
  BY <1>3, <1>10 DEF StillStep, Live, store
<1> QED
  BY <1>4, <1>5, <1>6, <1>7, <1>8, <1>9, <1>10, NextCases

LEMMA ReportedKept ==
  ASSUME TypesInv, OneDaemon, Present, EnginesAreReported, [Next]_vars
  PROVE  EnginesAreReported'
<1> SUFFICES ASSUME raced' \subseteq {"halt missed", "overlap"}, NEW q \in Daemon, Live(q)',
                    at'[q] \notin {"load", "pid"}, drives'[q] \in dir'
             PROVE  pidFile'[drives'[q]] = {q}
  BY DEF EnginesAreReported
<1>1. /\ raced \subseteq {"halt missed", "overlap"}
      /\ "launched twice" \notin raced /\ "removed while busy" \notin raced
  BY RacedGrows
<1>2. /\ drives \in [Daemon -> Id] /\ at \in [Daemon -> Place]
      /\ pidFile \in [Id -> SUBSET Daemon]
  BY DEF TypesInv
<1>3. ASSUME Live(q), at[q] \notin {"load", "pid"}, drives[q] \in dir
      PROVE  pidFile[drives[q]] = {q}
  BY <1>1, <1>3 DEF EnginesAreReported
<1>4. ASSUME NEW p \in Daemon, DaemonStep(p)
      PROVE  pidFile'[drives'[q]] = {q}
  <2>1. /\ Live(p) /\ drives' = drives /\ at' = [at EXCEPT ![p] = at'[p]]
        /\ QuietStep(p) \/ SaveStep(p) \/ AncestorStep(p) \/ EnterStep(p) \/ LeaveStep(p)
    BY <1>4, RunCases
  <2>2. q # p => Live(q) /\ at'[q] = at[q] /\ drives[q] # drives[p]
    BY <1>1, <1>2, <2>1 DEF Live, OneDaemon
  <2>3. CASE QuietStep(p)
    BY <1>3, <2>1, <2>2, <2>3 DEF QuietStep, store
  <2>4. CASE SaveStep(p) \/ AncestorStep(p)
    <3>1. drives[p] \in dir
      BY <1>1, <2>1, <2>4, SaversPresent
    <3>2. dir' = dir /\ pidFile' = pidFile /\ at[p] \notin {"load", "pid"}
      BY <2>4, <3>1 DEF SaveStep, Save, AncestorStep
    <3> QED
      BY <1>3, <2>1, <2>2, <3>2
  <2>5. CASE EnterStep(p)
    BY <1>2, <1>3, <2>1, <2>2, <2>5 DEF EnterStep
  <2>6. CASE LeaveStep(p)
    BY <1>2, <1>3, <2>1, <2>2, <2>6 DEF LeaveStep, Live
  <2> QED
    BY <2>1, <2>3, <2>4, <2>5, <2>6
<1>5. ASSUME NEW p \in Daemon, Crash(p)
      PROVE  pidFile'[drives'[q]] = {q}
  BY <1>2, <1>3, <1>5 DEF Crash, Move, Live, store
<1>6. ASSUME NEW c \in commands, Create(c)
      PROVE  pidFile'[drives'[q]] = {q}
  <2>1. /\ UNCHANGED <<at, drives, pidFile>> /\ dir' = dir \union {c.id}
        /\ c.id \notin created
    BY <1>6 DEF Create, daemons, TypesInv, KnownSessions, Starting
  <2>2. drives[q] \in created
    BY <2>1 DEF Live, TypesInv, KnownSessions
  <2> QED
    BY <1>3, <2>1, <2>2 DEF Live
<1>7. ASSUME NEW c \in commands, Remove(c)
      PROVE  pidFile'[drives'[q]] = {q}
  BY <1>2, <1>3, <1>7 DEF Remove, Live, daemons
<1>8. ASSUME NEW c \in commands, Rewrite(c)
      PROVE  pidFile'[drives'[q]] = {q}
  <2>1. pidFile' = pidFile /\ dir' = dir
    <3>1. c.id \in dir
      BY <1>8, RewritesWhatItRead
    <3>2. PICK status : Save(c.id, status)
      BY <1>8 DEF Rewrite
    <3> QED
      BY <3>1, <3>2 DEF Save
  <2>2. UNCHANGED <<at, drives>>
    BY <1>8 DEF Rewrite, daemons
  <2> QED
    BY <1>3, <2>1, <2>2 DEF Live
<1>9. ASSUME NEW c \in commands, LaunchStep(c)
      PROVE  pidFile'[drives'[q]] = {q}
  <2>1. PICK p \in Daemon :
          /\ at' = [at EXCEPT ![p] = at'[p]] /\ at'[p] \in {"load", "pid"}
          /\ drives' = [drives EXCEPT ![p] = c.id]
    BY <1>9 DEF LaunchStep
  <2>2. q # p /\ UNCHANGED store
    BY <1>9, <2>1 DEF LaunchStep
  <2> QED
    BY <1>2, <1>3, <2>1, <2>2 DEF Live, store
<1>10. CASE StillStep
  BY <1>3, <1>10 DEF StillStep, Live, store
<1> QED
  BY <1>4, <1>5, <1>6, <1>7, <1>8, <1>9, <1>10, NextCases

LEMMA InitSafe == Init => SessionsInv
<1> SUFFICES ASSUME Init
             PROVE  SessionsInv
  OBVIOUS
<1>1. TypesInv
  BY InitTypes
<1> QED
  BY <1>1, SessionsAssumption DEF Init, SessionsInv, OneDaemon, Present, Apart, HaltSettled,
     EnginesAreReported, Live

LEMMA NextSafe ==
  ASSUME SessionsInv, [Next]_vars
  PROVE  SessionsInv'
<1>1. TypesInv'
  BY NextTypes DEF SessionsInv
<1> QED
  BY <1>1, OneDaemonKept, PresentKept, ApartKept, HaltSettledKept, ReportedKept DEF SessionsInv

LEMMA EnginesApart == SessionsInv => OneEnginePerSubtree
<1> SUFFICES ASSUME SessionsInv, raced \subseteq {"halt missed"}, NEW p \in Daemon, NEW q \in Daemon,
                    p # q, Engine(p), Engine(q), drives[q] \in Overlapping[drives[p]]
             PROVE  FALSE
  BY DEF OneEnginePerSubtree
<1>1. drives[p] \in Id /\ drives[q] \in Id
  BY DEF SessionsInv, TypesInv
<1>2. Live(p) /\ Busy(p) /\ Live(q) /\ Busy(q)
  BY DEF Engine, Busy
<1>3. record[drives[p]] # "missing" /\ record[drives[q]] # "missing"
  BY <1>2 DEF SessionsInv, Present
<1>4. drives[p] = drives[q]
  BY <1>1, <1>3 DEF SessionsInv, Apart
<1> QED
  BY <1>2, <1>4 DEF SessionsInv, OneDaemon

LEMMA SessionsInvariant == Spec => []SessionsInv
BY InitSafe, NextSafe, PTL DEF Spec

\* Two daemons never work on one subtree (sandbox sync start, resume and
\* resume-all), but for the races the property names.
THEOREM EnginesStayApart == Spec => []OneEnginePerSubtree
BY SessionsInvariant, EnginesApart, PTL

\* A daemon past its start is the one its session's pid file names
\* (writeSessionPID, readSessionPID), but for the races the property names.
THEOREM EnginesReported == Spec => []EnginesAreReported
<1>1. SessionsInv => EnginesAreReported
  BY DEF SessionsInv
<1> QED
  BY <1>1, SessionsInvariant, PTL

LEMMA HaltsLast ==
  ASSUME SessionsInv, [Next]_vars,
         raced' \cap {"launched twice", "halt missed", "stale record"} = {},
         NEW i \in Id, record[i] = "halted", record'[i] \notin {"halted", "missing"}
  PROVE  \E c \in commands \ commands' : c.step = "recover" /\ c.id = i
<1>1. TypesInv /\ raced \cap {"launched twice", "halt missed", "stale record"} = {}
  BY RacedGrows DEF SessionsInv
<1>2. \A p \in Daemon : Live(p) /\ record[drives[p]] = "halted" => at[p] = "exit"
  BY <1>1 DEF SessionsInv, HaltSettled
<1>3. record' # record
  OBVIOUS
<1>4. ASSUME NEW p \in Daemon, DaemonStep(p)
      PROVE  FALSE
  <2>1. Live(p) /\ SaveStep(p)
    BY <1>1, <1>3, <1>4, RunCases DEF QuietStep, AncestorStep, EnterStep, LeaveStep, store
  <2>2. drives[p] # i
    BY <1>2, <2>1 DEF SaveStep
  <2> QED
    BY <1>1, <2>1, <2>2 DEF SaveStep, Save, TypesInv
<1>5. ASSUME NEW c \in commands, Create(c)
      PROVE  FALSE
  <2>1. c.id \notin created /\ i \in created
    BY <1>1, <1>5 DEF Create, TypesInv, KnownSessions, Starting
  <2> QED
    BY <1>1, <1>5, <2>1 DEF Create, TypesInv
<1>6. ASSUME NEW c \in commands, Remove(c)
      PROVE  FALSE
  BY <1>1, <1>6 DEF Remove, TypesInv
<1>7. ASSUME NEW c \in commands, Rewrite(c)
      PROVE  c \in commands \ commands' /\ c.step = "recover" /\ c.id = i
  <2>1. c.step = "recover" /\ Save(c.id, "idle")
    BY <1>1, <1>3, <1>7, RewritesWhatItRead
  <2>2. c.id = i
    BY <1>1, <2>1 DEF Save, TypesInv
  <2>3. Ends(c)
    BY <1>7 DEF Rewrite
  <2> QED
    BY <2>1, <2>2, <2>3 DEF Ends
<1> QED
  BY <1>1, <1>3, <1>4, <1>5, <1>6, <1>7, NextCases DEF StillStep, Crash, LaunchStep, store

\* A halted session stays halted until a command that saw the halt takes it
\* back or removes it (SaveStatus, resume, reset, accept-deletions), but for
\* the races the property names.
THEOREM HaltsAreDurable == Spec => HaltIsDurable
<1>1. SessionsInv /\ [Next]_vars =>
        [raced' \cap {"launched twice", "halt missed", "stale record"} = {} =>
           \A i \in Id :
             record[i] = "halted" /\ record'[i] \notin {"halted", "missing"} =>
               \E c \in commands \ commands' : c.step = "recover" /\ c.id = i]_vars
  BY HaltsLast
<1> QED
  BY <1>1, SessionsInvariant, PTL DEF Spec, HaltIsDurable

LEMMA RemovalsLast ==
  ASSUME SessionsInv, [Next]_vars,
         raced' \cap {"removed while busy", "stale record"} = {},
         NEW i \in created \ dir
  PROVE  i \notin dir'
<1>1. /\ TypesInv /\ Present
      /\ raced \cap {"removed while busy", "stale record"} = {}
      /\ "removed while busy" \notin raced
  BY RacedGrows DEF SessionsInv
<1>2. ASSUME NEW p \in Daemon, DaemonStep(p)
      PROVE  dir' = dir
  <2>1. SaveStep(p) \/ AncestorStep(p) => drives[p] \in dir
    BY <1>1, <1>2, RunCases, SaversPresent
  <2>2. QuietStep(p) \/ EnterStep(p) \/ LeaveStep(p) \/ SaveStep(p) \/ AncestorStep(p)
    BY <1>1, <1>2, RunCases
  <2>3. SaveStep(p) \/ AncestorStep(p) => dir' = dir \union {drives[p]}
    BY DEF SaveStep, Save, AncestorStep
  <2>4. QuietStep(p) \/ EnterStep(p) \/ LeaveStep(p) => dir' = dir
    BY DEF QuietStep, EnterStep, LeaveStep, store
  <2> QED
    BY <2>1, <2>2, <2>3, <2>4
<1>3. ASSUME NEW c \in commands, Create(c)
      PROVE  i \notin dir'
  BY <1>1, <1>3 DEF Create, TypesInv, KnownSessions, Starting
<1>4. ASSUME NEW c \in commands, Remove(c)
      PROVE  i \notin dir'
  BY <1>4 DEF Remove
<1>5. ASSUME NEW c \in commands, Rewrite(c)
      PROVE  i \notin dir'
  <2>1. c.id \in dir
    BY <1>1, <1>5, RewritesWhatItRead
  <2> QED
    BY <1>5, <2>1 DEF Rewrite, Save
<1> QED
  BY <1>1, <1>2, <1>3, <1>4, <1>5, NextCases DEF StillStep, Crash, LaunchStep, store

\* A session that was removed does not come back (sync stop, store.Save), but for
\* the races the property names.
THEOREM RemovalsStay == Spec => RemovedStaysRemoved
<1>1. SessionsInv /\ [Next]_vars =>
        [raced' \cap {"removed while busy", "stale record"} = {} =>
           \A i \in created \ dir : i \notin dir']_vars
  BY RemovalsLast
<1> QED
  BY <1>1, SessionsInvariant, PTL DEF Spec, RemovedStaysRemoved
=============================================================================
