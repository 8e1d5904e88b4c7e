---------------------------- MODULE SandboxShells ----------------------------
(***************************************************************************)
(* sandbox start and sandbox connect, from the sandbox's answer to the     *)
(* terminal session: several attaches of one person, the browser, which    *)
(* shows and edits the same tabs, and the platform, which starts and stops *)
(* the workload under them.  The layout of tabs is read, changed and       *)
(* written back with the version that was read; the platform is assumed to *)
(* take a layout only over the version it names.                           *)
(***************************************************************************)
EXTENDS Naturals, Sequences, SequencesExt

CONSTANTS
  Attaches,    \* commands that attach
  BrowserTabs, \* shells the browser may open
  NoShell,     \* an attach without an id: an ordinary shell
  Plans,       \* what the commands may be, together
  MaxVersion,  \* bound on writes of the layout
  MaxWorkloads \* bound on workloads started

\* sync: start with --sync, which waits once more before it looks at the tabs.
\* tab: "new", "last", or the shell given with --tab.
AttachCommands == [op : {"start", "connect"}, sync : BOOLEAN, tty : BOOLEAN,
             tab : {"new", "last"} \union Attaches \union BrowserTabs]
ASSUME ShellsAssumption ==
  /\ Plans \subseteq [Attaches -> AttachCommands]
  /\ NoShell \notin Attaches \union BrowserTabs
  /\ MaxVersion \in Nat /\ MaxWorkloads \in Nat

Statuses == {"stopped", "starting", "running", "failed", "terminated"}
Sandboxes == [status : Statuses, workload : 0..MaxWorkloads]
Unread == [tabs |-> <<>>, version |-> 0]
Tab(id, number, last) == [id |-> id, number |-> number, last |-> last]

VARIABLES
  sandbox, \* its status, and the workload that runs it or 0
  started, \* workloads started so far
  tabs,    \* the recorded layout: a sequence of [id, number, last]
  version, \* of the layout
  plan,    \* what each command is
  step,    \* where it is
  known,   \* the sandbox as it was last answered to it
  layout,  \* the tabs it read and then changed, and their version
  enters,  \* the shell it enters
  session  \* the workload its terminal session is with, or 0

shellsVars == <<sandbox, started, tabs, version, plan, step, known, layout, enters, session>>

ShellsInit ==
  /\ plan \in Plans
  /\ sandbox \in {[status |-> "stopped", workload |-> 0], [status |-> "starting", workload |-> 0],
                  [status |-> "running", workload |-> 1]}
  /\ started = 1
  /\ \E b \in BrowserTabs : tabs \in {<<>>, <<Tab(b, 2, 0)>>}  \* the first was closed
  /\ version = 0
  /\ step = [p \in Attaches |->
              IF plan[p].op = "connect" THEN "ensure"
              ELSE IF plan[p].sync THEN "prepare" ELSE "layout"]
  /\ known = [p \in Attaches |-> [status |-> "starting", workload |-> 0]]
  /\ layout = [p \in Attaches |-> Unread]
  /\ enters = [p \in Attaches |-> NoShell]
  /\ session = [p \in Attaches |-> 0]

-----------------------------------------------------------------------------
To(p, s) == step' = [step EXCEPT ![p] = s]
Ready(s) == s.status = "running" /\ s.workload # 0
Mine == <<plan, layout, enters, session>>
Platform == <<sandbox, started>>
Recorded == <<tabs, version>>

\* A no-op when it runs, a start otherwise; a terminated sandbox stays so.
EnsureRunning(p) ==
  /\ step[p] = "ensure"
  /\ \/ /\ sandbox.status \in {"running", "starting"}
        /\ known' = [known EXCEPT ![p] = sandbox] /\ To(p, "layout")
        /\ UNCHANGED Platform
     \/ /\ sandbox.status \in {"stopped", "failed"}
        /\ sandbox' = [status |-> "starting", workload |-> 0]
        /\ known' = [known EXCEPT ![p] = sandbox'] /\ To(p, "layout")
        /\ UNCHANGED started
     \/ To(p, "error") /\ UNCHANGED known /\ UNCHANGED Platform
  /\ UNCHANGED Mine /\ UNCHANGED Recorded

\* The number of a new tab is one more than the largest, not than the count.
\* Fault: tabs are numbered by how many there are.
CountOf(ts) == Len(ts) + 1
NextNumber(ts) == Max({1} \union {t.number + 1 : t \in ToSet(ts)})

\* The one attached last; of several, the first.
Newest(ts) ==
  CHOOSE i \in DOMAIN ts :
    \A j \in DOMAIN ts : ts[j].last < ts[i].last \/ (ts[j].last = ts[i].last /\ i <= j)

\* What recordAttach writes: the time of the attach, a version later than all.
Stamped(ts, id) == [i \in DOMAIN ts |-> IF ts[i].id = id THEN [ts[i] EXCEPT !.last = version + 1] ELSE ts[i]]

Enter(p, ts, id) ==
  /\ layout' = [layout EXCEPT ![p] = [tabs |-> Stamped(ts, id), version |-> version]]
  /\ enters' = [enters EXCEPT ![p] = id]
  /\ To(p, "record")

ResolveShell(p) ==
  /\ step[p] = "layout"
  /\ LET asked == plan[p].tab
     IN CASE asked \notin {"new", "last"} ->
               IF \E t \in ToSet(tabs) : t.id = asked THEN Enter(p, tabs, asked)
               ELSE To(p, "error") /\ UNCHANGED <<layout, enters>>
          [] asked = "last" /\ tabs # <<>> -> Enter(p, tabs, tabs[Newest(tabs)].id)
          [] OTHER -> Enter(p, Append(tabs, Tab(p, NextNumber(tabs), 0)), p)
  /\ UNCHANGED <<plan, known, session>> /\ UNCHANGED Recorded /\ UNCHANGED Platform

\* Without a layout the attach goes on, in a shell that is no tab.
LayoutUnread(p) ==
  /\ step[p] = "layout"
  /\ To(p, "tty")
  /\ UNCHANGED <<plan, layout, enters, session, known>> /\ UNCHANGED Recorded /\ UNCHANGED Platform

\* The version a write names, which the platform compares with its own.
\* Fault: the version is read anew before the write.
Reread(p) == version
Claimed(p) == layout[p].version

RecordAttach(p) ==
  /\ step[p] = "record"
  /\ \/ /\ Claimed(p) = version /\ version < MaxVersion
        /\ tabs' = layout[p].tabs /\ version' = version + 1
     \/ UNCHANGED Recorded  \* refused, or the request failed: not an error
  /\ To(p, "tty")
  /\ layout' = [layout EXCEPT ![p] = Unread]
  /\ UNCHANGED <<plan, enters, session, known>> /\ UNCHANGED Platform

NeedsTTY(p) ==
  /\ step[p] = "tty"
  /\ To(p, IF plan[p].tty THEN "wait" ELSE "error")
  /\ UNCHANGED Mine /\ UNCHANGED known /\ UNCHANGED Recorded /\ UNCHANGED Platform

\* waitForRunningSandbox: the answer the command has is enough when it runs;
\* after that one request every two seconds, for five minutes.
After(p) == IF step[p] = "prepare" THEN "layout" ELSE "ticket"
Wait(p) ==
  /\ step[p] \in {"prepare", "wait"}
  /\ \/ Ready(known[p]) /\ To(p, After(p)) /\ UNCHANGED known
     \/ /\ ~Ready(known[p])
        /\ LET answer == sandbox
           IN \/ Ready(answer) /\ To(p, After(p)) /\ known' = [known EXCEPT ![p] = answer]
              \/ ~Ready(answer) /\ answer.status \notin {"failed", "terminated"}
                   /\ UNCHANGED <<step, known>>
              \* it failed or is terminated, the time is up, or the request failed
              \/ ~Ready(answer) /\ To(p, "error") /\ UNCHANGED known
  /\ UNCHANGED Mine /\ UNCHANGED Recorded /\ UNCHANGED Platform

\* The ticket is for a workload: one that is gone by then is refused.
CreateSession(p) ==
  /\ step[p] = "ticket"
  /\ \/ /\ Ready(sandbox) /\ known[p].workload = sandbox.workload
        /\ session' = [session EXCEPT ![p] = sandbox.workload] /\ To(p, "attached")
     \/ To(p, "error") /\ UNCHANGED session
  /\ UNCHANGED <<plan, known, layout, enters>> /\ UNCHANGED Recorded /\ UNCHANGED Platform

-----------------------------------------------------------------------------
\* The browser opens a tab, closes one or moves to one, over the version it shows.
Browse ==
  /\ version < MaxVersion /\ version' = version + 1
  /\ \/ \E b \in BrowserTabs :
          /\ \A t \in ToSet(tabs) : t.id # b
          /\ tabs' = Append(tabs, Tab(b, NextNumber(tabs), version + 1))
     \/ \E i \in DOMAIN tabs : tabs' = RemoveAt(tabs, i)
     \/ \E t \in ToSet(tabs) : tabs' = Stamped(tabs, t.id)
  /\ UNCHANGED Mine /\ UNCHANGED <<step, known>> /\ UNCHANGED Platform

\* The platform starts a workload, loses it, or terminates the sandbox.
PlatformStep ==
  /\ \/ /\ sandbox.status = "starting"  \* running, and its workload not named yet
        /\ sandbox' = [status |-> "running", workload |-> 0]
        /\ UNCHANGED started
     \/ /\ sandbox.status \in {"starting", "running"} /\ sandbox.workload = 0
        /\ started < MaxWorkloads
        /\ sandbox' = [status |-> "running", workload |-> started + 1] /\ started' = started + 1
     \/ /\ sandbox.status \in {"starting", "running"}
        /\ \E s \in {"stopped", "failed"} : sandbox' = [status |-> s, workload |-> 0]
        /\ UNCHANGED started
     \/ /\ sandbox' = [status |-> "terminated", workload |-> 0]
        /\ UNCHANGED started
  /\ UNCHANGED Mine /\ UNCHANGED <<step, known>> /\ UNCHANGED Recorded

ShellsNext ==
  \/ \E p \in Attaches :
       EnsureRunning(p) \/ ResolveShell(p) \/ LayoutUnread(p) \/ RecordAttach(p)
         \/ NeedsTTY(p) \/ Wait(p) \/ CreateSession(p)
  \/ Browse
  \/ PlatformStep
ShellsSpec == ShellsInit /\ [][ShellsNext]_shellsVars

-----------------------------------------------------------------------------
\* An attach takes no tab away: whatever it writes holds every tab that is
\* recorded when it is written, at the same number, and at most the shell it
\* opened is new; and no two tabs ever have the same number, which is what
\* --tab picks them by.
NumbersDiffer(ts) == \A i, j \in DOMAIN ts : ts[i].number = ts[j].number => i = j
TabsKept ==
  [][/\ NumbersDiffer(tabs) => NumbersDiffer(tabs')
     /\ \A p \in Attaches : tabs' # tabs /\ step[p] = "record" /\ step'[p] # "record" =>
          LET named(ts) == {<<t.id, t.number>> : t \in ToSet(ts)}
          IN /\ named(tabs) \subseteq named(tabs')
             /\ \A t \in ToSet(tabs') : <<t.id, t.number>> \in named(tabs) \/ t.id = enters[p]]_shellsVars
=============================================================================
