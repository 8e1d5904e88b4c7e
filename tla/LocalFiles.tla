------------------------------ MODULE LocalFiles ------------------------------
(***************************************************************************)
(* The files that commands share: config.yaml, credentials, threads.json,  *)
(* and the user's kubeconfig.  A command reads a file whole, changes a map *)
(* in memory, and writes the file whole; nothing locks it.  os.WriteFile   *)
(* truncates before it writes; the kubeconfig is replaced by a rename.     *)
(* Each process is one command; a value in a file is named after the       *)
(* command that wrote it.                                                  *)
(***************************************************************************)
EXTENDS Naturals, Sequences

CONSTANTS
  Procs,    \* the commands that run, in any order and at the same time
  Profiles, \* profile names
  VMs,      \* instance names
  Default,  \* DefaultInstanceName
  Refs,     \* names of threads
  None,     \* no value
  Old,      \* what was there before
  Programs, \* what the commands may be, together
  Machines, \* what config.yaml may say before
  MaxKills  \* bound on commands killed

Files == {"config", "credentials", "refs", "kube"}
Values == Procs \union {None, Old}

\* The commands that change one of the files, with the name they are about:
\* a profile, a VM or a thread.  "context" is local kubeconfig, which names a
\* context after the VM.
Ops ==
  [op : {"set", "select", "remove", "token", "provision", "purge"}, name : Profiles]
    \union [op : {"vm", "choose", "context"}, name : VMs]
    \union [op : {"thread"}, name : Refs]

ASSUME FilesAssumption ==
  /\ Default \in VMs
  /\ None \notin Procs /\ Old \notin Procs /\ Old # None
  /\ None \notin Profiles /\ None \notin VMs
  /\ Programs \subseteq [Procs -> Ops]
  /\ MaxKills \in Nat

Configs ==
  [current : Profiles \union {None}, profiles : [Profiles -> Values],
   vms : [VMs -> Values], flat : Values, chosen : VMs \union {None}]
Tokens == [Profiles -> Values]
RefMaps == [Refs -> Values]
Contexts == [VMs -> Values]

\* A file that is renamed over is never seen half-written.
States == {s \in [Files -> {"whole", "empty", "garbled"}] : s["kube"] = "whole"}

NoConfig ==
  [current |-> None, profiles |-> [q \in Profiles |-> None],
   vms |-> [i \in VMs |-> None], flat |-> None, chosen |-> None]
NoTokens == [q \in Profiles |-> None]

ASSUME MachinesAssumption == Machines \subseteq Configs

VARIABLES
  text,     \* what was last written to each file
  state,    \* whole; empty, as a truncation leaves it; or garbled by two writers
  command,  \* what each process runs
  pc,
  job,      \* the write of its command a process is at
  loaded,   \* config.yaml as its Load returned it
  raw,      \* the file of its job as read for the write
  kills

filesVars == <<text, state, command, pc, job, loaded, raw, kills>>

-----------------------------------------------------------------------------
\* What each command writes, in its order.  ProfileSelect stands for profile use
\* as well, and LocalSelect for local use.
ProfileSet == <<"profiles">>
ProfileSelect == <<"profiles">>
ProfileRemove == <<"forget", "untoken">>
AuthSetToken == <<"token">>
ProvisionLocalProfile == <<"profiles", "token">>
ForgetLocalProfile == <<"forget", "untoken">>
LocalConfigSet == <<"instance">>
LocalSelect == <<"choice">>
LocalKubeconfig == <<"context">>
ThreadsCreate == <<"ref">>

Jobs(c) ==
  [set |-> ProfileSet, select |-> ProfileSelect, remove |-> ProfileRemove,
   token |-> AuthSetToken, provision |-> ProvisionLocalProfile,
   purge |-> ForgetLocalProfile, vm |-> LocalConfigSet, choose |-> LocalSelect,
   context |-> LocalKubeconfig, thread |-> ThreadsCreate][c.op]

FileOf(j) ==
  IF j \in {"token", "untoken"} THEN "credentials"
  ELSE IF j = "ref" THEN "refs"
  ELSE IF j = "context" THEN "kube" ELSE "config"

Job(p) == Jobs(command[p])[job[p]]
File(p) == FileOf(Job(p))

\* migrateLocal: the settings of the old shape are the default VM's, unless it
\* has an entry of its own.
Migrated(c) ==
  [c EXCEPT !.vms[Default] = IF @ = None THEN c.flat ELSE @, !.flat = None]

\* What a reader finds: an empty file is a file without keys.
Content(f) ==
  IF state[f] = "whole" THEN text[f] ELSE IF f = "config" THEN NoConfig ELSE NoTokens

-----------------------------------------------------------------------------
SetProfile(cfg, name, p) == [cfg.profiles EXCEPT ![name] = p]

\* SaveProfiles: every profile the command has loaded, with its own change.
SaveProfiles(p, c) ==
  LET name == command[p].name
      cfg == loaded[p]
      current == IF \/ command[p].op = "select"
                    \/ command[p].op = "provision" /\ cfg.current = None
                 THEN name ELSE cfg.current
  IN [c EXCEPT
        !.current = IF current = None THEN @ ELSE current,
        !.profiles = IF command[p].op = "select" THEN cfg.profiles
                     ELSE SetProfile(cfg, name, p)]

\* Fault: the selection stays.
RemoveProfileOnly(p, c) == [c EXCEPT !.profiles[command[p].name] = None]

RemoveProfile(p, c) ==
  [c EXCEPT !.profiles[command[p].name] = None,
            !.current = IF @ = command[p].name THEN None ELSE @]

\* Fault: the old shape goes whatever VM is written.
SaveInstanceFolding(p, c) == [c EXCEPT !.vms[command[p].name] = p, !.flat = None]

\* SaveInstance leaves the old shape alone unless it writes the VM it belonged to.
SaveInstance(p, c) ==
  [c EXCEPT !.vms[command[p].name] = p,
            !.flat = IF command[p].name = Default THEN None ELSE @]

SaveCurrentInstance(p, c) ==
  [c EXCEPT !.chosen = IF command[p].name = Default THEN None ELSE command[p].name]

SaveTokenFor(p, tokens) == [tokens EXCEPT ![command[p].name] = p]
RemoveTokenFor(p, tokens) == [tokens EXCEPT ![command[p].name] = None]
SaveRefs(p, refs) == [refs EXCEPT ![command[p].name] = p]
AddContext(p, contexts) == [contexts EXCEPT ![command[p].name] = p]

\* What the job of p makes of the content it read.
Mutated(p) ==
  IF Job(p) = "profiles" THEN SaveProfiles(p, raw[p])
  ELSE IF Job(p) = "forget" THEN RemoveProfile(p, raw[p])
  ELSE IF Job(p) = "instance" THEN SaveInstance(p, raw[p])
  ELSE IF Job(p) = "choice" THEN SaveCurrentInstance(p, raw[p])
  ELSE IF Job(p) = "untoken" THEN RemoveTokenFor(p, raw[p])
  ELSE IF Job(p) = "token" THEN SaveTokenFor(p, raw[p])
  ELSE IF Job(p) = "ref" THEN SaveRefs(p, raw[p])
  ELSE AddContext(p, raw[p])

-----------------------------------------------------------------------------
\* A process that ends takes what it had read with it.
Ends(p) ==
  /\ pc' = [pc EXCEPT ![p] = "done"]
  /\ loaded' = [loaded EXCEPT ![p] = NoConfig]
  /\ raw' = [raw EXCEPT ![p] = NoConfig]
  /\ job' = [job EXCEPT ![p] = 1]

Goes(p, phase) == pc' = [pc EXCEPT ![p] = phase]

RequireProfile(cfg, name) == cfg.profiles[name] # None
RequireInstance(cfg, name) == cfg.vms[name] # None
HasTokenFor(name) == Content("credentials")[name] # None

\* Before any command body: config.yaml is read.  A profile that is to be used
\* or removed, and a VM that is to be chosen, has to be in it.
Required(p, cfg) ==
  LET name == command[p].name IN
  /\ command[p].op \in {"select", "remove"} => RequireProfile(cfg, name)
  /\ command[p].op = "choose" => RequireInstance(cfg, name)
  /\ command[p].op = "purge" => RequireProfile(cfg, name) \/ HasTokenFor(name)

Load(p) ==
  /\ pc[p] = "load"
  /\ state["config"] # "garbled"
  /\ LET cfg == Migrated(Content("config")) IN
     \/ /\ Required(p, cfg)
        /\ loaded' = [loaded EXCEPT ![p] = cfg]
        /\ Goes(p, "read")
        /\ UNCHANGED <<job, raw>>
     \/ ~Required(p, cfg) /\ Ends(p)
  /\ UNCHANGED <<text, state, command, kills>>

\* A file that does not parse ends the command, and so does an empty threads.json.
LoadFails(p) ==
  /\ \/ pc[p] = "load" /\ state["config"] = "garbled"
     \/ /\ pc[p] = "read"
        /\ state[File(p)] = "garbled" \/ (File(p) = "refs" /\ state["refs"] = "empty")
  /\ Ends(p)
  /\ UNCHANGED <<text, state, command, kills>>

\* A prompt that is cancelled, a value that is refused, a VM that does not run or
\* a request that fails ends the command before its first write.
GivesUp(p) ==
  /\ command[p].op \notin {"remove", "purge"}
  /\ job[p] = 1
  /\ \/ pc[p] = "read"
     \/ pc[p] = "write" /\ command[p].op = "thread"
  /\ Ends(p)
  /\ UNCHANGED <<text, state, command, kills>>

\* The read of a write.  For a thread it is the one before the request that
\* creates the thread.
ReadForWrite(p) ==
  /\ pc[p] = "read"
  /\ state[File(p)] # "garbled"
  /\ File(p) = "refs" => state["refs"] = "whole"
  /\ Job(p) = "untoken" => HasTokenFor(command[p].name)
  /\ raw' = [raw EXCEPT ![p] = Content(File(p))]
  /\ Goes(p, "write")
  /\ UNCHANGED <<text, state, command, job, loaded, kills>>

\* Without a token to remove nothing is written.
NothingToRemove(p) ==
  /\ pc[p] = "read" /\ Job(p) = "untoken"
  /\ state["credentials"] # "garbled"
  /\ ~HasTokenFor(command[p].name)
  /\ Ends(p)
  /\ UNCHANGED <<text, state, command, kills>>

\* Opening for the write empties the file.
Truncate(p) ==
  /\ pc[p] = "write" /\ File(p) # "kube"
  /\ state' = [state EXCEPT ![File(p)] = "empty"]
  /\ Goes(p, "fill")
  /\ UNCHANGED <<text, command, job, loaded, raw, kills>>

\* The text is written over what is there.  If another command filled the file
\* after this one had emptied it, and wrote more, its tail stays.
Fill(p) ==
  /\ pc[p] = "fill" /\ File(p) # "kube"
  /\ text' = [text EXCEPT ![File(p)] = Mutated(p)]
  /\ \/ state' = [state EXCEPT ![File(p)] = "whole"]
     \/ state[File(p)] # "empty" /\ state' = [state EXCEPT ![File(p)] = "garbled"]
  /\ IF job[p] < Len(Jobs(command[p]))
     THEN /\ job' = [job EXCEPT ![p] = @ + 1]
          /\ Goes(p, "read")
          /\ UNCHANGED <<loaded, raw>>
     ELSE Ends(p)
  /\ UNCHANGED <<command, kills>>

\* A file beside the kubeconfig takes its name when it is complete.
MergeKubeconfig(p) ==
  /\ pc[p] = "write" /\ File(p) = "kube"
  /\ text' = [text EXCEPT !["kube"] = Mutated(p)]
  /\ Ends(p)
  /\ UNCHANGED <<state, command, kills>>

Kill(p) ==
  /\ kills < MaxKills
  /\ pc[p] # "done"
  /\ kills' = kills + 1
  /\ Ends(p)
  /\ UNCHANGED <<text, state, command>>

-----------------------------------------------------------------------------
FilesInit ==
  /\ command \in Programs
  /\ \E c \in Machines :
       text = [config |-> c, credentials |-> c.profiles, refs |-> [n \in Refs |-> None],
               kube |-> c.vms]
  /\ state = [f \in Files |-> "whole"]
  /\ pc = [p \in Procs |-> "load"]
  /\ job = [p \in Procs |-> 1]
  /\ loaded = [p \in Procs |-> NoConfig]
  /\ raw = [p \in Procs |-> NoConfig]
  /\ kills = 0

FilesNext ==
  \E p \in Procs :
    \/ Load(p) \/ LoadFails(p) \/ GivesUp(p) \/ ReadForWrite(p) \/ NothingToRemove(p)
    \/ Truncate(p) \/ Fill(p) \/ MergeKubeconfig(p) \/ Kill(p)

FilesSpec == FilesInit /\ [][FilesNext]_filesVars

-----------------------------------------------------------------------------
FilesTypeOK ==
  /\ text \in [config : Configs, credentials : Tokens, refs : RefMaps, kube : Contexts]
  /\ state \in States
  /\ command \in [Procs -> Ops]
  /\ pc \in [Procs -> {"load", "read", "write", "fill", "done"}]
  /\ \A p \in Procs : job[p] \in DOMAIN Jobs(command[p])
  /\ loaded \in [Procs -> Configs]
  /\ \A p \in Procs :
       pc[p] \in {"write", "fill"} =>
         /\ File(p) = "config" => raw[p] \in Configs
         /\ File(p) = "credentials" => raw[p] \in Tokens
         /\ File(p) = "refs" => raw[p] \in RefMaps
         /\ File(p) = "kube" => raw[p] \in Contexts
  /\ kills \in 0..MaxKills

Writes(p) ==
  /\ \/ pc[p] = "fill" /\ pc'[p] # "fill"
     \/ pc[p] = "write" /\ pc'[p] = "done"
  /\ text'[File(p)] # text[File(p)]

\* What a command knew of the profiles when it wrote them.
Known(p) == IF Job(p) = "profiles" THEN loaded[p] ELSE raw[p]

\* A profile that was there to use, or none.
CurrentOK(c) == c.current = None \/ c.profiles[c.current] # None

\* What the write of p changed apart from its own key it had not read as it was.
KeepsOthers(p) ==
  LET name == command[p].name
      before == text[File(p)]
      after == text'[File(p)]
  IN IF File(p) # "config"
     THEN \A k \in DOMAIN before \ {name} :
            after[k] # before[k] => raw[p][k] # before[k]
     ELSE /\ \A q \in Profiles :
               after.profiles[q] # before.profiles[q] =>
                 \/ Job(p) \in {"profiles", "forget"} /\ q = name
                 \/ Known(p).profiles[q] # before.profiles[q]
          /\ \A i \in VMs :
               Migrated(after).vms[i] # Migrated(before).vms[i] =>
                 \/ Job(p) = "instance" /\ i = name
                 \/ Migrated(raw[p]).vms[i] # Migrated(before).vms[i]
          /\ after.chosen # before.chosen =>
               Job(p) = "choice" \/ raw[p].chosen # before.chosen
          /\ after.current # before.current =>
               \/ command[p].op = "select"
               \/ command[p].op = "provision" /\ before.current = None
               \/ Job(p) = "forget" /\ before.current = name
               \/ loaded[p].current # before.current
               \/ raw[p].current # before.current

\* A command changes a key that is not its own only if another command changed
\* the key after this one had read it (mutateConfigFile, SaveProfiles,
\* SaveTokenFor, RefStore.Save and MergeKubeconfig leave what they are not about in place, also
\* when the settings still have the old shape; a machine that has chosen a
\* profile keeps its choice).
WritesKeepOthers == [][\A p \in Procs : Writes(p) => KeepsOthers(p)]_filesVars

\* The write of p left a selection that is not configured, from what it had read
\* before another command's change.
BreaksCurrentStale(p) ==
  \E c \in {loaded[p], raw[p]} :
    <<c.current, c.profiles>> # <<text["config"].current, text["config"].profiles>>

\* The profile in use is one that is configured: only a command that wrote from
\* profiles read before another command's change can break that (RemoveProfile
\* clears the selection when it named the removed profile; use and select take
\* a configured one).
CurrentStaysConfigured ==
  [][\A p \in Procs :
       Writes(p) /\ File(p) = "config" /\ CurrentOK(text["config"]) =>
         CurrentOK(text'["config"]) \/ BreaksCurrentStale(p)]_filesVars

=============================================================================
