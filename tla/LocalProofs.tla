---------------------------- MODULE LocalProofs ----------------------------
(***************************************************************************)
(* Proofs about the local side.                                            *)
(*                                                                         *)
(*   LocalFiles  for every number of commands, profiles, VMs and thread    *)
(*               names, and any number of kills: the files keep their      *)
(*               types, a write changes no key but its own unless it was   *)
(*               read before another's change, and the same for the        *)
(*               profile in use;                                           *)
(*   LocalVM     for every number of terminals, VMs, ports and commands:   *)
(*               VMs are made from complete disks, ports found for a VM    *)
(*               are no other's, and a command nobody interfered with      *)
(*               leaves its VM usable.                                     *)
(***************************************************************************)
EXTENDS LocalFiles, LocalVM, WellFoundedInduction, TLAPS

-----------------------------------------------------------------------------
(***************************************************************************)
(* LocalFiles.                                                             *)
(***************************************************************************)
\* A command that selects a profile has found it.
SelectsConfigured ==
  \A p \in Procs :
    pc[p] \in {"read", "write", "fill"} /\ command[p].op = "select" =>
      loaded[p].profiles[command[p].name] # None

FilesInv ==
  /\ FilesTypeOK
  /\ job = [p \in Procs |-> job[p]] /\ raw = [p \in Procs |-> raw[p]]
  /\ SelectsConfigured

-----------------------------------------------------------------------------
\* The writes of a command.
LEMMA JobCases ==
  ASSUME NEW p \in Procs, FilesTypeOK
  PROVE  \/ /\ command[p].op \in {"set", "select", "provision"} /\ command[p].name \in Profiles
            /\ Job(p) = "profiles" /\ File(p) = "config"
         \/ /\ command[p].op \in {"token", "provision"} /\ command[p].name \in Profiles
            /\ Job(p) = "token" /\ File(p) = "credentials"
         \/ /\ command[p].op \in {"remove", "purge"} /\ command[p].name \in Profiles
            /\ Job(p) = "forget" /\ File(p) = "config"
         \/ /\ command[p].op \in {"remove", "purge"} /\ command[p].name \in Profiles
            /\ Job(p) = "untoken" /\ File(p) = "credentials"
         \/ /\ command[p].op = "vm" /\ command[p].name \in VMs
            /\ Job(p) = "instance" /\ File(p) = "config"
         \/ /\ command[p].op = "choose" /\ command[p].name \in VMs
            /\ Job(p) = "choice" /\ File(p) = "config"
         \/ /\ command[p].op = "thread" /\ command[p].name \in Refs
            /\ Job(p) = "ref" /\ File(p) = "refs"
         \/ /\ command[p].op = "context" /\ command[p].name \in VMs
            /\ Job(p) = "context" /\ File(p) = "kube"
<1>1. command[p] \in Ops /\ job[p] \in DOMAIN Jobs(command[p])
  BY DEF FilesTypeOK
<1>2. CASE command[p].op \in {"set", "select"}
  <2>1. Jobs(command[p]) = <<"profiles">>
    BY <1>2 DEF Jobs, ProfileSet, ProfileSelect
  <2> QED
    BY <1>1, <1>2, <2>1 DEF Ops, Job, File, FileOf
<1>3. CASE command[p].op = "provision"
  <2>1. Jobs(command[p]) = <<"profiles", "token">>
    BY <1>3 DEF Jobs, ProvisionLocalProfile
  <2>2. job[p] \in {1, 2}
    BY <1>1, <2>1
  <2> QED
    BY <1>1, <1>3, <2>1, <2>2 DEF Ops, Job, File, FileOf
<1>4. CASE command[p].op \in {"remove", "purge"}
  <2>1. Jobs(command[p]) = <<"forget", "untoken">>
    BY <1>4 DEF Jobs, ProfileRemove, ForgetLocalProfile
  <2>2. job[p] \in {1, 2}
    BY <1>1, <2>1
  <2> QED
    BY <1>1, <1>4, <2>1, <2>2 DEF Ops, Job, File, FileOf
<1>5. CASE command[p].op = "token"
  <2>1. Jobs(command[p]) = <<"token">>
    BY <1>5 DEF Jobs, AuthSetToken
  <2> QED
    BY <1>1, <1>5, <2>1 DEF Ops, Job, File, FileOf
<1>6. CASE command[p].op = "vm"
  <2>1. Jobs(command[p]) = <<"instance">>
    BY <1>6 DEF Jobs, LocalConfigSet
  <2> QED
    BY <1>1, <1>6, <2>1 DEF Ops, Job, File, FileOf
<1>7. CASE command[p].op = "choose"
  <2>1. Jobs(command[p]) = <<"choice">>
    BY <1>7 DEF Jobs, LocalSelect
  <2> QED
    BY <1>1, <1>7, <2>1 DEF Ops, Job, File, FileOf
<1>8. CASE command[p].op = "thread"
  <2>1. Jobs(command[p]) = <<"ref">>
    BY <1>8 DEF Jobs, ThreadsCreate
  <2> QED
    BY <1>1, <1>8, <2>1 DEF Ops, Job, File, FileOf
<1>9. CASE command[p].op = "context"
  <2>1. Jobs(command[p]) = <<"context">>
    BY <1>9 DEF Jobs, LocalKubeconfig
  <2> QED
    BY <1>1, <1>9, <2>1 DEF Ops, Job, File, FileOf
<1> QED
  BY <1>1, <1>2, <1>3, <1>4, <1>5, <1>6, <1>7, <1>8, <1>9 DEF Ops

LEMMA NoConfigTyped == NoConfig \in Configs /\ NoTokens \in Tokens
BY DEF NoConfig, NoTokens, Configs, Tokens, Values

LEMMA MigratedTyped ==
  ASSUME NEW c \in Configs
  PROVE  Migrated(c) \in Configs
BY FilesAssumption DEF Migrated, Configs, Values

LEMMA ContentTyped ==
  ASSUME FilesTypeOK
  PROVE  /\ Content("config") \in Configs
         /\ Content("credentials") \in Tokens
         /\ state["refs"] = "whole" => Content("refs") \in RefMaps
         /\ Content("kube") \in Contexts
BY NoConfigTyped DEF FilesTypeOK, Content, Files, States

\* What a write puts into its file has the type of the file.
LEMMA MutatedTyped ==
  ASSUME NEW p \in Procs, FilesTypeOK, pc[p] \in {"write", "fill"}
  PROVE  /\ File(p) = "config" => Mutated(p) \in Configs
         /\ File(p) = "credentials" => Mutated(p) \in Tokens
         /\ File(p) = "refs" => Mutated(p) \in RefMaps
         /\ File(p) = "kube" => Mutated(p) \in Contexts
<1>1. /\ File(p) = "config" => raw[p] \in Configs
      /\ File(p) = "credentials" => raw[p] \in Tokens
      /\ File(p) = "refs" => raw[p] \in RefMaps
      /\ File(p) = "kube" => raw[p] \in Contexts
  BY DEF FilesTypeOK
<1>2. loaded[p] \in Configs /\ p \in Values
  BY DEF FilesTypeOK, Values
<1>3. CASE Job(p) = "profiles"
  <2>1. File(p) = "config" /\ command[p].name \in Profiles
    BY <1>3, JobCases
  <2>2. raw[p] \in Configs
    BY <1>1, <2>1
  <2>3. Mutated(p) = SaveProfiles(p, raw[p])
    BY <1>3 DEF Mutated
  <2> DEFINE cfg == loaded[p]
             current == IF \/ command[p].op = "select"
                           \/ command[p].op = "provision" /\ cfg.current = None
                        THEN command[p].name ELSE cfg.current
             profiles == IF command[p].op = "select" THEN cfg.profiles
                         ELSE [cfg.profiles EXCEPT ![command[p].name] = p]
  <2>4. current \in Profiles \union {None}
    BY <1>2, <2>1 DEF Configs
  <2>5. profiles \in [Profiles -> Values]
    BY <1>2, <2>1 DEF Configs
  <2>6. Mutated(p) = [raw[p] EXCEPT !.current = IF current = None THEN @ ELSE current,
                                    !.profiles = profiles]
    BY <2>3 DEF SaveProfiles, SetProfile
  <2> HIDE DEF current, profiles
  <2> QED
    BY <2>1, <2>2, <2>4, <2>5, <2>6 DEF Configs
<1>4. CASE Job(p) = "forget"
  <2>1. File(p) = "config" /\ command[p].name \in Profiles
    BY <1>4, JobCases
  <2>2. Mutated(p) = RemoveProfile(p, raw[p])
    BY <1>4 DEF Mutated
  <2> DEFINE current == IF raw[p].current = command[p].name THEN None ELSE raw[p].current
             profiles == [raw[p].profiles EXCEPT ![command[p].name] = None]
  <2>3. raw[p] \in Configs
    BY <1>1, <2>1
  <2>4. current \in Profiles \union {None} /\ profiles \in [Profiles -> Values]
    BY <2>1, <2>3 DEF Configs, Values
  <2>5. Mutated(p) = [raw[p] EXCEPT !.profiles = profiles, !.current = current]
    BY <2>2 DEF RemoveProfile
  <2> HIDE DEF current, profiles
  <2> QED
    BY <2>1, <2>3, <2>4, <2>5 DEF Configs
<1>5. CASE Job(p) = "instance"
  <2>1. File(p) = "config" /\ command[p].name \in VMs
    BY <1>5, JobCases
  <2>2. Mutated(p) = SaveInstance(p, raw[p])
    BY <1>5 DEF Mutated
  <2> DEFINE machines == [raw[p].vms EXCEPT ![command[p].name] = p]
             flat == IF command[p].name = Default THEN None ELSE raw[p].flat
  <2>3. raw[p] \in Configs
    BY <1>1, <2>1
  <2>4. machines \in [VMs -> Values] /\ flat \in Values
    BY <1>2, <2>1, <2>3 DEF Configs, Values
  <2>5. Mutated(p) = [raw[p] EXCEPT !.vms = machines, !.flat = flat]
    BY <2>2 DEF SaveInstance
  <2> HIDE DEF machines, flat
  <2> QED
    BY <2>1, <2>3, <2>4, <2>5 DEF Configs
<1>6. CASE Job(p) = "choice"
  <2>1. File(p) = "config" /\ command[p].name \in VMs
    BY <1>6, JobCases
  <2>2. Mutated(p) = SaveCurrentInstance(p, raw[p])
    BY <1>6 DEF Mutated
  <2> QED
    BY <1>1, <2>1, <2>2 DEF SaveCurrentInstance, Configs
<1>7. CASE Job(p) \in {"token", "untoken"}
  <2>1. File(p) = "credentials" /\ command[p].name \in Profiles
    BY <1>7, JobCases
  <2>2. Mutated(p) \in {[raw[p] EXCEPT ![command[p].name] = None], [raw[p] EXCEPT ![command[p].name] = p]}
    BY <1>7 DEF Mutated, SaveTokenFor, RemoveTokenFor
  <2> QED
    BY <1>1, <1>2, <2>1, <2>2 DEF Tokens, Values
<1>8. CASE Job(p) = "ref"
  <2>1. File(p) = "refs" /\ command[p].name \in Refs
    BY <1>8, JobCases
  <2>2. Mutated(p) = [raw[p] EXCEPT ![command[p].name] = p]
    BY <1>8 DEF Mutated, SaveRefs
  <2> QED
    BY <1>1, <1>2, <2>1, <2>2 DEF RefMaps
<1>9. CASE Job(p) = "context"
  <2>1. File(p) = "kube" /\ command[p].name \in VMs
    BY <1>9, JobCases
  <2>2. Mutated(p) = [raw[p] EXCEPT ![command[p].name] = p]
    BY <1>9 DEF Mutated, AddContext
  <2> QED
    BY <1>1, <1>2, <2>1, <2>2 DEF Contexts
<1> QED
  BY <1>3, <1>4, <1>5, <1>6, <1>7, <1>8, <1>9, JobCases

-----------------------------------------------------------------------------
LEMMA FirstJob ==
  ASSUME NEW c \in Ops
  PROVE  1 \in DOMAIN Jobs(c) /\ DOMAIN Jobs(c) = 1..Len(Jobs(c)) /\ Len(Jobs(c)) \in {1, 2}
<1>1. c.op \in {"set", "select", "remove", "token", "provision", "purge", "vm", "choose", "context", "thread"}
  BY DEF Ops
<1>2. \/ Jobs(c) = <<"profiles", "token">> \/ Jobs(c) = <<"forget", "untoken">>
      \/ Jobs(c) = <<"profiles">> \/ Jobs(c) = <<"instance">> \/ Jobs(c) = <<"choice">>
      \/ Jobs(c) = <<"ref">> \/ Jobs(c) = <<"context">> \/ Jobs(c) = <<"token">>
  BY <1>1 DEF Jobs, ProfileSet, ProfileSelect, ProfileRemove, AuthSetToken, ProvisionLocalProfile,
     ForgetLocalProfile, LocalConfigSet, LocalSelect, LocalKubeconfig, ThreadsCreate
<1> QED
  BY <1>2

\* What holds of a process stays, when a step leaves its variables alone.
LEMMA Untouched ==
  ASSUME FilesInv, command' = command, NEW q \in Procs,
         pc'[q] = pc[q], job'[q] = job[q], loaded'[q] = loaded[q], raw'[q] = raw[q]
  PROVE  /\ job'[q] \in DOMAIN Jobs(command'[q])
         /\ File(q)' = File(q) /\ Job(q)' = Job(q)
         /\ pc'[q] \in {"write", "fill"} =>
              /\ File(q)' = "config" => raw'[q] \in Configs
              /\ File(q)' = "credentials" => raw'[q] \in Tokens
              /\ File(q)' = "refs" => raw'[q] \in RefMaps
              /\ File(q)' = "kube" => raw'[q] \in Contexts
         /\ pc'[q] \in {"read", "write", "fill"} /\ command'[q].op = "select" =>
              loaded'[q].profiles[command'[q].name] # None
<1>1. File(q)' = File(q) /\ Job(q)' = Job(q)
  BY DEF File, Job
<1> QED
  BY <1>1 DEF FilesInv, FilesTypeOK, SelectsConfigured

\* A step of one process keeps the invariant if it keeps the files' types and
\* what is said of the process.
LEMMA OneProcess ==
  ASSUME FilesInv, NEW p \in Procs, command' = command,
         text' \in [config : Configs, credentials : Tokens, refs : RefMaps, kube : Contexts],
         state' \in States,
         kills' \in 0..MaxKills,
         pc' = [pc EXCEPT ![p] = pc'[p]],
         pc'[p] \in {"load", "read", "write", "fill", "done"},
         job' = [job EXCEPT ![p] = job'[p]],
         job'[p] \in DOMAIN Jobs(command'[p]),
         loaded' = [loaded EXCEPT ![p] = loaded'[p]],
         loaded'[p] \in Configs,
         raw' = [raw EXCEPT ![p] = raw'[p]],
         pc'[p] \in {"write", "fill"} =>
           /\ File(p)' = "config" => raw'[p] \in Configs
           /\ File(p)' = "credentials" => raw'[p] \in Tokens
           /\ File(p)' = "refs" => raw'[p] \in RefMaps
           /\ File(p)' = "kube" => raw'[p] \in Contexts,
         pc'[p] \in {"read", "write", "fill"} /\ command'[p].op = "select" =>
           loaded'[p].profiles[command'[p].name] # None
  PROVE  FilesInv'
<1>1. job' = [q \in Procs |-> job'[q]] /\ raw' = [q \in Procs |-> raw'[q]]
  BY DEF FilesInv
<1>2. pc' \in [Procs -> {"load", "read", "write", "fill", "done"}]
  BY DEF FilesInv, FilesTypeOK
<1>3. loaded' \in [Procs -> Configs]
  BY DEF FilesInv, FilesTypeOK
<1>4. command' \in [Procs -> Ops]
  BY DEF FilesInv, FilesTypeOK
<1>5. ASSUME NEW q \in Procs, q # p
      PROVE  pc'[q] = pc[q] /\ job'[q] = job[q] /\ loaded'[q] = loaded[q] /\ raw'[q] = raw[q]
  BY <1>5 DEF FilesInv, FilesTypeOK
<1>6. \A q \in Procs : job'[q] \in DOMAIN Jobs(command'[q])
  BY <1>5, Untouched
<1>7. ASSUME NEW q \in Procs
      PROVE  pc'[q] \in {"write", "fill"} =>
               /\ File(q)' = "config" => raw'[q] \in Configs
               /\ File(q)' = "credentials" => raw'[q] \in Tokens
               /\ File(q)' = "refs" => raw'[q] \in RefMaps
               /\ File(q)' = "kube" => raw'[q] \in Contexts
  BY <1>5, Untouched
<1>8. ASSUME NEW q \in Procs
      PROVE  pc'[q] \in {"read", "write", "fill"} /\ command'[q].op = "select" =>
               loaded'[q].profiles[command'[q].name] # None
  BY <1>5, Untouched
<1>9. FilesTypeOK'
  BY <1>2, <1>3, <1>4, <1>6, <1>7 DEF FilesTypeOK
<1> QED
  BY <1>1, <1>8, <1>9 DEF FilesInv, SelectsConfigured

LEMMA EndsKeeps ==
  ASSUME FilesInv, NEW p \in Procs, Ends(p), command' = command,
         text' \in [config : Configs, credentials : Tokens, refs : RefMaps, kube : Contexts],
         state' \in States,
         kills' \in 0..MaxKills
  PROVE  FilesInv'
<1>1. pc'[p] = "done" /\ job'[p] = 1 /\ loaded'[p] = NoConfig /\ raw'[p] = NoConfig
  BY DEF Ends, FilesInv, FilesTypeOK
<1>2. /\ pc' = [pc EXCEPT ![p] = pc'[p]] /\ job' = [job EXCEPT ![p] = job'[p]]
      /\ loaded' = [loaded EXCEPT ![p] = loaded'[p]] /\ raw' = [raw EXCEPT ![p] = raw'[p]]
  BY <1>1 DEF Ends
<1>3. command'[p] \in Ops
  BY DEF FilesInv, FilesTypeOK
<1> QED
  BY <1>1, <1>2, <1>3, FirstJob, NoConfigTyped, OneProcess

-----------------------------------------------------------------------------
LEMMA InitKeeps ==
  ASSUME FilesInit
  PROVE  FilesInv
<1>1. PICK c \in Machines :
        text = [config |-> c, credentials |-> c.profiles, refs |-> [n \in Refs |-> None],
                kube |-> c.vms]
  BY DEF FilesInit
<1>2. c \in Configs
  BY MachinesAssumption
<1>3. text \in [config : Configs, credentials : Tokens, refs : RefMaps, kube : Contexts]
  BY <1>1, <1>2 DEF Configs, Tokens, RefMaps, Contexts, Values
<1>4. command \in [Procs -> Ops]
  BY FilesAssumption DEF FilesInit
<1>5. \A p \in Procs : job[p] \in DOMAIN Jobs(command[p])
  BY <1>4, FirstJob DEF FilesInit
<1>6. FilesTypeOK
  BY <1>3, <1>4, <1>5, NoConfigTyped, FilesAssumption DEF FilesInit, FilesTypeOK, Files, States
<1> QED
  BY <1>6 DEF FilesInv, FilesInit, SelectsConfigured

LEMMA StepKeeps ==
  ASSUME FilesInv, [FilesNext]_filesVars
  PROVE  FilesInv'
<1> USE DEF FilesInv
<1>1. CASE UNCHANGED filesVars
  <2>1. \A p \in Procs : File(p)' = File(p)
    BY <1>1 DEF filesVars, File, Job
  <2> QED
    BY <1>1, <2>1 DEF filesVars, FilesTypeOK, SelectsConfigured
<1>2. ASSUME NEW p \in Procs, Load(p)
      PROVE  FilesInv'
  <2> DEFINE cfg == Migrated(Content("config"))
  <2>1. cfg \in Configs
    BY ContentTyped, MigratedTyped
  <2>2. CASE Required(p, cfg) /\ loaded' = [loaded EXCEPT ![p] = cfg] /\ Goes(p, "read")
              /\ UNCHANGED <<job, raw>>
    <3>1. pc'[p] = "read" /\ loaded'[p] = cfg
      BY <2>2 DEF Goes, FilesTypeOK
    <3>2. command[p].op = "select" => cfg.profiles[command[p].name] # None
      BY <2>2 DEF Required, RequireProfile
    <3>3. job' = [job EXCEPT ![p] = job'[p]] /\ raw' = [raw EXCEPT ![p] = raw'[p]]
      BY <2>2
    <3>4. pc' = [pc EXCEPT ![p] = pc'[p]] /\ loaded' = [loaded EXCEPT ![p] = loaded'[p]]
      BY <2>2, <3>1 DEF Goes
    <3> HIDE DEF cfg
    <3>5. loaded'[p] \in Configs
      BY <2>1, <3>1
    <3> QED
      BY <1>2, <2>2, <3>1, <3>2, <3>3, <3>4, <3>5, OneProcess DEF Load, FilesTypeOK
  <2>3. CASE Ends(p)
    BY <1>2, <2>3, EndsKeeps DEF Load, FilesTypeOK
  <2> QED
    BY <1>2, <2>2, <2>3 DEF Load
<1>3. ASSUME NEW p \in Procs, LoadFails(p)
      PROVE  FilesInv'
  BY <1>3, EndsKeeps DEF LoadFails, FilesTypeOK
<1>10. ASSUME NEW p \in Procs, GivesUp(p)
       PROVE  FilesInv'
  BY <1>10, EndsKeeps DEF GivesUp, FilesTypeOK
<1>4. ASSUME NEW p \in Procs, ReadForWrite(p)
      PROVE  FilesInv'
  <2>1. /\ pc[p] = "read" /\ pc'[p] = "write" /\ raw'[p] = Content(File(p))
        /\ File(p)' = File(p) /\ (File(p) = "refs" => state["refs"] = "whole")
    BY <1>4 DEF ReadForWrite, Goes, FilesTypeOK, File, Job
  <2>2. /\ pc' = [pc EXCEPT ![p] = pc'[p]] /\ job' = [job EXCEPT ![p] = job'[p]]
        /\ loaded' = [loaded EXCEPT ![p] = loaded'[p]] /\ raw' = [raw EXCEPT ![p] = raw'[p]]
    BY <1>4, <2>1 DEF ReadForWrite, Goes, FilesTypeOK
  <2>3. /\ File(p)' = "config" => raw'[p] \in Configs
        /\ File(p)' = "credentials" => raw'[p] \in Tokens
        /\ File(p)' = "refs" => raw'[p] \in RefMaps
        /\ File(p)' = "kube" => raw'[p] \in Contexts
    BY <2>1, ContentTyped
  <2> QED
    BY <1>4, <2>1, <2>2, <2>3, OneProcess DEF ReadForWrite, FilesTypeOK, SelectsConfigured
<1>5. ASSUME NEW p \in Procs, NothingToRemove(p)
      PROVE  FilesInv'
  BY <1>5, EndsKeeps DEF NothingToRemove, FilesTypeOK
<1>6. ASSUME NEW p \in Procs, Truncate(p)
      PROVE  FilesInv'
  <2>1. pc[p] = "write" /\ pc'[p] = "fill" /\ File(p)' = File(p)
    BY <1>6 DEF Truncate, Goes, FilesTypeOK, File, Job
  <2>2. state' \in States
    BY <1>6 DEF Truncate, FilesTypeOK, States, Files
  <2>3. /\ pc' = [pc EXCEPT ![p] = pc'[p]] /\ job' = [job EXCEPT ![p] = job'[p]]
        /\ loaded' = [loaded EXCEPT ![p] = loaded'[p]] /\ raw' = [raw EXCEPT ![p] = raw'[p]]
    BY <1>6, <2>1 DEF Truncate, Goes, FilesTypeOK
  <2>4. /\ File(p)' = "config" => raw'[p] \in Configs
        /\ File(p)' = "credentials" => raw'[p] \in Tokens
        /\ File(p)' = "refs" => raw'[p] \in RefMaps
        /\ File(p)' = "kube" => raw'[p] \in Contexts
    BY <1>6, <2>1 DEF Truncate, FilesTypeOK
  <2> QED
    BY <1>6, <2>1, <2>2, <2>3, <2>4, OneProcess DEF Truncate, FilesTypeOK, SelectsConfigured
<1>7. ASSUME NEW p \in Procs, Fill(p)
      PROVE  FilesInv'
  <2>1. File(p) \in Files
    BY JobCases DEF Files
  <2>2. text' \in [config : Configs, credentials : Tokens, refs : RefMaps, kube : Contexts]
    BY <1>7, <2>1, MutatedTyped DEF Fill, FilesTypeOK, Files
  <2>3. state' \in States
    BY <1>7 DEF Fill, FilesTypeOK, States, Files
  <2>4. CASE /\ job[p] < Len(Jobs(command[p])) /\ job' = [job EXCEPT ![p] = @ + 1]
             /\ Goes(p, "read") /\ UNCHANGED <<loaded, raw>>
    <3>1. pc[p] = "fill" /\ pc'[p] = "read" /\ job'[p] = job[p] + 1
      BY <1>7, <2>4 DEF Fill, Goes, FilesTypeOK
    <3>2. job'[p] \in DOMAIN Jobs(command[p])
      BY <2>4, <3>1, FirstJob DEF FilesTypeOK
    <3>3. /\ pc' = [pc EXCEPT ![p] = pc'[p]] /\ job' = [job EXCEPT ![p] = job'[p]]
          /\ loaded' = [loaded EXCEPT ![p] = loaded'[p]] /\ raw' = [raw EXCEPT ![p] = raw'[p]]
      BY <2>4, <3>1 DEF Goes, FilesTypeOK
    <3> QED
      BY <1>7, <2>2, <2>3, <2>4, <3>1, <3>2, <3>3, OneProcess DEF Fill, FilesTypeOK, SelectsConfigured
  <2>5. CASE Ends(p)
    BY <1>7, <2>2, <2>3, <2>5, EndsKeeps DEF Fill, FilesTypeOK
  <2> QED
    BY <1>7, <2>4, <2>5 DEF Fill
<1>8. ASSUME NEW p \in Procs, MergeKubeconfig(p)
      PROVE  FilesInv'
  <2>1. text' \in [config : Configs, credentials : Tokens, refs : RefMaps, kube : Contexts]
    BY <1>8, MutatedTyped DEF MergeKubeconfig, FilesTypeOK
  <2> QED
    BY <1>8, <2>1, EndsKeeps DEF MergeKubeconfig, FilesTypeOK
<1>9. ASSUME NEW p \in Procs, Kill(p)
      PROVE  FilesInv'
  <2>1. kills' \in 0..MaxKills
    BY <1>9, FilesAssumption DEF Kill, FilesTypeOK
  <2> QED
    BY <1>9, <2>1, EndsKeeps DEF Kill, FilesTypeOK
<1> QED
  BY <1>1, <1>2, <1>3, <1>4, <1>5, <1>6, <1>7, <1>8, <1>9, <1>10 DEF FilesNext

-----------------------------------------------------------------------------
\* Only a write that goes through changes a file.
LEMMA OnlyWrites ==
  ASSUME FilesInv, FilesNext, NEW p \in Procs, Writes(p)
  PROVE  /\ pc[p] \in {"write", "fill"} /\ text'[File(p)] = Mutated(p)
<1> USE DEF Writes, FilesInv
<1>1. ASSUME NEW q \in Procs, Load(q) \/ LoadFails(q) \/ GivesUp(q) \/ ReadForWrite(q)
                \/ NothingToRemove(q) \/ Truncate(q) \/ Kill(q)
      PROVE  FALSE
  BY <1>1 DEF Load, LoadFails, GivesUp, ReadForWrite, NothingToRemove, Truncate, Kill, Goes, FilesTypeOK
<1>2. ASSUME NEW q \in Procs, Fill(q) \/ MergeKubeconfig(q), q # p
      PROVE  pc'[p] = pc[p]
  BY <1>2 DEF Fill, MergeKubeconfig, Goes, Ends, FilesTypeOK
<1>3. Fill(p) \/ MergeKubeconfig(p)
  BY <1>1, <1>2 DEF FilesNext
<1>4. File(p) \in Files
  BY JobCases DEF Files
<1> QED
  BY <1>3, <1>4 DEF Fill, MergeKubeconfig, FilesTypeOK, Files

LEMMA WriteKeepsOthers ==
  ASSUME FilesInv, NEW p \in Procs, pc[p] \in {"write", "fill"}, text'[File(p)] = Mutated(p)
  PROVE  KeepsOthers(p)
<1> DEFINE name == command[p].name
           before == text[File(p)]
<1>0. FilesTypeOK
  BY DEF FilesInv
<1>1. CASE File(p) # "config"
  <2>1. Job(p) \in {"token", "untoken", "ref", "context"}
    BY <1>0, <1>1, JobCases
  <2>2. Mutated(p) = [raw[p] EXCEPT ![name] = IF Job(p) = "untoken" THEN None ELSE p]
    BY <2>1 DEF Mutated, SaveTokenFor, RemoveTokenFor, SaveRefs, AddContext
  <2>3. DOMAIN before = DOMAIN raw[p]
    BY <1>0, <1>1, JobCases DEF FilesTypeOK, Tokens, RefMaps, Contexts
  <2> QED
    BY <1>1, <2>2, <2>3 DEF KeepsOthers
<1>2. CASE File(p) = "config"
  <2> DEFINE after == Mutated(p)
  <2>1. /\ raw[p] \in Configs /\ loaded[p] \in Configs
        /\ before \in Configs /\ after \in Configs
    BY <1>0, <1>2, MutatedTyped DEF FilesTypeOK
  <2>6. text'[File(p)] = after
    OBVIOUS
  <2>2. CASE Job(p) = "profiles"
    <3>1. after = SaveProfiles(p, raw[p])
      BY <2>2 DEF Mutated
    <3>2. /\ command[p].op \in {"set", "select", "provision"} /\ name \in Profiles
      BY <1>0, <2>2, JobCases
    <3>3. \A q \in Profiles : q # name => after.profiles[q] = loaded[p].profiles[q]
      <4>1. after.profiles = loaded[p].profiles
              \/ after.profiles = [loaded[p].profiles EXCEPT ![name] = p]
        BY <2>1, <3>1 DEF SaveProfiles, SetProfile, Configs
      <4>2. DOMAIN loaded[p].profiles = Profiles
        BY <2>1 DEF Configs
      <4> HIDE DEF after
      <4> QED
        BY <4>1, <4>2
    <3>4. after.vms = raw[p].vms /\ after.flat = raw[p].flat /\ after.chosen = raw[p].chosen
      BY <2>1, <3>1 DEF SaveProfiles, SetProfile, Configs
    <3>5. Migrated(after).vms = Migrated(raw[p]).vms
      BY <2>1, <3>4 DEF Migrated, Configs
    <3>6. \/ command[p].op = "select"
          \/ command[p].op = "provision" /\ loaded[p].current = None
          \/ after.current = (IF loaded[p].current = None THEN raw[p].current ELSE loaded[p].current)
      BY <2>1, <3>1 DEF SaveProfiles, SetProfile, Configs
    <3> HIDE DEF after
    <3> QED
      BY <1>2, <2>2, <2>6, <3>2, <3>3, <3>4, <3>5, <3>6 DEF KeepsOthers, Known
  <2>3. CASE Job(p) = "forget"
    <3>1. after = RemoveProfile(p, raw[p])
      BY <2>3 DEF Mutated
    <3>3. \A q \in Profiles : q # name => after.profiles[q] = raw[p].profiles[q]
      BY <2>1, <3>1 DEF RemoveProfile, Configs
    <3>4. after.vms = raw[p].vms /\ after.flat = raw[p].flat /\ after.chosen = raw[p].chosen
      BY <2>1, <3>1 DEF RemoveProfile, Configs
    <3>5. Migrated(after).vms = Migrated(raw[p]).vms
      BY <2>1, <3>4 DEF Migrated, Configs
    <3>6. after.current = raw[p].current \/ raw[p].current = name
      BY <2>1, <3>1 DEF RemoveProfile, Configs
    <3> HIDE DEF after
    <3> QED
      BY <1>2, <2>3, <2>6, <3>3, <3>4, <3>5, <3>6 DEF KeepsOthers, Known
  <2>4. CASE Job(p) = "instance"
    <3>1. after = SaveInstance(p, raw[p])
      BY <2>4 DEF Mutated
    <3>2. name \in VMs
      BY <1>0, <2>4, JobCases
    <3>3. /\ after.profiles = raw[p].profiles /\ after.current = raw[p].current
          /\ after.chosen = raw[p].chosen
      BY <2>1, <3>1 DEF SaveInstance, Configs
    <3>4. /\ after.vms = [raw[p].vms EXCEPT ![name] = p]
          /\ after.flat = (IF name = Default THEN None ELSE raw[p].flat)
      BY <2>1, <3>1 DEF SaveInstance, Configs
    <3>5. \A c \in Configs : \A i \in VMs :
            Migrated(c).vms[i] = IF i = Default /\ c.vms[i] = None THEN c.flat ELSE c.vms[i]
      BY FilesAssumption DEF Migrated, Configs
    <3>6. \A i \in VMs : i # name => Migrated(after).vms[i] = Migrated(raw[p]).vms[i]
      BY <2>1, <3>2, <3>4, <3>5 DEF Configs
    <3> HIDE DEF after
    <3> QED
      BY <1>2, <2>4, <2>6, <3>3, <3>6 DEF KeepsOthers, Known
  <2>5. CASE Job(p) = "choice"
    <3>1. after = SaveCurrentInstance(p, raw[p])
      BY <2>5 DEF Mutated
    <3>2. /\ after.profiles = raw[p].profiles /\ after.current = raw[p].current
          /\ after.vms = raw[p].vms /\ after.flat = raw[p].flat
      BY <2>1, <3>1 DEF SaveCurrentInstance, Configs
    <3>3. Migrated(after).vms = Migrated(raw[p]).vms
      BY <2>1, <3>2 DEF Migrated, Configs
    <3> HIDE DEF after
    <3> QED
      BY <1>2, <2>5, <2>6, <3>2, <3>3 DEF KeepsOthers, Known
  <2> QED
    BY <1>0, <1>2, <2>2, <2>3, <2>4, <2>5, JobCases
<1> QED
  BY <1>1, <1>2

LEMMA WriteKeepsCurrent ==
  ASSUME FilesInv, NEW p \in Procs, pc[p] \in {"write", "fill"}, text'[File(p)] = Mutated(p),
         File(p) = "config", CurrentOK(text["config"])
  PROVE  CurrentOK(text'["config"]) \/ BreaksCurrentStale(p)
<1> DEFINE name == command[p].name
           after == Mutated(p)
<1>0. FilesTypeOK
  BY DEF FilesInv
<1>1. text'["config"] = after
  OBVIOUS
<1>2. /\ raw[p] \in Configs /\ loaded[p] \in Configs /\ p # None
  BY <1>0, FilesAssumption DEF FilesTypeOK
<1>3. SUFFICES ASSUME \A c \in {loaded[p], raw[p]} : CurrentOK(c)
               PROVE  CurrentOK(after) \/ loaded[p].current # raw[p].current
  <2>1. ASSUME ~BreaksCurrentStale(p)
        PROVE  /\ \A c \in {loaded[p], raw[p]} : CurrentOK(c)
               /\ loaded[p].current = raw[p].current
    BY <2>1 DEF BreaksCurrentStale, CurrentOK
  <2> QED
    BY <1>1, <2>1
<1>4. CASE Job(p) = "profiles"
  <2>1. after = SaveProfiles(p, raw[p])
    BY <1>4 DEF Mutated
  <2>2. command[p].op \in {"set", "select", "provision"} /\ name \in Profiles
    BY <1>0, <1>4, JobCases
  <2>3. after.profiles = IF command[p].op = "select" THEN loaded[p].profiles
                         ELSE [loaded[p].profiles EXCEPT ![name] = p]
    BY <1>2, <2>1 DEF SaveProfiles, SetProfile, Configs
  <2>4. \/ command[p].op = "select" /\ after.current = name
        \/ command[p].op = "provision" /\ loaded[p].current = None /\ after.current = name
        \/ after.current = (IF loaded[p].current = None THEN raw[p].current ELSE loaded[p].current)
    BY <1>2, <2>1, <2>2, FilesAssumption DEF SaveProfiles, SetProfile, Configs
  <2>5. command[p].op = "select" => loaded[p].profiles[name] # None
    BY DEF FilesInv, SelectsConfigured
  <2> HIDE DEF after
  <2> QED
    BY <1>2, <1>3, <2>2, <2>3, <2>4, <2>5 DEF CurrentOK, Configs
<1>5. CASE Job(p) = "forget"
  <2>1. after = RemoveProfile(p, raw[p])
    BY <1>5 DEF Mutated
  <2>2. /\ after.profiles = [raw[p].profiles EXCEPT ![name] = None]
        /\ after.current = (IF raw[p].current = name THEN None ELSE raw[p].current)
    BY <1>2, <2>1 DEF RemoveProfile, Configs
  <2> HIDE DEF after
  <2> QED
    BY <1>2, <1>3, <2>2 DEF CurrentOK, Configs
<1>6. CASE Job(p) \in {"instance", "choice"}
  <2>1. after \in {SaveInstance(p, raw[p]), SaveCurrentInstance(p, raw[p])}
    BY <1>6 DEF Mutated
  <2>2. after.profiles = raw[p].profiles /\ after.current = raw[p].current
    BY <1>2, <2>1 DEF SaveInstance, SaveCurrentInstance, Configs
  <2> HIDE DEF after
  <2> QED
    BY <1>3, <2>2 DEF CurrentOK
<1> QED
  BY <1>0, <1>4, <1>5, <1>6, JobCases

-----------------------------------------------------------------------------
\* The invariant of any number of commands on the shared files: the types, and
\* that a command about to select a profile has found it (useCmd, Load).
THEOREM FilesInvariant == FilesSpec => []FilesInv
<1>1. FilesInit => FilesInv
  BY InitKeeps
<1>2. FilesInv /\ [FilesNext]_filesVars => FilesInv'
  BY StepKeeps
<1> QED
  BY <1>1, <1>2, PTL DEF FilesSpec

\* The files and what commands hold of them keep their types.
THEOREM FilesTypes == FilesSpec => []FilesTypeOK
<1>1. FilesInv => FilesTypeOK
  BY DEF FilesInv
<1> QED
  BY <1>1, FilesInvariant, PTL

\* A command changes a key that is not its own only from a stale read.
THEOREM KeepOthers == FilesSpec => WritesKeepOthers
<1>1. FilesInv /\ [FilesNext]_filesVars =>
        [\A p \in Procs : Writes(p) => KeepsOthers(p)]_filesVars
  BY OnlyWrites, WriteKeepsOthers
<1> QED
  BY <1>1, FilesInvariant, PTL DEF FilesSpec, WritesKeepOthers

\* A command leaves a selection that is not configured only from a stale read.
THEOREM CurrentConfigured == FilesSpec => CurrentStaysConfigured
<1>1. FilesInv /\ [FilesNext]_filesVars =>
        [\A p \in Procs :
           Writes(p) /\ File(p) = "config" /\ CurrentOK(text["config"]) =>
             CurrentOK(text'["config"]) \/ BreaksCurrentStale(p)]_filesVars
  BY OnlyWrites, WriteKeepsCurrent
<1> QED
  BY <1>1, FilesInvariant, PTL DEF FilesSpec, CurrentStaysConfigured

-----------------------------------------------------------------------------
(***************************************************************************)
(* LocalVM.                                                                *)
(***************************************************************************)
\* Types.
Phases ==
  {"look", "port", "have", "fetch", "copy", "rename", "unpack", "unpacking", "save", "create",
   "creating", "ca", "halt", "boot", "wait", "token", "secret", "rollout", "point", "controller",
   "overlay", "identities", "urls", "profile", "store", "clear", "helm", "helming", "replace",
   "drop", "sweep", "forget"}
AnyPort == 0..MaxPort
Disks == {"none", "part", "full"}
RunRecords ==
  [at : Phases, cmd : LocalCommands, serial : Nat, port : AnyPort, picked : BOOLEAN,
   token : Nat, from : AnyPort, booted : BOOLEAN, beside : SUBSET Instances]
Hosts == [port : AnyPort, profile : AnyPort, token : Nat, ca : Nat]
Images ==
  [partial : {"none", "part", "whole", "mixed"}, archive : {"none", "good", "bad"},
   disk : Disks, by : Nat]
VMRecords ==
  [status : {"absent", "half", "stopped", "running"}, port : AnyPort, serves : AnyPort,
   disk : Disks, ca : Nat]
Guests ==
  [secret : Nat, gateway : Nat, controller : AnyPort, overlay : AnyPort, identities : AnyPort,
   urls : AnyPort, chart : AnyPort, release : {"deployed", "pending"}]

VMTypes ==
  /\ host \in [Instances -> Hosts] /\ image \in Images
  /\ vms \in [Instances -> VMRecords] /\ guests \in [Instances -> Guests]
  /\ run \in [Runs -> {Idle} \union RunRecords]
  /\ todo \in [Runs -> Seq(LocalCommands)]
  /\ begun \in Nat /\ cuts \in Nat

\* Which commands get where.
Upgrades == {"upgrade", "resume"}
AfterBoot ==
  {"ca", "wait", "token", "secret", "rollout", "point", "controller", "overlay", "identities",
   "urls", "profile", "store"}
OnItsWay(r) ==
  /\ run[r].at \in {"token", "secret", "rollout", "profile", "store"} => OpOf(r) \notin Upgrades
  /\ run[r].at \in {"clear", "helm", "helming"} => OpOf(r) \in Upgrades
  /\ run[r].at = "sweep" => OpOf(r) = "purge"
  /\ run[r].booted => run[r].at \in AfterBoot

\* Commands have serials of their own, and know whom they run beside.
Apart ==
  /\ image.by <= Earlier + begun
  /\ \A r \in Runs : Active(r) => run[r].serial <= Earlier + begun
  /\ \A r, s \in Runs :
       Active(r) /\ Active(s) /\ r # s =>
         run[r].serial # run[s].serial /\ Touched(run[s].cmd) \subseteq run[r].beside

\* A disk that is not complete is being filled, or was by a command that is gone.
DiskExplained ==
  image.disk = "part" =>
    \/ TornDisk \in scars /\ \A r \in Runs : Active(r) => run[r].serial # image.by
    \/ \E r \in Runs : Step(r, "unpacking") /\ run[r].serial = image.by

PickIsFree(r) ==
  run[r].picked =>
    \A j \in Instances \ {VMOf(r)} : host[j].port = run[r].port => j \in run[r].beside

\* The Gateway has read the Secret, and the identities follow the controller,
\* unless a script is on its way to that or was cut short.
GatewayFollows(i) ==
  \/ StaleGateway(i) \in scars
  \/ guests[i].gateway = guests[i].secret
  \/ \E r \in Runs : Step(r, "rollout") /\ VMOf(r) = i
IdentitiesFollow(i) ==
  \/ StrayIdentities(i) \in scars
  \/ guests[i].identities = guests[i].controller
  \/ \E r \in Runs :
       /\ Step(r, "overlay") \/ Step(r, "identities")
       /\ VMOf(r) = i /\ run[r].port = guests[i].controller /\ run[r].from = guests[i].identities

\* What a command has brought about by the time it is somewhere, if no other
\* acted on its VM.
Alone(r) == Active(r) /\ VMOf(r) \notin run[r].beside
Strayed(i) == StrayIdentities(i) \in scars
Achieved(r) ==
  LET i == VMOf(r)
      g == guests[i]
      p == run[r].port
      at == run[r].at
  IN /\ run[r].booted => vms[i].port = p
     /\ at \in {"rollout", "point", "controller", "overlay", "identities", "urls", "profile", "store"}
          /\ OpOf(r) \notin Upgrades => g.secret = run[r].token
     /\ at \in {"overlay", "identities"} =>
          g.controller = p /\ (Strayed(i) \/ g.identities \in {run[r].from, p})
     /\ at = "identities" => g.overlay = p
     /\ at \in {"urls", "profile", "store"} => Settled(g, p) /\ (Strayed(i) \/ g.identities = p)
     /\ at \in {"profile", "store"} => g.urls = p
     /\ at = "store" => host[i].profile = p /\ host[i].ca = vms[i].ca

OnTheirWay == \A r \in Runs : Active(r) => OnItsWay(r)
PicksAreFree == \A r \in Runs : Active(r) => PickIsFree(r)
Follows(i) == GatewayFollows(i) /\ IdentitiesFollow(i)
AllFollow == \A i \in Instances : Follows(i)
AllAchieved == \A r \in Runs : Alone(r) => Achieved(r)

\* The inductive invariant.
VMInv ==
  VMTypes /\ Apart /\ OnTheirWay /\ PicksAreFree /\ DiskExplained /\ AllFollow /\ AllAchieved

-----------------------------------------------------------------------------
\* Lemmas about the operators of the model.

LEMMA MinIsIn ==
  ASSUME NEW set \in SUBSET Nat, set # {}
  PROVE  Min(set) \in set
<1> DEFINE less == {pair \in Nat \X Nat : pair[1] < pair[2]}
<1>1. IsWellFoundedOn(less, Nat) BY NatLessThanWellFounded DEF OpToRel
<1>2. PICK x \in set : \A y \in set : <<y, x>> \notin less
  BY <1>1, WFMin
<1>3. \A y \in set : x <= y
  <2> TAKE y \in set
  <2>1. <<y, x>> \in less <=> y < x OBVIOUS
  <2> QED BY <1>2, <2>1
<1> QED BY <1>3 DEF Min

LEMMA FreePortsTyped ==
  ASSUME NEW i \in Instances
  PROVE  FreePorts(i) \subseteq Ports /\ Ports \subseteq Nat /\ Ports \subseteq AnyPort
BY LocalVMAssumption DEF FreePorts, Ports, AnyPort

LEMMA ResolvedIsPort ==
  ASSUME VMTypes, NEW i \in Instances
  PROVE  /\ ResolvedPort(i) \in AnyPort
         /\ host[i].port = 0 /\ i # Main /\ FreePorts(i) # {} => ResolvedPort(i) \in FreePorts(i)
<1>1. host[i].port \in AnyPort BY DEF VMTypes, Hosts
<1>2. 1 \in AnyPort /\ 2 \in AnyPort BY LocalVMAssumption DEF AnyPort
<1>3. FreePorts(i) # {} => Min(FreePorts(i)) \in FreePorts(i)
  <2> SUFFICES ASSUME FreePorts(i) # {} PROVE Min(FreePorts(i)) \in FreePorts(i)
    OBVIOUS
  <2>1. FreePorts(i) \in SUBSET Nat BY FreePortsTyped
  <2> QED BY <2>1, MinIsIn
<1>4. FreePorts(i) \subseteq AnyPort BY FreePortsTyped
<1> QED BY <1>1, <1>2, <1>3, <1>4 DEF ResolvedPort

\* What commands leave behind is told apart.
LEMMA ScarsDiffer ==
  \A i, j : /\ TornDisk # StaleGateway(i) /\ TornDisk # StrayIdentities(i)
            /\ StaleGateway(i) # StrayIdentities(j)
            /\ StaleGateway(i) = StaleGateway(j) => i = j
            /\ StrayIdentities(i) = StrayIdentities(j) => i = j
BY DEF TornDisk, StaleGateway, StrayIdentities

LEMMA IdleIsNoRecord ==
  /\ Idle \notin RunRecords /\ Idle.at = "idle" /\ "idle" \notin Phases
  /\ \A x \in RunRecords : x # Idle /\ x.at # "idle"
<1>1. Idle.at = "idle" BY DEF Idle
<1>2. "idle" \notin Phases BY DEF Phases
<1>3. \A x \in RunRecords : x.at \in Phases BY DEF RunRecords
<1> QED BY <1>1, <1>2, <1>3

\* An active terminal has a command on a VM.
LEMMA ActiveIsTyped ==
  ASSUME VMTypes, NEW r \in Runs, Active(r)
  PROVE  /\ run[r] \in RunRecords
         /\ run[r].at \in Phases /\ run[r].serial \in Nat /\ run[r].port \in AnyPort
         /\ run[r].picked \in BOOLEAN /\ run[r].token \in Nat /\ run[r].from \in AnyPort
         /\ run[r].booted \in BOOLEAN /\ run[r].beside \subseteq Instances
         /\ VMOf(r) \in Instances /\ OpOf(r) \in LocalOps
         /\ run[r].cmd \in LocalCommands
         /\ Touched(run[r].cmd) \subseteq Instances /\ VMOf(r) \in Touched(run[r].cmd)
<1>1. run[r] \in RunRecords BY DEF VMTypes, Active
<1>2. run[r].cmd \in LocalCommands BY <1>1 DEF RunRecords
<1>3. VMOf(r) \in Instances /\ OpOf(r) \in LocalOps
  BY <1>2 DEF LocalCommands, VMOf, OpOf
<1>4. Touched(run[r].cmd) \subseteq Instances /\ VMOf(r) \in Touched(run[r].cmd)
  BY <1>3 DEF Touched, VMOf
<1> QED BY <1>1, <1>2, <1>3, <1>4 DEF RunRecords

-----------------------------------------------------------------------------
\* A step of a terminal.

\* The command goes on, or it ends.
MovedTo(r, phase) ==
  /\ run'[r].at = phase
  /\ run'[r].port = run[r].port /\ run'[r].picked = run[r].picked
  /\ run'[r].token = run[r].token /\ run'[r].from = run[r].from
  /\ run'[r].booted = run[r].booted

\* Of other terminals, and of what is told of the command, nothing changes.
Moves(r) ==
  /\ Active(r)
  /\ run' \in [Runs -> {Idle} \union RunRecords]
  /\ \A s \in Runs \ {r} : run'[s] = run[s]
  /\ run'[r] # Idle =>
       /\ run'[r].cmd = run[r].cmd /\ run'[r].serial = run[r].serial
       /\ run'[r].beside = run[r].beside
       /\ run'[r].picked => run[r].picked /\ run'[r].port = run[r].port

LEMMA GoingOn ==
  ASSUME VMTypes, NEW r \in Runs, Active(r), NEW phase \in Phases, Goto(r, phase)
  PROVE  Moves(r) /\ run'[r] # Idle /\ MovedTo(r, phase)
<1>1. run[r] \in RunRecords BY ActiveIsTyped
<1>2. run'[r] = [run[r] EXCEPT !.at = phase] /\ (\A s \in Runs \ {r} : run'[s] = run[s])
      /\ DOMAIN run' = Runs
  BY DEF Goto, VMTypes
<1>3. run'[r] \in RunRecords BY <1>1, <1>2 DEF RunRecords
<1>4. \A s \in Runs : run[s] \in {Idle} \union RunRecords BY DEF VMTypes
<1>5. run' \in [Runs -> {Idle} \union RunRecords]
  <2>1. \A s \in Runs : run'[s] \in {Idle} \union RunRecords BY <1>2, <1>3, <1>4
  <2>2. run' = [s \in Runs |-> run'[s]] BY DEF Goto, VMTypes
  <2> QED BY <2>1, <2>2
<1>6. run'[r] # Idle BY <1>3, IdleIsNoRecord
<1>7. MovedTo(r, phase) BY <1>1, <1>2 DEF MovedTo, RunRecords
<1>8. run'[r].cmd = run[r].cmd /\ run'[r].serial = run[r].serial /\ run'[r].beside = run[r].beside
  BY <1>1, <1>2 DEF RunRecords
<1> QED BY <1>2, <1>5, <1>6, <1>7, <1>8 DEF Moves, MovedTo

LEMMA Ending ==
  ASSUME VMTypes, NEW r \in Runs, Active(r), Finish(r)
  PROVE  Moves(r) /\ run'[r] = Idle
<1>1. run'[r] = Idle /\ (\A s \in Runs \ {r} : run'[s] = run[s]) BY DEF Finish, VMTypes
<1>2. run' \in [Runs -> {Idle} \union RunRecords] BY DEF Finish, VMTypes
<1> QED BY <1>1, <1>2 DEF Moves

\* What a step does to the files, to Lima and to guests is on the VM it is for;
\* delete --purge touches them all, but leaves ports, guests and their scars.
Spares(r) ==
  /\ \A j \in Instances \ Touched(run[r].cmd) : host'[j] = host[j] /\ vms'[j] = vms[j]
  /\ \A j \in Instances \ {VMOf(r)} : host'[j].port = host[j].port /\ guests'[j] = guests[j]
  /\ \A j \in Instances \ {VMOf(r)} :
       /\ StaleGateway(j) \in scars => StaleGateway(j) \in scars'
       /\ StrayIdentities(j) \in scars => StrayIdentities(j) \in scars'
  /\ image'.by \in {image.by, 0, run[r].serial}

WorldTypes ==
  /\ host \in [Instances -> Hosts] /\ image \in Images
  /\ vms \in [Instances -> VMRecords] /\ guests \in [Instances -> Guests]

\* A step as every action but Begin takes it.
Acts(r) == Moves(r) /\ Spares(r) /\ todo' = todo /\ begun' = begun

LEMMA TypesSplit ==
  ASSUME VMTypes
  PROVE  /\ WorldTypes
         /\ \A r \in Runs : Moves(r) /\ WorldTypes' /\ todo' = todo /\ begun' = begun /\ cuts' \in Nat
              => VMTypes'
BY DEF VMTypes, WorldTypes, Moves

\* Actions of which only the terminal knows.
QuietStep(r) ==
  \/ Look(r) \/ CheckPort(r) \/ HaveImage(r) \/ WaitForReady(r) \/ BootstrapToken(r)
  \/ CheckSettled(r) \/ HelmRefuses(r)
ImageStep(r) ==
  Fetch(r) \/ Copied(r) \/ Rename(r) \/ Unpack(r) \/ Unpacked(r) \/ UnpackFails(r)
MachineStep(r) ==
  \/ Save(r) \/ Create(r) \/ FirstBoot(r) \/ FirstBootFails(r) \/ EnsureCA(r) \/ Halt(r) \/ Boot(r)
  \/ WriteProfile(r) \/ StoreToken(r) \/ DeleteVM(r) \/ Sweep(r) \/ Forget(r)
GuestStep(r) ==
  \/ SetSecret(r) \/ RestartGateway(r) \/ MoveController(r) \/ MoveOverlay(r)
  \/ RewriteIdentities(r) \/ SetURLs(r) \/ ClearInterrupted(r) \/ HelmBegins(r) \/ HelmEnds(r)
  \/ Replace(r)
EndStep(r) == ScriptFails(r) \/ Cut(r)

LEMMA NextCases ==
  VMNext <=> \E r \in Runs : Begin(r) \/ QuietStep(r) \/ ImageStep(r) \/ MachineStep(r)
                              \/ GuestStep(r) \/ EndStep(r)
BY DEF VMNext, QuietStep, ImageStep, MachineStep, GuestStep, EndStep

LEMMA StandingStill ==
  ASSUME NEW r \in Runs, UNCHANGED <<host, image, vms, guests>>, scars \subseteq scars'
  PROVE  Spares(r)
BY DEF Spares

\* The terminal goes on or its command ends.
LEMMA OnOrOff ==
  ASSUME VMTypes, NEW r \in Runs, Active(r),
         Finish(r) \/ \E phase \in Phases : Goto(r, phase)
  PROVE  Moves(r)
BY GoingOn, Ending

LEMMA QuietStepActs ==
  ASSUME VMTypes, NEW r \in Runs, QuietStep(r)
  PROVE  VMTypes' /\ Acts(r)
<1>1. UNCHANGED <<host, image, vms, guests, scars>> /\ UNCHANGED <<todo, begun, cuts>> /\ Active(r)
  BY DEF QuietStep, Look, CheckPort, HaveImage, WaitForReady, BootstrapToken, CheckSettled,
         HelmRefuses, Fails, Rest, Step
<1>2. Spares(r) BY <1>1, StandingStill
<1>3. /\ run[r] \in RunRecords
      /\ \A s \in Runs : run[s] \in {Idle} \union RunRecords
      /\ DOMAIN run = Runs /\ run = [s \in Runs |-> run[s]]
  BY <1>1, ActiveIsTyped DEF VMTypes
<1>4. Moves(r)
  <2>1. CASE Look(r)
    <3>1. Finish(r) \/ \E phase \in Phases : Goto(r, phase)
      BY <2>1 DEF Look, Phases
    <3> QED BY <3>1, <1>1, OnOrOff
  <2>2. CASE CheckPort(r)
    <3>1. CASE Finish(r) \/ Goto(r, "have")
      BY <3>1, <1>1, OnOrOff DEF Phases
    <3>2. ASSUME NEW p \in Ports,
                 run' = [run EXCEPT ![r].port = p, ![r].at = "have", ![r].picked = FALSE]
          PROVE  Moves(r)
      <4>1. /\ run'[r] = [run[r] EXCEPT !.port = p, !.at = "have", !.picked = FALSE]
            /\ \A s \in Runs \ {r} : run'[s] = run[s]
        BY <3>2, <1>3
      <4>2. p \in AnyPort /\ "have" \in Phases BY FreePortsTyped, LocalVMAssumption DEF Phases
      <4>3. /\ run'[r] \in RunRecords /\ ~run'[r].picked /\ run'[r].cmd = run[r].cmd
            /\ run'[r].serial = run[r].serial /\ run'[r].beside = run[r].beside
        BY <4>1, <4>2, <1>3 DEF RunRecords
      <4>4. run' \in [Runs -> {Idle} \union RunRecords]
        BY <4>1, <4>3, <1>3, <3>2
      <4> QED BY <4>1, <4>3, <4>4, <1>1 DEF Moves
    <3> QED BY <2>2, <3>1, <3>2 DEF CheckPort
  <2>3. CASE HaveImage(r)
    <3>1. \E phase \in Phases : Goto(r, phase) BY <2>3 DEF HaveImage, Phases
    <3> QED BY <3>1, <1>1, OnOrOff
  <2>4. CASE WaitForReady(r)
    <3>1. Finish(r) \/ \E phase \in Phases : Goto(r, phase) BY <2>4 DEF WaitForReady, Phases
    <3> QED BY <3>1, <1>1, OnOrOff
  <2>5. CASE BootstrapToken(r)
    <3>1. PICK t : run' = [run EXCEPT ![r].at = "secret", ![r].token = t]
                    /\ t \in {host[VMOf(r)].token, run[r].serial}
      BY <2>5 DEF BootstrapToken
    <3>2. t \in Nat /\ "secret" \in Phases
      BY <3>1, <1>1, ActiveIsTyped DEF VMTypes, Hosts, Phases
    <3>3. /\ run'[r] = [run[r] EXCEPT !.at = "secret", !.token = t]
          /\ \A s \in Runs \ {r} : run'[s] = run[s]
      BY <3>1, <1>3
    <3>4. /\ run'[r] \in RunRecords /\ run'[r].cmd = run[r].cmd
          /\ run'[r].serial = run[r].serial /\ run'[r].beside = run[r].beside
          /\ run'[r].picked = run[r].picked /\ run'[r].port = run[r].port
      BY <3>3, <3>2, <1>3 DEF RunRecords
    <3>5. run' \in [Runs -> {Idle} \union RunRecords]
      BY <3>3, <3>4, <1>3, <3>1
    <3> QED BY <3>3, <3>4, <3>5, <1>1 DEF Moves
  <2>6. CASE CheckSettled(r)
    <3> DEFINE g == GuestOf(r)
               p == run[r].port
               next == IF Settled(g, p) THEN IF g.urls = p THEN AfterPointing(r) ELSE "urls"
                       ELSE IF g.controller = p THEN "overlay" ELSE "controller"
    <3>a. next \in Phases
      <4>1. AfterPointing(r) \in Phases BY DEF AfterPointing, Phases
      <4>2. "urls" \in Phases /\ "overlay" \in Phases /\ "controller" \in Phases BY DEF Phases
      <4>3. next \in {AfterPointing(r), "urls", "overlay", "controller"} OBVIOUS
      <4> QED BY <4>1, <4>2, <4>3
    <3>b. run' = [run EXCEPT ![r].from = GuestOf(r).controller, ![r].at = next]
      BY <2>6 DEF CheckSettled
    <3>1. PICK phase \in Phases :
            run' = [run EXCEPT ![r].from = GuestOf(r).controller, ![r].at = phase]
      BY <3>a, <3>b
    <3>2. GuestOf(r).controller \in AnyPort
      BY <1>1, ActiveIsTyped DEF VMTypes, Guests, GuestOf
    <3>3. /\ run'[r] = [run[r] EXCEPT !.from = GuestOf(r).controller, !.at = phase]
          /\ \A s \in Runs \ {r} : run'[s] = run[s]
      BY <3>1, <1>3
    <3>4. /\ run'[r] \in RunRecords /\ run'[r].cmd = run[r].cmd
          /\ run'[r].serial = run[r].serial /\ run'[r].beside = run[r].beside
          /\ run'[r].picked = run[r].picked /\ run'[r].port = run[r].port
      BY <3>3, <3>2, <1>3 DEF RunRecords
    <3>5. run' \in [Runs -> {Idle} \union RunRecords]
      BY <3>3, <3>4, <1>3, <3>1
    <3> QED BY <3>3, <3>4, <3>5, <1>1 DEF Moves
  <2>7. CASE HelmRefuses(r)
    <3>1. Finish(r) BY <2>7 DEF HelmRefuses, Fails
    <3> QED BY <3>1, <1>1, OnOrOff
  <2> QED BY <2>1, <2>2, <2>3, <2>4, <2>5, <2>6, <2>7 DEF QuietStep
<1>5. WorldTypes' /\ cuts' \in Nat BY <1>1 DEF VMTypes, WorldTypes
<1> QED BY <1>1, <1>2, <1>4, <1>5, TypesSplit DEF Acts

LEMMA ImageStepActs ==
  ASSUME VMTypes, NEW r \in Runs, ImageStep(r)
  PROVE  VMTypes' /\ Acts(r)
<1>1. UNCHANGED <<host, vms, guests>> /\ UNCHANGED <<todo, begun>> /\ Active(r)
  BY DEF ImageStep, Fetch, Copied, Rename, Unpack, Unpacked, UnpackFails, Rest, Step
<1>2. cuts' \in Nat
  BY DEF ImageStep, Fetch, Copied, Rename, Unpack, Unpacked, UnpackFails, Rest, VMTypes
<1>3. Moves(r)
  <2>1. Finish(r) \/ \E phase \in Phases : Goto(r, phase)
    BY DEF ImageStep, Fetch, Copied, Rename, Unpack, Unpacked, UnpackFails, Phases
  <2> QED BY <2>1, <1>1, OnOrOff
<1>4. run[r].serial \in Nat BY <1>1, ActiveIsTyped
<1>5. image' \in Images /\ image'.by \in {image.by, run[r].serial}
  <2>1. image \in Images BY DEF VMTypes
  <2>2. CASE UNCHANGED image BY <2>1, <2>2
  <2>3. CASE Fetch(r) BY <2>1, <2>3 DEF Fetch, Images
  <2>4. CASE Copied(r) BY <2>1, <2>4 DEF Copied, Images
  <2>5. CASE Rename(r) BY <2>1, <2>5 DEF Rename, Images
  <2>6. CASE Unpack(r) BY <2>1, <2>6, <1>4 DEF Unpack, Images, Disks
  <2>7. CASE Unpacked(r) BY <2>1, <2>7 DEF Unpacked, Images, Disks
  <2>8. CASE UnpackFails(r) BY <2>1, <2>8 DEF UnpackFails, Torn, Images, Disks
  <2> QED BY <2>2, <2>3, <2>4, <2>5, <2>6, <2>7, <2>8 DEF ImageStep
<1>6. scars \subseteq scars' \union {TornDisk}
  BY DEF ImageStep, Fetch, Copied, Rename, Unpack, Unpacked, UnpackFails, Torn
<1>7. Spares(r) BY <1>1, <1>5, <1>6, ScarsDiffer DEF Spares
<1>8. WorldTypes' BY <1>1, <1>5 DEF VMTypes, WorldTypes
<1> QED BY <1>1, <1>2, <1>3, <1>7, <1>8, TypesSplit DEF Acts

LEMMA EndStepActs ==
  ASSUME VMTypes, NEW r \in Runs, EndStep(r)
  PROVE  VMTypes' /\ Acts(r)
<1>1. UNCHANGED <<host, image, vms, guests>> /\ UNCHANGED <<todo, begun>> /\ Active(r) /\ Finish(r)
  BY DEF EndStep, ScriptFails, Cut, Rest
<1>2. cuts' \in Nat BY DEF EndStep, ScriptFails, Cut, Rest, VMTypes
<1>3. scars \subseteq scars' BY DEF EndStep, ScriptFails, Cut
<1>4. Spares(r) BY <1>1, <1>3, StandingStill
<1>5. Moves(r) BY <1>1, OnOrOff
<1>6. WorldTypes' BY <1>1 DEF VMTypes, WorldTypes
<1> QED BY <1>1, <1>2, <1>4, <1>5, <1>6, TypesSplit DEF Acts

\* A script writes into its guest alone.
LEMMA GuestStepActs ==
  ASSUME VMTypes, NEW r \in Runs, GuestStep(r)
  PROVE  VMTypes' /\ Acts(r)
<1>1. UNCHANGED <<host, image, vms>> /\ UNCHANGED <<todo, begun, cuts>> /\ Active(r)
  BY DEF GuestStep, SetSecret, RestartGateway, MoveController, MoveOverlay, RewriteIdentities,
         SetURLs, ClearInterrupted, HelmBegins, HelmEnds, Replace, InGuest, Rest, Step
<1>2. Moves(r)
  <2>1. Finish(r) \/ \E phase \in Phases : Goto(r, phase)
    BY DEF GuestStep, SetSecret, RestartGateway, MoveController, MoveOverlay, RewriteIdentities,
           SetURLs, ClearInterrupted, HelmBegins, HelmEnds, Replace, InGuest, AfterPointing, Phases
  <2> QED BY <2>1, <1>1, OnOrOff
<1>3. /\ GuestOf(r) \in Guests /\ run[r].port \in AnyPort /\ run[r].token \in Nat
      /\ VMOf(r) \in Instances
  BY <1>1, ActiveIsTyped DEF VMTypes, GuestOf
<1>4. PICK guest \in Guests : guests' = [guests EXCEPT ![VMOf(r)] = guest]
  <2>1. CASE SetSecret(r)
    BY <2>1, <1>3 DEF SetSecret, InGuest, Guests
  <2>2. CASE RestartGateway(r)
    BY <2>2, <1>3 DEF RestartGateway, InGuest, Guests
  <2>3. CASE MoveController(r) \/ MoveOverlay(r)
    BY <2>3, <1>3 DEF MoveController, MoveOverlay, InGuest, Guests
  <2>4. CASE RewriteIdentities(r)
    BY <2>4, <1>3 DEF RewriteIdentities, InGuest, Guests
  <2>5. CASE SetURLs(r)
    BY <2>5, <1>3 DEF SetURLs, InGuest, Guests
  <2>6. CASE ClearInterrupted(r) \/ HelmBegins(r)
    BY <2>6, <1>3 DEF ClearInterrupted, HelmBegins, InGuest, Guests
  <2>7. CASE HelmEnds(r) \/ Replace(r)
    BY <2>7, <1>3 DEF HelmEnds, Replace, InGuest, Guests
  <2> QED BY <2>1, <2>2, <2>3, <2>4, <2>5, <2>6, <2>7 DEF GuestStep
<1>5. guests' \in [Instances -> Guests] /\ \A j \in Instances \ {VMOf(r)} : guests'[j] = guests[j]
  BY <1>4, <1>3 DEF VMTypes
<1>6. scars \subseteq scars' \union {StaleGateway(VMOf(r))}
  BY DEF GuestStep, SetSecret, RestartGateway, MoveController, MoveOverlay, RewriteIdentities,
         SetURLs, ClearInterrupted, HelmBegins, HelmEnds, Replace
<1>7. Spares(r) BY <1>1, <1>5, <1>6, ScarsDiffer DEF Spares
<1>8. WorldTypes' BY <1>1, <1>5 DEF VMTypes, WorldTypes
<1>9. cuts' \in Nat BY <1>1 DEF VMTypes
<1> QED BY <1>1, <1>2, <1>7, <1>8, <1>9, TypesSplit DEF Acts

LEMMA UpTyped ==
  ASSUME VMTypes, NEW i \in Instances, NEW p \in AnyPort
  PROVE  /\ Up(i, p) \in VMRecords /\ Up(i, p).port = p /\ Up(i, p).ca = vms[i].ca
         /\ Up(i, p).disk = vms[i].disk
<1>1. vms[i] \in VMRecords BY DEF VMTypes
<1>2. 0 \in AnyPort BY LocalVMAssumption DEF AnyPort
<1> DEFINE serves == IF Listening(p) THEN 0 ELSE p
<1>3. serves \in AnyPort BY <1>2
<1> HIDE DEF serves
<1>4. Up(i, p) = [vms[i] EXCEPT !.status = "running", !.port = p, !.serves = serves]
  BY DEF Up, serves
<1> QED BY <1>1, <1>3, <1>4 DEF VMRecords

\* What Lima and the files know of one VM.
LEMMA MachineStepActs ==
  ASSUME VMTypes, NEW r \in Runs, MachineStep(r), Step(r, "sweep") => OpOf(r) = "purge"
  PROVE  VMTypes' /\ Acts(r)
<1> DEFINE i == VMOf(r)
<1>1. UNCHANGED <<todo, begun>> /\ Active(r)
  BY DEF MachineStep, Save, Create, FirstBoot, FirstBootFails, EnsureCA, Halt, Boot, WriteProfile,
         StoreToken, DeleteVM, Sweep, Forget, Fails, Rest, Step
<1>2. cuts' \in Nat
  BY DEF MachineStep, Save, Create, FirstBoot, FirstBootFails, EnsureCA, Halt, Boot, WriteProfile,
         StoreToken, DeleteVM, Sweep, Forget, Rest, VMTypes
<1>3. /\ run[r] \in RunRecords /\ run[r].port \in AnyPort /\ run[r].token \in Nat
      /\ run[r].serial \in Nat /\ i \in Instances /\ i \in Touched(run[r].cmd)
  BY <1>1, ActiveIsTyped
<1>4. Moves(r)
  <2>1. CASE Finish(r) \/ \E phase \in Phases : Goto(r, phase)
    BY <2>1, <1>1, OnOrOff
  <2>2. ASSUME NEW phase \in Phases, run' = [run EXCEPT ![r].at = phase, ![r].booted = TRUE]
        PROVE  Moves(r)
    <3>1. /\ \A s \in Runs : run[s] \in {Idle} \union RunRecords
          /\ DOMAIN run = Runs /\ run = [s \in Runs |-> run[s]]
      BY DEF VMTypes
    <3>2. /\ run'[r] = [run[r] EXCEPT !.at = phase, !.booted = TRUE]
          /\ \A s \in Runs \ {r} : run'[s] = run[s]
      BY <2>2, <3>1
    <3>3. /\ run'[r] \in RunRecords /\ run'[r].cmd = run[r].cmd
          /\ run'[r].serial = run[r].serial /\ run'[r].beside = run[r].beside
          /\ run'[r].picked = run[r].picked /\ run'[r].port = run[r].port
      BY <3>2, <1>3 DEF RunRecords
    <3>4. run' \in [Runs -> {Idle} \union RunRecords] BY <2>2, <3>1, <3>2, <3>3
    <3> QED BY <3>2, <3>3, <3>4, <1>1 DEF Moves
  <2>3. \/ Finish(r) \/ \E phase \in Phases : Goto(r, phase)
        \/ \E phase \in Phases : run' = [run EXCEPT ![r].at = phase, ![r].booted = TRUE]
    <3>1. CASE FirstBoot(r) \/ Boot(r)
      BY <3>1 DEF FirstBoot, Boot, Fails, Phases
    <3>2. CASE Save(r) \/ Create(r) \/ FirstBootFails(r) \/ EnsureCA(r) \/ Halt(r)
      BY <3>2 DEF Save, Create, FirstBootFails, EnsureCA, Halt, Phases
    <3>3. CASE WriteProfile(r) \/ StoreToken(r) \/ DeleteVM(r) \/ Sweep(r) \/ Forget(r)
      BY <3>3 DEF WriteProfile, StoreToken, DeleteVM, Sweep, Forget, Phases
    <3> QED BY <3>1, <3>2, <3>3 DEF MachineStep
  <2> QED BY <2>1, <2>2, <2>3
<1>5. /\ host \in [Instances -> Hosts] /\ image \in Images
      /\ vms \in [Instances -> VMRecords] /\ guests \in [Instances -> Guests]
  BY DEF VMTypes
<1>6. Absent \in VMRecords /\ Fresh \in Guests /\ NoImage \in Images /\ NoImage.by = 0
  BY LocalVMAssumption DEF Absent, Fresh, NoImage, VMRecords, Guests, Images, Disks, AnyPort,
     ImagePort, Baked
<1>7. CASE Sweep(r)
  <2>1. OpOf(r) = "purge" => Touched(run[r].cmd) = Instances BY DEF Touched, OpOf
  <2>2. /\ image' = NoImage /\ UNCHANGED guests /\ scars' = scars \ {TornDisk}
        /\ vms' = [j \in Instances |-> [Absent EXCEPT !.serves = vms[j].serves]]
        /\ host' = [j \in Instances |-> [host[j] EXCEPT !.ca = 0]]
    BY <1>7 DEF Sweep
  <2>3. \A j \in Instances : [Absent EXCEPT !.serves = vms[j].serves] \in VMRecords
    BY <1>5, <1>6 DEF Absent, VMRecords, AnyPort
  <2>4. \A j \in Instances : /\ [host[j] EXCEPT !.ca = 0] \in Hosts
                             /\ [host[j] EXCEPT !.ca = 0].port = host[j].port
    BY <1>5 DEF Hosts
  <2>5. WorldTypes' BY <2>2, <2>3, <2>4, <1>5, <1>6 DEF WorldTypes
  <2>6. Touched(run[r].cmd) = Instances BY <1>7, <2>1 DEF Sweep
  <2>7. \A j \in Instances : host'[j].port = host[j].port BY <2>2, <2>4
  <2>8. Spares(r) BY <2>2, <2>6, <2>7, <1>6, ScarsDiffer DEF Spares
  <2> QED BY <2>5, <2>8, <1>1, <1>2, <1>4, TypesSplit DEF Acts
<1>8. CASE ~Sweep(r)
  <2>1. host' \in [Instances -> Hosts] /\ \A j \in Instances \ {i} : host'[j] = host[j]
    <3>1. CASE UNCHANGED host BY <3>1, <1>5
    <3>2. CASE Save(r) BY <3>2, <1>3, <1>5 DEF Save, Hosts
    <3>3. CASE EnsureCA(r)
      <4>1. vms[i].ca \in Nat BY <1>3, <1>5 DEF VMRecords
      <4> QED BY <3>3, <4>1, <1>3, <1>5 DEF EnsureCA, Hosts
    <3>4. CASE WriteProfile(r)
      <4>1. vms[i].ca \in Nat BY <1>3, <1>5 DEF VMRecords
      <4> QED BY <3>4, <4>1, <1>3, <1>5 DEF WriteProfile, Hosts
    <3>5. CASE StoreToken(r) BY <3>5, <1>3, <1>5 DEF StoreToken, Hosts
    <3>6. CASE Forget(r)
      <4>1. 0 \in AnyPort /\ NoToken \in Nat BY LocalVMAssumption DEF AnyPort, NoToken
      <4> QED BY <3>6, <4>1, <1>3, <1>5 DEF Forget, Hosts
    <3> QED BY <1>8, <3>1, <3>2, <3>3, <3>4, <3>5, <3>6
        DEF MachineStep, Create, FirstBoot, FirstBootFails, Halt, Boot, DeleteVM, Fails
  <2>2. vms' \in [Instances -> VMRecords] /\ \A j \in Instances \ {i} : vms'[j] = vms[j]
    <3>1. CASE UNCHANGED vms BY <3>1, <1>5
    <3>2. CASE Discarded(i) BY <3>2, <1>5, <1>6 DEF Discarded
    <3>3. CASE vms' = [vms EXCEPT ![i] = Up(i, run[r].port)]
      BY <3>3, <1>3, <1>5, UpTyped
    <3>4. CASE vms' = [vms EXCEPT ![i].status = "stopped", ![i].serves = 0]
      <4>1. 0 \in AnyPort BY LocalVMAssumption DEF AnyPort
      <4> QED BY <3>4, <4>1, <1>3, <1>5 DEF VMRecords
    <3>5. CASE vms' = [vms EXCEPT ![i].port = run[r].port]
      BY <3>5, <1>3, <1>5 DEF VMRecords
    <3>6. CASE vms' = [vms EXCEPT ![i] = [status |-> "half", port |-> run[r].port, serves |-> 0,
                                          disk |-> image.disk, ca |-> run[r].serial]]
      <4>1. 0 \in AnyPort /\ image.disk \in Disks BY LocalVMAssumption, <1>5 DEF AnyPort, Images
      <4> QED BY <3>6, <4>1, <1>3, <1>5 DEF VMRecords
    <3>7. CASE Create(r) BY <3>7, <3>1, <3>2, <3>6 DEF Create
    <3>8. CASE Boot(r) BY <3>8, <3>1, <3>3, <3>5 DEF Boot, Fails
    <3>9. CASE FirstBoot(r) \/ FirstBootFails(r) \/ Halt(r) \/ DeleteVM(r)
      BY <3>9, <3>1, <3>2, <3>3, <3>4 DEF FirstBoot, FirstBootFails, Halt, DeleteVM
    <3> QED BY <1>8, <3>1, <3>7, <3>8, <3>9
        DEF MachineStep, Save, EnsureCA, WriteProfile, StoreToken, Forget
  <2>3. guests' \in [Instances -> Guests] /\ \A j \in Instances \ {i} : guests'[j] = guests[j]
    <3>1. CASE UNCHANGED guests BY <3>1, <1>5
    <3>2. CASE guests' = [guests EXCEPT ![i] = Fresh] BY <3>2, <1>5, <1>6
    <3>3. CASE guests' = [guests EXCEPT ![i].gateway = guests[i].secret]
      <4>1. guests[i] \in Guests BY <1>3, <1>5
      <4> QED BY <3>3, <4>1, <1>5 DEF Guests
    <3> QED BY <1>8, <3>1, <3>2, <3>3
        DEF MachineStep, Save, Create, FirstBoot, FirstBootFails, EnsureCA, Halt, Boot, WriteProfile,
            StoreToken, DeleteVM, Forget, Fails
  <2>4. UNCHANGED image
    BY <1>8 DEF MachineStep, Save, Create, FirstBoot, FirstBootFails, EnsureCA, Halt, Boot,
                WriteProfile, StoreToken, DeleteVM, Forget, Fails
  <2>5. scars \subseteq scars' \union {StaleGateway(i), StrayIdentities(i)}
    BY <1>8 DEF MachineStep, Save, Create, FirstBoot, FirstBootFails, EnsureCA, Halt, Boot,
                WriteProfile, StoreToken, DeleteVM, Forget, Fails
  <2>6. Spares(r) BY <2>1, <2>2, <2>3, <2>4, <2>5, <1>3, ScarsDiffer DEF Spares
  <2>7. WorldTypes' BY <2>1, <2>2, <2>3, <2>4, <1>5 DEF WorldTypes
  <2> QED BY <2>6, <2>7, <1>1, <1>2, <1>4, TypesSplit DEF Acts
<1> QED BY <1>7, <1>8

\* A command that begins knows the VMs of those beside it, and they know its.
Begins(r) ==
  /\ ~Active(r)
  /\ run'[r] \in RunRecords /\ run'[r].at \in {"look", "save"}
  /\ run'[r].serial = Earlier + begun + 1 /\ ~run'[r].booted
  /\ run'[r].picked => \A j \in Instances \ {run'[r].cmd.vm} : host[j].port # run'[r].port
  /\ \A s \in Runs \ {r} :
       Active(s) => Touched(run[s].cmd) \subseteq run'[r].beside
  /\ \A s \in Runs \ {r} : ~Active(s) => run'[s] = Idle
  /\ \A s \in Runs \ {r} : Active(s) =>
       /\ run'[s] = [run[s] EXCEPT !.beside = run'[s].beside]
       /\ run'[s].beside = run[s].beside \union Touched(run'[r].cmd)
  /\ begun' = begun + 1
  /\ UNCHANGED <<host, image, vms, guests, scars, cuts>>

LEMMA BeginBegins ==
  ASSUME VMTypes, NEW r \in Runs, Begin(r)
  PROVE  VMTypes' /\ Begins(r)
<1> DEFINE c == Head(todo[r])
           others == {s \in Runs : Active(s)}
           beside == UNION {Touched(run[o].cmd) : o \in others}
           port == IF c.port # 0 THEN c.port ELSE ResolvedPort(c.vm)
           picked == c.port = 0 /\ host[c.vm].port = 0 /\ c.vm # Main /\ FreePorts(c.vm) # {}
           new == [at |-> IF c.op = "setport" THEN "save" ELSE "look",
                   cmd |-> c, serial |-> Earlier + begun + 1, port |-> port, picked |-> picked,
                   token |-> NoToken, from |-> 0, booted |-> FALSE, beside |-> beside]
<1>1. ~Active(r) /\ begun' = begun + 1 /\ UNCHANGED <<host, image, vms, guests, scars, cuts>>
      /\ todo' = [todo EXCEPT ![r] = Tail(@)] /\ todo[r] # <<>>
  BY DEF Begin
<1>2. todo[r] \in Seq(LocalCommands) /\ c \in LocalCommands /\ Tail(todo[r]) \in Seq(LocalCommands)
  BY <1>1 DEF VMTypes
<1>3. c.vm \in Instances /\ c.port \in AnyPort /\ c.op \in LocalOps
  BY <1>2 DEF LocalCommands, AnyPort
<1>4. port \in AnyPort BY <1>3, ResolvedIsPort
<1>5. picked => \A j \in Instances \ {c.vm} : host[j].port # port
  BY <1>3, ResolvedIsPort DEF FreePorts
<1>6. beside \in SUBSET Instances
  <2>1. \A o \in others : Touched(run[o].cmd) \subseteq Instances BY ActiveIsTyped
  <2> QED BY <2>1
<1>7. /\ Earlier + begun + 1 \in Nat /\ NoToken \in Nat /\ 0 \in AnyPort
      /\ "look" \in Phases /\ "save" \in Phases
  BY LocalVMAssumption DEF VMTypes, Earlier, NoToken, AnyPort, Phases
<1>8. new \in RunRecords
  <2>1. picked \in BOOLEAN OBVIOUS
  <2> HIDE DEF c, beside, port, picked
  <2> QED BY <1>2, <1>4, <1>6, <1>7, <2>1 DEF RunRecords
<1>9. run' = [s \in Runs |-> IF s = r THEN new
                ELSE IF s \in others THEN [run[s] EXCEPT !.beside = @ \union Touched(c)]
                ELSE run[s]]
  BY DEF Begin
<1>10. run'[r] = new BY <1>9
<1>11. \A s \in Runs \ {r} : Active(s) =>
          run'[s] = [run[s] EXCEPT !.beside = run[s].beside \union Touched(c)]
  BY <1>9
<1>12. \A s \in Runs \ {r} : ~Active(s) => run'[s] = Idle BY <1>9 DEF Active
<1>13. Touched(c) \subseteq Instances BY <1>3 DEF Touched
<1>14. \A s \in Runs \ {r} : Active(s) =>
          /\ run'[s] \in RunRecords
          /\ run'[s].beside = run[s].beside \union Touched(c)
          /\ run'[s] = [run[s] EXCEPT !.beside = run'[s].beside]
  <2> TAKE s \in Runs \ {r}
  <2> HAVE Active(s)
  <2>1. run[s] \in RunRecords BY ActiveIsTyped
  <2>2. run'[s] = [run[s] EXCEPT !.beside = run[s].beside \union Touched(c)] BY <1>11
  <2> HIDE DEF c
  <2> QED BY <2>1, <2>2, <1>13 DEF RunRecords
<1>15. run' \in [Runs -> {Idle} \union RunRecords]
  <2>1. \A s \in Runs : run'[s] \in {Idle} \union RunRecords BY <1>8, <1>10, <1>12, <1>14
  <2>2. run' = [s \in Runs |-> run'[s]] BY <1>9
  <2> QED BY <2>1, <2>2
<1>16. VMTypes'
  <2>1. todo' \in [Runs -> Seq(LocalCommands)] BY <1>1, <1>2 DEF VMTypes
  <2>2. begun' \in Nat BY <1>1 DEF VMTypes
  <2> HIDE DEF c, others, beside, port, picked, new
  <2>3. WorldTypes' /\ cuts' \in Nat BY <1>1 DEF VMTypes, WorldTypes
  <2> QED BY <2>1, <2>2, <2>3, <1>15 DEF VMTypes, WorldTypes
<1>17. \A s \in Runs \ {r} : Active(s) => Touched(run[s].cmd) \subseteq beside OBVIOUS
<1>18. /\ run'[r].at \in {"look", "save"} /\ run'[r].cmd = c /\ run'[r].port = port
       /\ run'[r].serial = Earlier + begun + 1 /\ run'[r].booted = FALSE
       /\ run'[r].picked = picked /\ run'[r].beside = beside
  BY <1>10
<1> HIDE DEF c, others, beside, port, picked, new
<1> QED BY <1>1, <1>5, <1>8, <1>10, <1>12, <1>14, <1>16, <1>17, <1>18 DEF Begins

\* A step of a terminal other than the beginning of a command.
ActStep(r) == QuietStep(r) \/ ImageStep(r) \/ MachineStep(r) \/ GuestStep(r) \/ EndStep(r)

LEMMA ActStepActs ==
  ASSUME VMTypes, OnTheirWay, NEW r \in Runs, ActStep(r)
  PROVE  VMTypes' /\ Acts(r)
<1>1. Step(r, "sweep") => OpOf(r) = "purge" BY DEF OnTheirWay, OnItsWay, Step
<1> QED BY <1>1, QuietStepActs, ImageStepActs, MachineStepActs, GuestStepActs, EndStepActs DEF ActStep

-----------------------------------------------------------------------------
\* Commands stay apart.
LEMMA ApartKept ==
  ASSUME VMTypes, Apart, VMTypes', NEW r \in Runs, Acts(r)
  PROVE  Apart'
<1>1. /\ Active(r) /\ begun' = begun /\ image'.by \in {image.by, 0, run[r].serial}
      /\ \A s \in Runs \ {r} : run'[s] = run[s]
      /\ run'[r] # Idle => run'[r].cmd = run[r].cmd /\ run'[r].serial = run[r].serial
                           /\ run'[r].beside = run[r].beside
  BY DEF Acts, Moves, Spares
<1>2. image'.by <= Earlier + begun'
  BY <1>1 DEF Apart, VMTypes, Earlier
<1>3. \A s \in Runs : run'[s] # Idle =>
        /\ Active(s) /\ run'[s].cmd = run[s].cmd /\ run'[s].serial = run[s].serial
        /\ run'[s].beside = run[s].beside
  BY <1>1 DEF Active
<1>4. \A s \in Runs : Active(s)' => run'[s].serial <= Earlier + begun'
  BY <1>1, <1>3 DEF Apart, Active
<1>5. \A s, q \in Runs : Active(s)' /\ Active(q)' /\ s # q =>
        run'[s].serial # run'[q].serial /\ Touched(run'[q].cmd) \subseteq run'[s].beside
  BY <1>3 DEF Apart, Active
<1> QED BY <1>2, <1>4, <1>5 DEF Apart, Touched

LEMMA BeginnersApart ==
  ASSUME VMTypes, Apart, VMTypes', NEW r \in Runs, Begins(r)
  PROVE  Apart'
<1>1. /\ ~Active(r) /\ begun' = begun + 1 /\ image' = image
      /\ run'[r].serial = Earlier + begun + 1
      /\ \A s \in Runs \ {r} : Active(s) => Touched(run[s].cmd) \subseteq run'[r].beside
      /\ \A s \in Runs \ {r} : ~Active(s) => run'[s] = Idle
  BY DEF Begins
<1>2. \A s \in Runs \ {r} : Active(s)' =>
        /\ Active(s) /\ run'[s].serial = run[s].serial /\ run'[s].cmd = run[s].cmd
        /\ run'[s].beside = run[s].beside \union Touched(run'[r].cmd)
  <2> TAKE s \in Runs \ {r}
  <2> HAVE Active(s)'
  <2>1. Active(s) BY <1>1 DEF Active
  <2>2. run[s] \in RunRecords BY <2>1, ActiveIsTyped
  <2>3. run'[s] = [run[s] EXCEPT !.beside = run'[s].beside]
        /\ run'[s].beside = run[s].beside \union Touched(run'[r].cmd)
    BY <2>1 DEF Begins
  <2> QED BY <2>1, <2>2, <2>3 DEF RunRecords
<1>3. begun \in Nat /\ image.by \in Nat BY DEF VMTypes, Images
<1>4. \A s \in Runs : Active(s) => run[s].serial \in Nat BY ActiveIsTyped
<1>5. image'.by <= Earlier + begun' BY <1>1, <1>3 DEF Apart, Earlier
<1>6. \A s \in Runs \ {r} : Active(s)' => run'[s].serial <= Earlier + begun
  BY <1>2 DEF Apart
<1>7. \A s \in Runs \ {r} : Active(s)' => run'[s].serial # run'[r].serial
  BY <1>1, <1>2, <1>3, <1>4, <1>6 DEF Earlier
<1>8. \A s \in Runs : Active(s)' => run'[s].serial <= Earlier + begun'
  BY <1>1, <1>2, <1>3, <1>4, <1>6 DEF Earlier
<1>9. \A s, q \in Runs \ {r} : Active(s)' /\ Active(q)' /\ s # q =>
        run'[s].serial # run'[q].serial /\ Touched(run'[q].cmd) \subseteq run'[s].beside
  BY <1>2 DEF Apart
<1>10. \A s \in Runs \ {r} : Active(s)' =>
        /\ Touched(run'[s].cmd) \subseteq run'[r].beside
        /\ Touched(run'[r].cmd) \subseteq run'[s].beside
  BY <1>1, <1>2
<1>11. \A s, q \in Runs : Active(s)' /\ Active(q)' /\ s # q =>
        run'[s].serial # run'[q].serial /\ Touched(run'[q].cmd) \subseteq run'[s].beside
  BY <1>7, <1>9, <1>10
<1> QED BY <1>5, <1>8, <1>11 DEF Apart, Touched

\* Picked ports stay free: a port is saved by a command beside.
LEMMA PicksKept ==
  ASSUME VMTypes, Apart, PicksAreFree, VMTypes', NEW r \in Runs, Acts(r)
  PROVE  PicksAreFree'
<1> SUFFICES ASSUME NEW s \in Runs, Active(s)', run'[s].picked,
                    NEW j \in Instances \ {run'[s].cmd.vm}, host'[j].port = run'[s].port
             PROVE  j \in run'[s].beside
  BY DEF PicksAreFree, PickIsFree, VMOf
<1>1. /\ Active(r) /\ \A q \in Runs \ {r} : run'[q] = run[q]
      /\ run'[r] # Idle => run'[r].cmd = run[r].cmd /\ run'[r].beside = run[r].beside
           /\ (run'[r].picked => run[r].picked /\ run'[r].port = run[r].port)
      /\ \A k \in Instances \ {VMOf(r)} : host'[k].port = host[k].port
  BY DEF Acts, Moves, Spares
<1>2. /\ Active(s) /\ run'[s].cmd = run[s].cmd /\ run'[s].beside = run[s].beside
      /\ run[s].picked /\ run'[s].port = run[s].port
  BY <1>1 DEF Active
<1>3. CASE j = VMOf(r)
  <2>1. s # r BY <1>2, <1>3 DEF VMOf
  <2>2. Touched(run[r].cmd) \subseteq run[s].beside BY <1>1, <1>2, <2>1 DEF Apart
  <2> QED BY <1>1, <1>2, <1>3, <2>2, ActiveIsTyped
<1>4. CASE j # VMOf(r)
  <2>1. host[j].port = run[s].port BY <1>1, <1>2, <1>4
  <2> QED BY <1>2, <2>1 DEF PicksAreFree, PickIsFree, VMOf
<1> QED BY <1>3, <1>4

LEMMA PicksBegin ==
  ASSUME VMTypes, PicksAreFree, NEW r \in Runs, Begins(r)
  PROVE  PicksAreFree'
<1> SUFFICES ASSUME NEW s \in Runs, Active(s)', run'[s].picked,
                    NEW j \in Instances \ {run'[s].cmd.vm}, host'[j].port = run'[s].port
             PROVE  j \in run'[s].beside
  BY DEF PicksAreFree, PickIsFree, VMOf
<1>1. host' = host BY DEF Begins
<1>2. CASE s = r BY <1>1, <1>2 DEF Begins
<1>3. CASE s # r
  <2>1. Active(s) BY <1>3 DEF Begins, Active
  <2>2. run[s] \in RunRecords BY <2>1, ActiveIsTyped
  <2>3. run'[s] = [run[s] EXCEPT !.beside = run'[s].beside] /\ run[s].beside \subseteq run'[s].beside
    BY <1>3, <2>1 DEF Begins
  <2>4. run'[s].picked = run[s].picked /\ run'[s].cmd = run[s].cmd /\ run'[s].port = run[s].port
    BY <2>2, <2>3 DEF RunRecords
  <2> QED BY <1>1, <2>1, <2>3, <2>4 DEF PicksAreFree, PickIsFree, VMOf
<1> QED BY <1>2, <1>3

-----------------------------------------------------------------------------
\* Commands get only where they belong.
Fits(r, phase) ==
  /\ phase \in {"token", "secret", "rollout", "profile", "store"} => OpOf(r) \notin Upgrades
  /\ phase \in {"clear", "helm", "helming"} => OpOf(r) \in Upgrades
  /\ phase = "sweep" => OpOf(r) = "purge"
  /\ run[r].booted => phase \in AfterBoot

LEMMA GoingWhereItFits ==
  ASSUME VMTypes, NEW r \in Runs, Active(r),
         Finish(r) \/ \E phase \in Phases : Goto(r, phase) /\ Fits(r, phase)
  PROVE  Active(r)' => OnItsWay(r)'
<1>1. CASE Finish(r)
  <2>1. run'[r] = Idle BY <1>1, Ending
  <2> QED BY <2>1 DEF Active
<1>2. ASSUME NEW phase \in Phases, Goto(r, phase), Fits(r, phase)
      PROVE  OnItsWay(r)'
  <2>1. run'[r].at = phase /\ run'[r].booted = run[r].booted /\ run'[r].cmd = run[r].cmd
    BY <1>2, GoingOn DEF MovedTo, Moves
  <2> QED BY <2>1, <1>2 DEF OnItsWay, Fits, OpOf
<1> QED BY <1>1, <1>2

LEMMA WaysKept ==
  ASSUME VMTypes, OnTheirWay, NEW r \in Runs, ActStep(r)
  PROVE  OnTheirWay'
<1>1. VMTypes' /\ Acts(r) BY ActStepActs
<1>2. Active(r) /\ \A s \in Runs \ {r} : run'[s] = run[s] BY <1>1 DEF Acts, Moves
<1>3. \A s \in Runs \ {r} : Active(s)' => OnItsWay(s)'
  BY <1>2 DEF OnTheirWay, OnItsWay, Active, OpOf
<1>4. run[r] \in RunRecords /\ run[r].at \in Phases /\ OpOf(r) \in LocalOps /\ run[r].booted \in BOOLEAN
  BY <1>2, ActiveIsTyped
<1>5. OnItsWay(r) BY <1>2 DEF OnTheirWay
<1>6. Active(r)' => OnItsWay(r)'
  <2>1. CASE Look(r)
    <3>1. Finish(r) \/ \E phase \in Phases : Goto(r, phase) /\ Fits(r, phase)
      BY <2>1, <1>4, <1>5 DEF Look, Step, OnItsWay, Fits, AfterBoot, Upgrades, LocalOps, Phases
    <3> QED BY <3>1, <1>2, GoingWhereItFits
  <2>2. CASE CheckPort(r)
    <3>1. CASE Finish(r) \/ Goto(r, "have")
      <4>1. Fits(r, "have") /\ "have" \in Phases
        BY <2>2, <1>5 DEF CheckPort, Step, OnItsWay, Fits, AfterBoot, Phases
      <4> QED BY <3>1, <4>1, <1>2, GoingWhereItFits
    <3>2. ASSUME NEW p \in Ports,
                 run' = [run EXCEPT ![r].port = p, ![r].at = "have", ![r].picked = FALSE]
          PROVE  OnItsWay(r)'
      <4>1. run'[r] = [run[r] EXCEPT !.port = p, !.at = "have", !.picked = FALSE]
        BY <3>2 DEF VMTypes
      <4>2. run'[r].at = "have" /\ run'[r].booted = run[r].booted
        BY <4>1, <1>4 DEF RunRecords
      <4>3. ~run[r].booted BY <2>2, <1>4, <1>5 DEF CheckPort, Step, OnItsWay, AfterBoot
      <4> QED BY <4>2, <4>3 DEF OnItsWay
    <3> QED BY <2>2, <3>1, <3>2 DEF CheckPort
  <2>3. CASE HaveImage(r) \/ WaitForReady(r) \/ HelmRefuses(r)
    <3>1. Finish(r) \/ \E phase \in Phases : Goto(r, phase) /\ Fits(r, phase)
      <4>1. CASE HaveImage(r)
        BY <4>1, <1>4, <1>5 DEF HaveImage, Step, OnItsWay, Fits, AfterBoot, Phases
      <4>2. CASE WaitForReady(r)
        BY <4>2, <1>4, <1>5 DEF WaitForReady, Step, OnItsWay, Fits, AfterBoot, Upgrades, Phases
      <4> QED BY <2>3, <4>1, <4>2 DEF HelmRefuses, Fails
    <3> QED BY <3>1, <1>2, GoingWhereItFits
  <2>4. CASE BootstrapToken(r)
    <3>1. PICK t : run' = [run EXCEPT ![r].at = "secret", ![r].token = t]
      BY <2>4 DEF BootstrapToken
    <3>2. run'[r] = [run[r] EXCEPT !.at = "secret", !.token = t]
      BY <3>1 DEF VMTypes
    <3>3. run'[r].at = "secret" /\ run'[r].cmd = run[r].cmd
      BY <3>2, <1>4 DEF RunRecords
    <3> QED BY <2>4, <3>3, <1>5 DEF BootstrapToken, Step, OnItsWay, OpOf, AfterBoot
  <2>5. CASE CheckSettled(r)
    <3> DEFINE g == GuestOf(r)
               p == run[r].port
               next == IF Settled(g, p) THEN IF g.urls = p THEN AfterPointing(r) ELSE "urls"
                       ELSE IF g.controller = p THEN "overlay" ELSE "controller"
    <3>1. next \in {AfterPointing(r), "urls", "overlay", "controller"} OBVIOUS
    <3>2. run' = [run EXCEPT ![r].from = GuestOf(r).controller, ![r].at = next]
      BY <2>5 DEF CheckSettled
    <3> HIDE DEF next
    <3>3. run'[r] = [run[r] EXCEPT !.from = GuestOf(r).controller, !.at = next]
      BY <3>2 DEF VMTypes
    <3>4. run'[r].at = next /\ run'[r].cmd = run[r].cmd
      BY <3>3, <1>4 DEF RunRecords
    <3> QED BY <3>1, <3>4 DEF OnItsWay, OpOf, AfterBoot, AfterPointing, Upgrades
  <2>6. CASE ImageStep(r)
    <3>1. Finish(r) \/ \E phase \in Phases : Goto(r, phase) /\ Fits(r, phase)
      BY <2>6, <1>4, <1>5
      DEF ImageStep, Fetch, Copied, Rename, Unpack, Unpacked, UnpackFails, Step, OnItsWay, Fits,
          AfterBoot, Phases
    <3> QED BY <3>1, <1>2, GoingWhereItFits
  <2>7. CASE FirstBoot(r) \/ Boot(r)
    <3>1. CASE Finish(r) \/ Goto(r, "wait")
      <4>1. Fits(r, "wait") /\ "wait" \in Phases BY DEF Fits, AfterBoot, Phases
      <4> QED BY <3>1, <4>1, <1>2, GoingWhereItFits
    <3>2. ASSUME NEW phase \in {"ca", "wait"}, run' = [run EXCEPT ![r].at = phase, ![r].booted = TRUE]
          PROVE  OnItsWay(r)'
      <4>1. run'[r] = [run[r] EXCEPT !.at = phase, !.booted = TRUE]
        BY <3>2 DEF VMTypes
      <4>2. run'[r].at = phase BY <4>1, <1>4 DEF RunRecords
      <4> QED BY <4>2 DEF OnItsWay, AfterBoot
    <3> QED BY <2>7, <3>1, <3>2 DEF FirstBoot, Boot, Fails
  <2>8. CASE Save(r) \/ Create(r) \/ FirstBootFails(r) \/ EnsureCA(r) \/ Halt(r)
    <3>1. Finish(r) \/ \E phase \in Phases : Goto(r, phase) /\ Fits(r, phase)
      BY <2>8, <1>4, <1>5 DEF Save, Create, FirstBootFails, EnsureCA, Halt, Step, OnItsWay, Fits,
                               AfterBoot, Phases
    <3> QED BY <3>1, <1>2, GoingWhereItFits
  <2>9. CASE WriteProfile(r) \/ StoreToken(r) \/ DeleteVM(r) \/ Sweep(r) \/ Forget(r)
    <3>1. Finish(r) \/ \E phase \in Phases : Goto(r, phase) /\ Fits(r, phase)
      BY <2>9, <1>4, <1>5 DEF WriteProfile, StoreToken, DeleteVM, Sweep, Forget, Step, OnItsWay,
                               Fits, AfterBoot, Phases
    <3> QED BY <3>1, <1>2, GoingWhereItFits
  <2>10. CASE GuestStep(r)
    <3>1. Finish(r) \/ \E phase \in Phases : Goto(r, phase) /\ Fits(r, phase)
      <4>1. CASE SetSecret(r) \/ RestartGateway(r)
        BY <4>1, <1>4, <1>5 DEF SetSecret, RestartGateway, InGuest, Step, OnItsWay, Fits,
                                AfterBoot, Phases
      <4>2. CASE MoveController(r) \/ MoveOverlay(r) \/ RewriteIdentities(r)
        BY <4>2, <1>4, <1>5 DEF MoveController, MoveOverlay, RewriteIdentities, InGuest, Step,
                                OnItsWay, Fits, AfterBoot, Phases
      <4>3. CASE SetURLs(r)
        BY <4>3, <1>4, <1>5 DEF SetURLs, InGuest, Step, AfterPointing, Upgrades, Fits, AfterBoot,
                                Phases
      <4>4. CASE ClearInterrupted(r) \/ HelmBegins(r) \/ HelmEnds(r)
        BY <4>4, <1>4, <1>5 DEF ClearInterrupted, HelmBegins, HelmEnds, InGuest, Step, OnItsWay,
                                Fits, AfterBoot, Phases
      <4> QED BY <2>10, <4>1, <4>2, <4>3, <4>4 DEF GuestStep, Replace
    <3> QED BY <3>1, <1>2, GoingWhereItFits
  <2>11. CASE EndStep(r)
    <3>1. Finish(r) BY <2>11 DEF EndStep, ScriptFails, Cut
    <3> QED BY <3>1, <1>2, GoingWhereItFits
  <2> QED BY <2>1, <2>2, <2>3, <2>4, <2>5, <2>6, <2>7, <2>8, <2>9, <2>10, <2>11
          DEF ActStep, QuietStep, MachineStep
<1> QED BY <1>3, <1>6 DEF OnTheirWay

LEMMA WaysBegin ==
  ASSUME VMTypes, OnTheirWay, NEW r \in Runs, Begins(r)
  PROVE  OnTheirWay'
<1> SUFFICES ASSUME NEW s \in Runs, Active(s)' PROVE OnItsWay(s)'
  BY DEF OnTheirWay
<1>1. CASE s = r
  <2>1. run'[r].at \in {"look", "save"} /\ ~run'[r].booted BY DEF Begins
  <2> QED BY <1>1, <2>1 DEF OnItsWay
<1>2. CASE s # r
  <2>1. Active(s) BY <1>2 DEF Begins, Active
  <2>2. run[s] \in RunRecords BY <2>1, ActiveIsTyped
  <2>3. run'[s] = [run[s] EXCEPT !.beside = run'[s].beside] BY <1>2, <2>1 DEF Begins
  <2>4. run'[s].at = run[s].at /\ run'[s].cmd = run[s].cmd /\ run'[s].booted = run[s].booted
    BY <2>2, <2>3 DEF RunRecords
  <2> QED BY <2>1, <2>4 DEF OnTheirWay, OnItsWay, OpOf
<1> QED BY <1>1, <1>2

-----------------------------------------------------------------------------
\* An incomplete disk stays explained.
LEMMA DiskStays ==
  ASSUME VMTypes, Apart, DiskExplained, NEW r \in Runs, Acts(r), run[r].at # "unpacking",
         image'.disk = "part" => image.disk = "part" /\ image'.by = image.by,
         TornDisk \in scars => TornDisk \in scars'
  PROVE  DiskExplained'
<1> SUFFICES ASSUME image'.disk = "part"
             PROVE  \/ TornDisk \in scars' /\ \A s \in Runs : Active(s)' => run'[s].serial # image'.by
                    \/ \E s \in Runs : Step(s, "unpacking")' /\ run'[s].serial = image'.by
  BY DEF DiskExplained
<1>1. image.disk = "part" /\ image'.by = image.by OBVIOUS
<1>2. /\ Active(r) /\ \A s \in Runs \ {r} : run'[s] = run[s]
      /\ run'[r] # Idle => run'[r].serial = run[r].serial
  BY DEF Acts, Moves
<1>3. CASE TornDisk \in scars /\ \A s \in Runs : Active(s) => run[s].serial # image.by
  BY <1>1, <1>2, <1>3 DEF Active
<1>4. ASSUME NEW s \in Runs, Step(s, "unpacking"), run[s].serial = image.by
      PROVE  Step(s, "unpacking")' /\ run'[s].serial = image'.by
  BY <1>1, <1>2, <1>4 DEF Step, Active
<1> QED BY <1>1, <1>3, <1>4 DEF DiskExplained

LEMMA DiskKept ==
  ASSUME VMTypes, Apart, DiskExplained, NEW r \in Runs, ActStep(r), Acts(r)
  PROVE  DiskExplained'
<1>1. image \in Images /\ Active(r) /\ run[r] \in RunRecords /\ run[r].serial \in Nat
  BY ActiveIsTyped DEF VMTypes, Acts, Moves
<1>2. /\ \A s \in Runs \ {r} : run'[s] = run[s]
      /\ run'[r] # Idle => run'[r].serial = run[r].serial
  BY DEF Acts, Moves
<1>3. \A s \in Runs \ {r} : Active(s) => run[s].serial # run[r].serial
  BY <1>1 DEF Apart
<1>4. CASE Fetch(r) \/ Copied(r) \/ Rename(r)
  <2>1. run[r].at # "unpacking" /\ UNCHANGED scars
    BY <1>4 DEF Fetch, Copied, Rename, Step
  <2>2. image'.disk = image.disk /\ image'.by = image.by
    BY <1>1, <1>4 DEF Fetch, Copied, Rename, Images
  <2> QED BY <2>1, <2>2, DiskStays
<1>5. CASE Unpack(r)
  <2>1. CASE image.archive = "none"
    <3>1. run[r].at # "unpacking" /\ UNCHANGED <<image, scars>>
      BY <1>5, <2>1 DEF Unpack, Step
    <3> QED BY <3>1, DiskStays
  <2>2. CASE image.archive # "none"
    <3>1. Goto(r, "unpacking") /\ image'.by = run[r].serial
      BY <1>1, <1>5, <2>2 DEF Unpack, Images
    <3>2. "unpacking" \in Phases BY DEF Phases
    <3>3. run'[r] # Idle /\ run'[r].at = "unpacking"
      BY <3>1, <3>2, <1>1, GoingOn DEF MovedTo
    <3> QED BY <3>1, <3>3, <1>2 DEF DiskExplained, Step, Active
  <2> QED BY <2>1, <2>2
<1>6. CASE Unpacked(r) \/ UnpackFails(r)
  <2> SUFFICES ASSUME image'.disk = "part"
               PROVE  \/ TornDisk \in scars' /\ \A s \in Runs : Active(s)' => run'[s].serial # image'.by
                      \/ \E s \in Runs : Step(s, "unpacking")' /\ run'[s].serial = image'.by
    BY DEF DiskExplained
  <2>1. image.disk = "part" /\ image'.by = image.by
    BY <1>1, <1>6 DEF Unpacked, UnpackFails, Torn, Images
  <2>2. TornDisk \in scars => TornDisk \in scars'
    BY <1>6 DEF Unpacked, UnpackFails, Torn
  <2>3. CASE TornDisk \in scars /\ \A s \in Runs : Active(s) => run[s].serial # image.by
    BY <2>1, <2>2, <2>3, <1>1, <1>2 DEF Active
  <2>4. ASSUME NEW s \in Runs \ {r}, Step(s, "unpacking"), run[s].serial = image.by
        PROVE  Step(s, "unpacking")' /\ run'[s].serial = image'.by
    BY <2>1, <2>4, <1>2 DEF Step, Active
  <2>5. CASE run[r].serial = image.by
    <3>1. ~Unpacked(r) BY <1>1, <2>1, <2>5 DEF Unpacked, Images
    <3>2. UnpackFails(r) /\ Step(r, "unpacking") BY <1>6, <3>1 DEF UnpackFails
    <3>3. Finish(r) /\ scars' = scars \union Leaves(r)
      BY <1>1, <2>1, <3>2 DEF UnpackFails, Torn, Images
    <3>4. Leaves(r) = {TornDisk} BY <3>2, <2>5 DEF Leaves, Step
    <3>5. run'[r] = Idle BY <3>3, <1>1, Ending
    <3> QED BY <3>3, <3>4, <3>5, <1>2, <1>3, <2>1, <2>5 DEF Active
  <2> QED BY <2>1, <2>3, <2>4, <2>5 DEF DiskExplained, Step
<1>7. CASE QuietStep(r) \/ GuestStep(r) \/ EndStep(r)
  <2>1. UNCHANGED image
    BY <1>7 DEF QuietStep, Look, CheckPort, HaveImage, WaitForReady, BootstrapToken, CheckSettled,
           HelmRefuses, GuestStep, SetSecret, RestartGateway, MoveController, MoveOverlay,
           RewriteIdentities, SetURLs, ClearInterrupted, HelmBegins, HelmEnds, Replace, InGuest,
           EndStep, ScriptFails, Cut, Fails
  <2>2. run[r].at # "unpacking"
    BY <1>7 DEF QuietStep, Look, CheckPort, HaveImage, WaitForReady, BootstrapToken, CheckSettled,
           HelmRefuses, GuestStep, SetSecret, RestartGateway, MoveController, MoveOverlay,
           RewriteIdentities, SetURLs, ClearInterrupted, HelmBegins, HelmEnds, Replace, InGuest,
           EndStep, ScriptFails, Cut, Step
  <2>3. scars \subseteq scars' \union {StaleGateway(VMOf(r))}
    BY <1>7 DEF QuietStep, Look, CheckPort, HaveImage, WaitForReady, BootstrapToken, CheckSettled,
           HelmRefuses, GuestStep, SetSecret, RestartGateway, MoveController, MoveOverlay,
           RewriteIdentities, SetURLs, ClearInterrupted, HelmBegins, HelmEnds, Replace,
           EndStep, ScriptFails, Cut, Fails
  <2> QED BY <2>1, <2>2, <2>3, ScarsDiffer, DiskStays
<1>8. CASE MachineStep(r)
  <2>1. run[r].at # "unpacking"
    BY <1>8 DEF MachineStep, Save, Create, FirstBoot, FirstBootFails, EnsureCA, Halt, Boot,
                WriteProfile, StoreToken, DeleteVM, Sweep, Forget, Step
  <2>2. CASE Sweep(r)
    <3>1. image'.disk = "none" BY <2>2 DEF Sweep, NoImage
    <3> QED BY <3>1 DEF DiskExplained
  <2>3. CASE ~Sweep(r)
    <3>1. UNCHANGED image
      BY <1>8, <2>3 DEF MachineStep, Save, Create, FirstBoot, FirstBootFails, EnsureCA, Halt, Boot,
                WriteProfile, StoreToken, DeleteVM, Forget, Fails
    <3>2. scars \subseteq scars' \union {StaleGateway(VMOf(r)), StrayIdentities(VMOf(r))}
      BY <1>8, <2>3 DEF MachineStep, Save, Create, FirstBoot, FirstBootFails, EnsureCA, Halt, Boot,
                WriteProfile, StoreToken, DeleteVM, Forget, Fails
    <3> QED BY <2>1, <3>1, <3>2, ScarsDiffer, DiskStays
  <2> QED BY <2>2, <2>3
<1> QED BY <1>4, <1>5, <1>6, <1>7, <1>8 DEF ActStep, ImageStep

LEMMA DiskBegins ==
  ASSUME VMTypes, Apart, DiskExplained, NEW r \in Runs, Begins(r)
  PROVE  DiskExplained'
<1> SUFFICES ASSUME image.disk = "part"
             PROVE  \/ TornDisk \in scars' /\ \A s \in Runs : Active(s)' => run'[s].serial # image'.by
                    \/ \E s \in Runs : Step(s, "unpacking")' /\ run'[s].serial = image'.by
  BY DEF DiskExplained, Begins
<1>1. image' = image /\ scars' = scars /\ ~Active(r) /\ run'[r].serial = Earlier + begun + 1
  BY DEF Begins
<1>2. run'[r].serial # image.by
  BY <1>1 DEF Apart, VMTypes, Images, Earlier
<1>3. \A s \in Runs \ {r} : Active(s) =>
         run'[s] # Idle /\ run'[s].serial = run[s].serial /\ run'[s].at = run[s].at
  <2> TAKE s \in Runs \ {r}
  <2> HAVE Active(s)
  <2>1. run[s] \in RunRecords BY ActiveIsTyped
  <2>2. run'[s] = [run[s] EXCEPT !.beside = run'[s].beside] BY DEF Begins
  <2>3. run'[s].serial = run[s].serial /\ run'[s].at = run[s].at BY <2>1, <2>2 DEF RunRecords
  <2> QED BY <2>1, <2>3, IdleIsNoRecord DEF RunRecords
<1>4. \A s \in Runs \ {r} : Active(s)' => Active(s) BY DEF Begins, Active
<1>5. CASE TornDisk \in scars /\ \A s \in Runs : Active(s) => run[s].serial # image.by
  BY <1>1, <1>2, <1>3, <1>4, <1>5
<1>6. ASSUME NEW s \in Runs, Step(s, "unpacking"), run[s].serial = image.by
      PROVE  Step(s, "unpacking")' /\ run'[s].serial = image'.by
  BY <1>1, <1>3, <1>6 DEF Step, Active
<1> QED BY <1>5, <1>6 DEF DiskExplained

-----------------------------------------------------------------------------
\* The Gateway and the identities follow.
\* A script that others may wait for, and one that moves the overlay.
Restarting(r, i) == Step(r, "rollout") /\ VMOf(r) = i
Rewriting(r, i) ==
  /\ Step(r, "overlay") \/ Step(r, "identities")
  /\ VMOf(r) = i /\ run[r].port = guests[i].controller /\ run[r].from = guests[i].identities

\* A step on one VM leaves the others as they are.
LEMMA OthersFollow ==
  ASSUME VMTypes, NEW r \in Runs, Acts(r), NEW i \in Instances \ {VMOf(r)}, Follows(i)
  PROVE  Follows(i)'
<1>1. /\ guests'[i] = guests[i] /\ \A s \in Runs \ {r} : run'[s] = run[s]
      /\ StaleGateway(i) \in scars => StaleGateway(i) \in scars'
      /\ StrayIdentities(i) \in scars => StrayIdentities(i) \in scars'
  BY DEF Acts, Moves, Spares
<1>2. \A s \in Runs : Restarting(s, i) => Restarting(s, i)'
  BY <1>1 DEF Restarting, Step, Active, VMOf
<1>3. \A s \in Runs : Rewriting(s, i) => Rewriting(s, i)'
  BY <1>1 DEF Rewriting, Step, Active, VMOf
<1> QED BY <1>1, <1>2, <1>3 DEF Follows, GatewayFollows, IdentitiesFollow, Restarting,
                                          Rewriting, StaleGateway, StrayIdentities

\* So does one that leaves what is compared alone and ends no script others wait for.
LEMMA GatewayStays ==
  ASSUME NEW r \in Runs, Acts(r), NEW i \in Instances, GatewayFollows(i),
         guests'[i].gateway = guests[i].gateway, guests'[i].secret = guests[i].secret,
         StaleGateway(i) \in scars => StaleGateway(i) \in scars', run[r].at # "rollout"
  PROVE  GatewayFollows(i)'
<1>1. \A s \in Runs \ {r} : run'[s] = run[s] BY DEF Acts, Moves
<1>2. ASSUME NEW s \in Runs, Step(s, "rollout"), VMOf(s) = i
      PROVE  Step(s, "rollout")' /\ VMOf(s)' = i
  BY <1>1, <1>2 DEF Step, Active, VMOf
<1> QED BY <1>2 DEF GatewayFollows, StaleGateway

LEMMA IdentitiesStay ==
  ASSUME NEW r \in Runs, Acts(r), NEW i \in Instances, IdentitiesFollow(i),
         guests'[i].identities = guests[i].identities, guests'[i].controller = guests[i].controller,
         StrayIdentities(i) \in scars => StrayIdentities(i) \in scars',
         run[r].at \notin {"overlay", "identities"}
  PROVE  IdentitiesFollow(i)'
<1>1. \A s \in Runs \ {r} : run'[s] = run[s] BY DEF Acts, Moves
<1>2. ASSUME NEW s \in Runs, Rewriting(s, i)
      PROVE  Rewriting(s, i)'
  BY <1>1, <1>2 DEF Rewriting, Step, Active, VMOf
<1> QED BY <1>2 DEF IdentitiesFollow, Rewriting, StrayIdentities

LEMMA StillFollows ==
  ASSUME NEW r \in Runs, Acts(r), NEW i \in Instances, Follows(i),
         guests'[i] = guests[i], scars \subseteq scars' \union {TornDisk},
         run[r].at \notin {"rollout", "overlay", "identities"}
  PROVE  Follows(i)'
<1>1. /\ StaleGateway(i) \in scars => StaleGateway(i) \in scars'
      /\ StrayIdentities(i) \in scars => StrayIdentities(i) \in scars'
  BY ScarsDiffer
<1>2. GatewayFollows(i)' BY <1>1, GatewayStays DEF Follows
<1>3. IdentitiesFollow(i)' BY <1>1, IdentitiesStay DEF Follows
<1> QED BY <1>2, <1>3 DEF Follows

\* The scripts.
LEMMA GuestsFollow ==
  ASSUME VMTypes, NEW r \in Runs, Acts(r), GuestStep(r), NEW i \in Instances, i = VMOf(r), Follows(i)
  PROVE  Follows(i)'
<1>1. /\ Active(r) /\ run[r] \in RunRecords /\ guests[i] \in Guests
      /\ guests \in [Instances -> Guests] /\ GuestOf(r) = guests[i]
  BY ActiveIsTyped DEF VMTypes, Acts, Moves, GuestOf
<1>2. /\ \A s \in Runs \ {r} : run'[s] = run[s]
      /\ run'[r] # Idle => run'[r].cmd = run[r].cmd
  BY DEF Acts, Moves
<1>3. GatewayFollows(i) /\ IdentitiesFollow(i) BY DEF Follows
<1>4. CASE SetSecret(r)
  <2>1. /\ Step(r, "secret") /\ UNCHANGED scars
        /\ guests' = [guests EXCEPT ![i] = [guests[i] EXCEPT !.secret = run[r].token]]
        /\ Goto(r, IF guests[i].secret = run[r].token THEN "point" ELSE "rollout")
    BY <1>1, <1>4 DEF SetSecret, InGuest
  <2>2. /\ guests'[i].identities = guests[i].identities /\ guests'[i].controller = guests[i].controller
        /\ guests'[i].gateway = guests[i].gateway /\ guests'[i].secret = run[r].token
    BY <1>1, <2>1 DEF Guests
  <2>3. IdentitiesFollow(i)' BY <2>1, <2>2, <1>3, IdentitiesStay DEF Step
  <2>4. GatewayFollows(i)'
    <3>1. CASE guests[i].secret = run[r].token
      BY <3>1, <2>1, <2>2, <1>3, GatewayStays DEF Step
    <3>2. CASE guests[i].secret # run[r].token
      <4>1. Goto(r, "rollout") /\ "rollout" \in Phases BY <2>1, <3>2 DEF Phases
      <4>2. run'[r] # Idle /\ run'[r].at = "rollout" BY <4>1, <1>1, GoingOn DEF MovedTo
      <4>3. Step(r, "rollout")' /\ VMOf(r)' = i BY <4>2, <1>2 DEF Step, Active, VMOf
      <4> QED BY <4>3 DEF GatewayFollows
    <3> QED BY <3>1, <3>2
  <2> QED BY <2>3, <2>4 DEF Follows
<1>5. CASE RestartGateway(r)
  <2>1. /\ Step(r, "rollout") /\ UNCHANGED scars
        /\ guests' = [guests EXCEPT ![i] = [guests[i] EXCEPT !.gateway = guests[i].secret]]
    BY <1>1, <1>5 DEF RestartGateway, InGuest
  <2>2. /\ guests'[i].identities = guests[i].identities /\ guests'[i].controller = guests[i].controller
        /\ guests'[i].gateway = guests'[i].secret
    BY <1>1, <2>1 DEF Guests
  <2>3. IdentitiesFollow(i)' BY <2>1, <2>2, <1>3, IdentitiesStay DEF Step
  <2> QED BY <2>2, <2>3 DEF Follows, GatewayFollows
<1>6. CASE MoveController(r)
  <2>1. /\ Step(r, "controller") /\ Goto(r, "overlay")
        /\ guests' = [guests EXCEPT ![i] = [guests[i] EXCEPT !.controller = run[r].port]]
        /\ scars' = IF \/ guests[i].controller # run[r].from
                       \/ \E s \in Runs \ {r} : Moving(s) /\ VMOf(s) = i
                    THEN scars \union {StrayIdentities(i)} ELSE scars
    BY <1>1, <1>6 DEF MoveController, InGuest
  <2>2. /\ guests'[i].identities = guests[i].identities /\ guests'[i].controller = run[r].port
        /\ guests'[i].gateway = guests[i].gateway /\ guests'[i].secret = guests[i].secret
    BY <1>1, <2>1 DEF Guests
  <2>3. GatewayFollows(i)' BY <2>1, <2>2, <1>3, GatewayStays DEF Step
  <2>4. IdentitiesFollow(i)'
    <3>1. CASE StrayIdentities(i) \in scars'
      BY <3>1 DEF IdentitiesFollow, StrayIdentities
    <3>2. CASE StrayIdentities(i) \notin scars'
      <4>1. /\ scars' = scars /\ guests[i].controller = run[r].from
            /\ \A s \in Runs \ {r} : ~(Moving(s) /\ VMOf(s) = i)
        BY <2>1, <3>2
      <4>2. guests[i].identities = run[r].from
        <5>1. \A s \in Runs : ~Rewriting(s, i)
          BY <2>1, <4>1 DEF Rewriting, Moving, Step
        <5> QED BY <5>1, <4>1, <3>2, <1>3 DEF IdentitiesFollow, Rewriting
      <4>3. /\ run'[r] # Idle /\ run'[r].at = "overlay" /\ run'[r].port = run[r].port
            /\ run'[r].from = run[r].from
        <5>1. "overlay" \in Phases BY DEF Phases
        <5> QED BY <5>1, <2>1, <1>1, GoingOn DEF MovedTo
      <4>4. Rewriting(r, i)' BY <4>2, <4>3, <2>2, <1>2 DEF Rewriting, Step, Active, VMOf
      <4> QED BY <4>4 DEF IdentitiesFollow, Rewriting
    <3> QED BY <3>1, <3>2
  <2> QED BY <2>3, <2>4 DEF Follows
<1>7. CASE MoveOverlay(r)
  <2>1. /\ Step(r, "overlay") /\ Goto(r, "identities") /\ UNCHANGED scars
        /\ guests' = [guests EXCEPT ![i] = [guests[i] EXCEPT !.overlay = run[r].port]]
    BY <1>1, <1>7 DEF MoveOverlay, InGuest
  <2>2. /\ guests'[i].identities = guests[i].identities /\ guests'[i].controller = guests[i].controller
        /\ guests'[i].gateway = guests[i].gateway /\ guests'[i].secret = guests[i].secret
    BY <1>1, <2>1 DEF Guests
  <2>3. GatewayFollows(i)' BY <2>1, <2>2, <1>3, GatewayStays DEF Step
  <2>4. /\ run'[r] # Idle /\ run'[r].at = "identities" /\ run'[r].port = run[r].port
        /\ run'[r].from = run[r].from
    <3>1. "identities" \in Phases BY DEF Phases
    <3> QED BY <3>1, <2>1, <1>1, GoingOn DEF MovedTo
  <2>5. ASSUME NEW s \in Runs, Rewriting(s, i) PROVE Rewriting(s, i)'
    BY <2>2, <2>4, <2>5, <1>2 DEF Rewriting, Step, Active, VMOf
  <2>6. IdentitiesFollow(i)'
    BY <2>1, <2>2, <2>5, <1>3 DEF IdentitiesFollow, Rewriting, StrayIdentities
  <2> QED BY <2>3, <2>6 DEF Follows
<1>8. CASE RewriteIdentities(r)
  <2>1. /\ Step(r, "identities")
        /\ guests' = [guests EXCEPT ![i] = [guests[i] EXCEPT
                        !.identities = IF guests[i].identities = run[r].from
                                       THEN run[r].port ELSE guests[i].identities]]
        /\ scars' = IF guests[i].controller # run[r].port
                    THEN scars \union {StrayIdentities(i)} ELSE scars
    BY <1>1, <1>8 DEF RewriteIdentities, InGuest
  <2>2. /\ guests'[i].identities = IF guests[i].identities = run[r].from
                                   THEN run[r].port ELSE guests[i].identities
        /\ guests'[i].controller = guests[i].controller
        /\ guests'[i].gateway = guests[i].gateway /\ guests'[i].secret = guests[i].secret
    BY <1>1, <2>1 DEF Guests
  <2>3. GatewayFollows(i)' BY <2>1, <2>2, <1>3, GatewayStays, ScarsDiffer DEF Step
  <2>4. IdentitiesFollow(i)'
    <3>1. CASE StrayIdentities(i) \in scars'
      BY <3>1 DEF IdentitiesFollow, StrayIdentities
    <3>2. CASE guests'[i].identities = guests'[i].controller
      BY <3>2 DEF IdentitiesFollow
    <3>3. CASE StrayIdentities(i) \notin scars' /\ guests'[i].identities # guests'[i].controller
      <4>1. scars' = scars /\ guests[i].controller = run[r].port BY <2>1, <3>3
      <4>2. guests[i].identities # run[r].from /\ guests'[i].identities = guests[i].identities
        BY <2>2, <3>3, <4>1
      <4>3. guests[i].identities # guests[i].controller BY <2>2, <3>3, <4>2
      <4>4. PICK s \in Runs : Rewriting(s, i)
        BY <1>3, <3>3, <4>1, <4>3 DEF IdentitiesFollow, Rewriting
      <4>5. s # r BY <4>2, <4>4 DEF Rewriting
      <4>6. Rewriting(s, i)' BY <4>2, <4>4, <4>5, <2>2, <1>2 DEF Rewriting, Step, Active, VMOf
      <4> QED BY <4>6 DEF IdentitiesFollow, Rewriting
    <3> QED BY <3>1, <3>2, <3>3
  <2> QED BY <2>3, <2>4 DEF Follows
<1>9. CASE SetURLs(r)
  <2>1. /\ Step(r, "urls") /\ UNCHANGED scars
        /\ guests' = [guests EXCEPT ![i] = [guests[i] EXCEPT
                        !.urls = run[r].port,
                        !.gateway = IF guests[i].urls # run[r].port THEN guests[i].secret
                                    ELSE guests[i].gateway]]
    BY <1>1, <1>9 DEF SetURLs, InGuest
  <2>2. /\ guests'[i].identities = guests[i].identities /\ guests'[i].controller = guests[i].controller
        /\ guests'[i].secret = guests[i].secret
        /\ guests'[i].gateway \in {guests[i].secret, guests[i].gateway}
    BY <1>1, <2>1 DEF Guests
  <2>3. IdentitiesFollow(i)' BY <2>1, <2>2, <1>3, IdentitiesStay DEF Step
  <2>4. GatewayFollows(i)'
    <3>1. CASE guests'[i].gateway = guests[i].gateway
      BY <3>1, <2>1, <2>2, <1>3, GatewayStays DEF Step
    <3> QED BY <3>1, <2>2 DEF GatewayFollows
  <2> QED BY <2>3, <2>4 DEF Follows
<1>10. CASE ClearInterrupted(r) \/ HelmBegins(r)
  <2>1. /\ run[r].at \in {"clear", "helm"} /\ UNCHANGED scars
        /\ \E release \in {"deployed", "pending"} :
             guests' = [guests EXCEPT ![i] = [guests[i] EXCEPT !.release = release]]
    BY <1>1, <1>10 DEF ClearInterrupted, HelmBegins, InGuest, Step
  <2>2. /\ guests'[i].identities = guests[i].identities /\ guests'[i].controller = guests[i].controller
        /\ guests'[i].gateway = guests[i].gateway /\ guests'[i].secret = guests[i].secret
    BY <1>1, <2>1 DEF Guests
  <2>3. GatewayFollows(i)' BY <2>1, <2>2, <1>3, GatewayStays
  <2>4. IdentitiesFollow(i)' BY <2>1, <2>2, <1>3, IdentitiesStay
  <2> QED BY <2>3, <2>4 DEF Follows
<1>11. CASE HelmEnds(r) \/ Replace(r)
  <2>1. run[r].at \in {"helming", "replace"} /\ scars \subseteq scars' \union {StaleGateway(i)}
    BY <1>1, <1>11 DEF HelmEnds, Replace, InGuest, Step
  <2>2. /\ guests'[i].identities = guests[i].identities /\ guests'[i].controller = guests[i].controller
        /\ guests'[i].gateway = guests[i].secret /\ guests'[i].secret = guests[i].secret
    <3>1. CASE HelmEnds(r) BY <1>1, <3>1 DEF HelmEnds, InGuest, Guests
    <3>2. CASE Replace(r) BY <1>1, <3>2 DEF Replace, Guests
    <3> QED BY <1>11, <3>1, <3>2
  <2>3. GatewayFollows(i)' BY <2>2 DEF GatewayFollows
  <2>4. IdentitiesFollow(i)' BY <2>1, <2>2, <1>3, IdentitiesStay, ScarsDiffer
  <2> QED BY <2>3, <2>4 DEF Follows
<1> QED BY <1>4, <1>5, <1>6, <1>7, <1>8, <1>9, <1>10, <1>11 DEF GuestStep

\* A new VM has neither gone astray; a boot starts the Gateway anew.
LEMMA MachinesFollow ==
  ASSUME VMTypes, NEW r \in Runs, Acts(r), MachineStep(r), NEW i \in Instances, i = VMOf(r), Follows(i)
  PROVE  Follows(i)'
<1>1. Active(r) /\ guests[i] \in Guests /\ guests \in [Instances -> Guests]
  BY DEF VMTypes, Acts, Moves
<1>2. run[r].at \notin {"rollout", "overlay", "identities"}
  BY DEF MachineStep, Save, Create, FirstBoot, FirstBootFails, EnsureCA, Halt, Boot, WriteProfile,
         StoreToken, DeleteVM, Sweep, Forget, Step
<1>3. CASE UNCHANGED guests /\ scars \subseteq scars' \union {TornDisk}
  BY <1>2, <1>3, StillFollows
<1>4. CASE guests' = [guests EXCEPT ![i] = Fresh]
  <2>1. guests'[i] = Fresh BY <1>1, <1>4
  <2>2. Fresh.gateway = Fresh.secret /\ Fresh.identities = Fresh.controller BY DEF Fresh
  <2> QED BY <2>1, <2>2 DEF Follows, GatewayFollows, IdentitiesFollow
<1>5. CASE /\ guests' = [guests EXCEPT ![i].gateway = guests[i].secret]
           /\ scars' = scars \ {StaleGateway(i)}
  <2>1. /\ guests'[i].gateway = guests[i].secret /\ guests'[i].secret = guests[i].secret
        /\ guests'[i].identities = guests[i].identities
        /\ guests'[i].controller = guests[i].controller
    BY <1>1, <1>5 DEF Guests
  <2>2. GatewayFollows(i)' BY <2>1 DEF GatewayFollows
  <2>3. IdentitiesFollow(i)' BY <1>2, <1>5, <2>1, IdentitiesStay, ScarsDiffer DEF Follows
  <2> QED BY <2>2, <2>3 DEF Follows
<1>6. CASE Create(r) BY <1>3, <1>4, <1>6 DEF Create
<1>7. CASE Boot(r) BY <1>3, <1>5, <1>7 DEF Boot, Fails
<1>8. CASE ~Create(r) /\ ~Boot(r)
  BY <1>3, <1>8 DEF MachineStep, Save, FirstBoot, FirstBootFails, EnsureCA, Halt, WriteProfile,
         StoreToken, DeleteVM, Sweep, Forget
<1> QED BY <1>6, <1>7, <1>8

\* A script that ends early leaves a scar.
LEMMA EndsFollow ==
  ASSUME VMTypes, NEW r \in Runs, Acts(r), EndStep(r), NEW i \in Instances, i = VMOf(r), Follows(i)
  PROVE  Follows(i)'
<1>1. UNCHANGED guests /\ scars' = scars \union Leaves(r) /\ Active(r)
  BY DEF EndStep, ScriptFails, Cut
<1>2. run[r].at # "unpacking"
  BY DEF EndStep, ScriptFails, Cut
<1>3. GatewayFollows(i)'
  <2>1. CASE run[r].at = "rollout"
    <3>1. Leaves(r) = {StaleGateway(i)} BY <1>1, <2>1 DEF Leaves, Step
    <3>2. StaleGateway(i) \in scars' BY <3>1, <1>1
    <3> QED BY <3>2 DEF GatewayFollows, StaleGateway
  <2>2. CASE run[r].at # "rollout" BY <2>2, <1>1, GatewayStays DEF Follows
  <2> QED BY <2>1, <2>2
<1>4. IdentitiesFollow(i)'
  <2>1. CASE run[r].at \in {"overlay", "identities"}
    <3>1. Leaves(r) = {StrayIdentities(i)} BY <1>1, <2>1 DEF Leaves, Step
    <3>2. StrayIdentities(i) \in scars' BY <3>1, <1>1
    <3> QED BY <3>2 DEF IdentitiesFollow, StrayIdentities
  <2>2. CASE run[r].at \notin {"overlay", "identities"}
    BY <2>2, <1>1, IdentitiesStay DEF Follows
  <2> QED BY <2>1, <2>2
<1> QED BY <1>3, <1>4 DEF Follows

LEMMA FollowKept ==
  ASSUME VMTypes, AllFollow, NEW r \in Runs, Acts(r), ActStep(r)
  PROVE  AllFollow'
<1> SUFFICES ASSUME NEW i \in Instances PROVE Follows(i)'
  BY DEF AllFollow
<1>1. Follows(i) BY DEF AllFollow
<1>2. CASE i # VMOf(r) BY <1>1, <1>2, OthersFollow
<1>3. CASE i = VMOf(r)
  <2>1. CASE QuietStep(r) \/ ImageStep(r)
    <3>1. UNCHANGED guests /\ scars \subseteq scars' \union {TornDisk}
      BY <2>1 DEF QuietStep, Look, CheckPort, HaveImage, WaitForReady, BootstrapToken, CheckSettled,
         HelmRefuses, Fails, ImageStep, Fetch, Copied, Rename, Unpack, Unpacked, UnpackFails, Torn
    <3>2. run[r].at \notin {"rollout", "overlay", "identities"}
      BY <2>1 DEF QuietStep, Look, CheckPort, HaveImage, WaitForReady, BootstrapToken, CheckSettled,
         HelmRefuses, ImageStep, Fetch, Copied, Rename, Unpack, Unpacked, UnpackFails, Step
    <3> QED BY <3>1, <3>2, <1>1, StillFollows
  <2>2. CASE MachineStep(r) BY <2>2, <1>1, <1>3, MachinesFollow
  <2>3. CASE GuestStep(r) BY <2>3, <1>1, <1>3, GuestsFollow
  <2>4. CASE EndStep(r) BY <2>4, <1>1, <1>3, EndsFollow
  <2> QED BY <2>1, <2>2, <2>3, <2>4 DEF ActStep
<1> QED BY <1>2, <1>3

LEMMA FollowBegin ==
  ASSUME VMTypes, AllFollow, NEW r \in Runs, Begins(r)
  PROVE  AllFollow'
<1> SUFFICES ASSUME NEW i \in Instances PROVE Follows(i)'
  BY DEF AllFollow
<1>1. UNCHANGED <<guests, scars>> /\ ~Active(r) BY DEF Begins
<1>2. \A s \in Runs : Active(s) =>
        /\ run'[s] # Idle /\ run'[s].at = run[s].at /\ run'[s].cmd = run[s].cmd
        /\ run'[s].port = run[s].port /\ run'[s].from = run[s].from
  <2> TAKE s \in Runs
  <2> HAVE Active(s)
  <2>1. run[s] \in RunRecords BY ActiveIsTyped
  <2>2. run'[s] = [run[s] EXCEPT !.beside = run'[s].beside] BY <1>1 DEF Begins
  <2>3. /\ run'[s].at = run[s].at /\ run'[s].cmd = run[s].cmd
        /\ run'[s].port = run[s].port /\ run'[s].from = run[s].from
    BY <2>1, <2>2 DEF RunRecords
  <2> QED BY <2>1, <2>3, IdleIsNoRecord DEF RunRecords
<1>3. ASSUME NEW s \in Runs, Step(s, "rollout"), VMOf(s) = i
      PROVE  Step(s, "rollout")' /\ VMOf(s)' = i
  BY <1>2, <1>3 DEF Step, Active, VMOf
<1>4. ASSUME NEW s \in Runs, Rewriting(s, i)
      PROVE  Rewriting(s, i)'
  BY <1>1, <1>2, <1>4 DEF Rewriting, Step, Active, VMOf
<1>5. Follows(i) BY DEF AllFollow
<1> QED BY <1>1, <1>3, <1>4, <1>5
    DEF Follows, GatewayFollows, IdentitiesFollow, Rewriting, StaleGateway, StrayIdentities

-----------------------------------------------------------------------------
\* What a command has brought about stays, if it is alone on its VM.
\* Steps of others are elsewhere.
LEMMA OthersAchieve ==
  ASSUME VMTypes, Apart, AllAchieved, NEW r \in Runs, Acts(r), NEW s \in Runs \ {r}, Alone(s)'
  PROVE  Achieved(s)'
<1>1. run'[s] = run[s] /\ Active(r) BY DEF Acts, Moves
<1>2. Alone(s) BY <1>1 DEF Alone, Active, VMOf
<1>3. VMOf(s) \in Instances /\ VMOf(s) \notin Touched(run[r].cmd) /\ VMOf(r) \in Touched(run[r].cmd)
  BY <1>1, <1>2, ActiveIsTyped DEF Alone, Apart
<1> DEFINE i == VMOf(s)
<1>4. /\ host'[i] = host[i] /\ vms'[i] = vms[i] /\ guests'[i] = guests[i]
      /\ StrayIdentities(i) \in scars => StrayIdentities(i) \in scars'
  BY <1>3 DEF Acts, Spares
<1>5. Achieved(s) BY <1>2 DEF AllAchieved
<1> QED BY <1>1, <1>4, <1>5 DEF Achieved, VMOf, OpOf, Settled, Strayed, StrayIdentities

LEMMA AchievedBegins ==
  ASSUME VMTypes, AllAchieved, NEW r \in Runs, Begins(r)
  PROVE  AllAchieved'
<1> SUFFICES ASSUME NEW s \in Runs, Alone(s)' PROVE Achieved(s)'
  BY DEF AllAchieved
<1>1. UNCHANGED <<host, vms, guests, scars>> /\ ~Active(r) BY DEF Begins
<1>2. CASE s = r
  <2>1. run'[r].at \in {"look", "save"} /\ ~run'[r].booted BY DEF Begins
  <2> QED BY <1>2, <2>1 DEF Achieved
<1>3. CASE s # r
  <2>1. Active(s) BY <1>3 DEF Begins, Active, Alone
  <2>2. run[s] \in RunRecords BY <2>1, ActiveIsTyped
  <2>3. run'[s] = [run[s] EXCEPT !.beside = run'[s].beside] /\ run[s].beside \subseteq run'[s].beside
    BY <1>3, <2>1 DEF Begins
  <2>4. /\ run'[s].at = run[s].at /\ run'[s].cmd = run[s].cmd
        /\ run'[s].port = run[s].port /\ run'[s].from = run[s].from
        /\ run'[s].token = run[s].token /\ run'[s].booted = run[s].booted
    BY <2>2, <2>3 DEF RunRecords
  <2>5. Achieved(s) BY <2>1, <2>3, <2>4 DEF AllAchieved, Alone, VMOf
  <2> QED BY <1>1, <2>4, <2>5 DEF Achieved, VMOf, OpOf, Settled, Strayed, StrayIdentities
<1> QED BY <1>2, <1>3

\* A command that is alone: nobody else's script runs in its VM.
LEMMA NobodyElse ==
  ASSUME VMTypes, Apart, NEW r \in Runs, Alone(r), NEW s \in Runs \ {r}, Active(s)
  PROVE  VMOf(s) # VMOf(r)
BY ActiveIsTyped DEF Apart, Alone

\* Where something has been brought about.
Reached ==
  {"rollout", "point", "controller", "overlay", "identities", "urls", "profile", "store"}

LEMMA NotYetReached ==
  ASSUME NEW r \in Runs, run'[r].at \notin Reached,
         run'[r].booted => vms'[VMOf(r)'].port = run'[r].port
  PROVE  Achieved(r)'
BY DEF Achieved, Reached, VMOf

\* Commands before their scripts.
LEMMA MachinesAchieve ==
  ASSUME VMTypes, NEW r \in Runs, Acts(r), OnItsWay(r), Achieved(r), run'[r] # Idle,
         QuietStep(r) \/ ImageStep(r) \/ MachineStep(r), ~CheckSettled(r), ~WriteProfile(r)
  PROVE  Achieved(r)'
<1>1. PICK i \in Instances : i = VMOf(r) BY ActiveIsTyped DEF Acts, Moves
<1>2. /\ Active(r) /\ run[r] \in RunRecords /\ VMOf(r)' = i /\ run[r].booted \in BOOLEAN
      /\ run[r].port \in AnyPort /\ vms \in [Instances -> VMRecords]
  BY <1>1, ActiveIsTyped DEF Acts, Moves, VMOf, VMTypes
<1>3. ~Finish(r) BY <1>2, Ending
<1>4. ASSUME NEW phase \in Phases, Goto(r, phase), phase \notin Reached,
             ~run[r].booted \/ vms' = vms
      PROVE  Achieved(r)'
  <2>1. run'[r].at = phase /\ run'[r].booted = run[r].booted /\ run'[r].port = run[r].port
    BY <1>2, <1>4, GoingOn DEF MovedTo
  <2>2. run[r].booted => vms[i].port = run[r].port BY <1>1 DEF Achieved
  <2> QED BY <2>1, <2>2, <1>2, <1>4, NotYetReached
<1>5. CASE Look(r)
  <2>1. ~run[r].booted BY <1>5 DEF Look, Step, OnItsWay, AfterBoot
  <2>2. \E phase \in Phases \ Reached : Goto(r, phase)
    BY <1>3, <1>5 DEF Look, Phases, Reached
  <2> QED BY <2>1, <2>2, <1>4
<1>6. CASE CheckPort(r)
  <2>1. ~run[r].booted BY <1>6 DEF CheckPort, Step, OnItsWay, AfterBoot
  <2>2. CASE Goto(r, "have")
    <3>1. "have" \in Phases \ Reached BY DEF Phases, Reached
    <3> QED BY <2>1, <2>2, <3>1, <1>4
  <2>3. ASSUME NEW p \in Ports,
               run' = [run EXCEPT ![r].port = p, ![r].at = "have", ![r].picked = FALSE]
        PROVE  Achieved(r)'
    <3>1. run'[r] = [run[r] EXCEPT !.port = p, !.at = "have", !.picked = FALSE]
      BY <2>3 DEF VMTypes
    <3>2. run'[r].at = "have" /\ run'[r].booted = run[r].booted BY <3>1, <1>2 DEF RunRecords
    <3>3. "have" \notin Reached BY DEF Reached
    <3> QED BY <2>1, <3>2, <3>3, NotYetReached
  <2> QED BY <1>3, <1>6, <2>2, <2>3 DEF CheckPort
<1>7. CASE HaveImage(r) \/ HelmRefuses(r) \/ ImageStep(r)
  <2>1. ~run[r].booted
    BY <1>7 DEF HaveImage, HelmRefuses, ImageStep, Fetch, Copied, Rename, Unpack, Unpacked,
                UnpackFails, Step, OnItsWay, AfterBoot
  <2>2. \E phase \in Phases \ Reached : Goto(r, phase)
    BY <1>3, <1>7 DEF HaveImage, HelmRefuses, Fails, ImageStep, Fetch, Copied, Rename, Unpack,
                      Unpacked, UnpackFails, Phases, Reached
  <2> QED BY <2>1, <2>2, <1>4
<1>8. CASE WaitForReady(r) \/ EnsureCA(r)
  <2>1. vms' = vms BY <1>8 DEF WaitForReady, EnsureCA
  <2>2. \E phase \in Phases \ Reached : Goto(r, phase)
    BY <1>3, <1>8 DEF WaitForReady, EnsureCA, Phases, Reached
  <2> QED BY <2>1, <2>2, <1>4
<1>9. CASE BootstrapToken(r)
  <2>1. PICK t : run' = [run EXCEPT ![r].at = "secret", ![r].token = t]
    BY <1>9 DEF BootstrapToken
  <2>2. run'[r] = [run[r] EXCEPT !.at = "secret", !.token = t] BY <2>1 DEF VMTypes
  <2>3. run'[r].at = "secret" /\ run'[r].booted = run[r].booted /\ run'[r].port = run[r].port
    BY <2>2, <1>2 DEF RunRecords
  <2>4. vms' = vms /\ "secret" \notin Reached BY <1>9 DEF BootstrapToken, Reached
  <2>5. run[r].booted => vms[i].port = run[r].port BY <1>1 DEF Achieved
  <2> QED BY <2>3, <2>4, <2>5, <1>2, NotYetReached
<1>10. CASE FirstBoot(r) \/ Boot(r)
  <2>1. ~run[r].booted BY <1>10 DEF FirstBoot, Boot, Step, OnItsWay, AfterBoot
  <2>2. CASE Goto(r, "wait")
    <3>1. "wait" \in Phases \ Reached BY DEF Phases, Reached
    <3> QED BY <2>1, <2>2, <3>1, <1>4
  <2>3. ASSUME NEW phase \in {"ca", "wait"}, run' = [run EXCEPT ![r].at = phase, ![r].booted = TRUE],
               vms' = [vms EXCEPT ![i] = Up(i, run[r].port)]
        PROVE  Achieved(r)'
    <3>1. run'[r] = [run[r] EXCEPT !.at = phase, !.booted = TRUE] BY <2>3 DEF VMTypes
    <3>2. run'[r].at = phase /\ run'[r].port = run[r].port BY <3>1, <1>2 DEF RunRecords
    <3>3. phase \notin Reached BY DEF Reached
    <3>4. vms'[i].port = run[r].port BY <2>3, <1>2, UpTyped
    <3> QED BY <3>2, <3>3, <3>4, <1>2, NotYetReached
  <2> QED BY <1>1, <1>3, <1>10, <2>2, <2>3 DEF FirstBoot, Boot, Fails
<1>11. CASE \/ Save(r) \/ Create(r) \/ FirstBootFails(r) \/ Halt(r) \/ DeleteVM(r) \/ Sweep(r)
            \/ StoreToken(r) \/ Forget(r)
  <2>1. ~run[r].booted \/ StoreToken(r)
    BY <1>11 DEF Save, Create, FirstBootFails, Halt, DeleteVM, Sweep, Forget, Step, OnItsWay, AfterBoot
  <2>2. ~StoreToken(r) /\ \E phase \in Phases \ Reached : Goto(r, phase)
    BY <1>3, <1>11 DEF Save, Create, FirstBootFails, Halt, DeleteVM, Sweep, StoreToken, Forget,
                       Phases, Reached
  <2> QED BY <2>1, <2>2, <1>4
<1> QED BY <1>5, <1>6, <1>7, <1>8, <1>9, <1>10, <1>11 DEF QuietStep, MachineStep

\* Its scripts, and what they end with.
LEMMA ScriptsAchieve ==
  ASSUME VMTypes, Apart, NEW r \in Runs, Acts(r), OnItsWay(r), Alone(r), Achieved(r), run'[r] # Idle,
         GuestStep(r) \/ CheckSettled(r) \/ WriteProfile(r),
         IdentitiesFollow(VMOf(r))
  PROVE  Achieved(r)'
<1>1. PICK i \in Instances : i = VMOf(r) BY ActiveIsTyped DEF Acts, Moves
<1>2. /\ Active(r) /\ run[r] \in RunRecords /\ VMOf(r)' = i /\ run'[r].cmd = run[r].cmd
      /\ OpOf(r)' = OpOf(r) /\ GuestOf(r) = guests[i] /\ guests[i] \in Guests
      /\ guests \in [Instances -> Guests] /\ run[r].port \in AnyPort
  BY <1>1, ActiveIsTyped DEF Acts, Moves, VMOf, OpOf, VMTypes, GuestOf
<1>3. vms' = vms /\ ~Finish(r)
  <2>1. ~Finish(r) BY <1>2, Ending
  <2> QED BY <2>1 DEF GuestStep, SetSecret, RestartGateway, MoveController, MoveOverlay, RewriteIdentities,
       SetURLs, ClearInterrupted, HelmBegins, HelmEnds, Replace, InGuest, CheckSettled, WriteProfile
<1>4. /\ run[r].booted => vms[i].port = run[r].port
      /\ run[r].at \in Reached /\ OpOf(r) \notin Upgrades => guests[i].secret = run[r].token
      /\ run[r].at \in {"overlay", "identities"} =>
           /\ guests[i].controller = run[r].port
           /\ Strayed(i) \/ guests[i].identities \in {run[r].from, run[r].port}
      /\ run[r].at = "identities" => guests[i].overlay = run[r].port
      /\ run[r].at \in {"urls", "profile", "store"} =>
           /\ guests[i].controller = run[r].port /\ guests[i].overlay = run[r].port
           /\ Strayed(i) \/ guests[i].identities = run[r].port
      /\ run[r].at \in {"profile", "store"} => guests[i].urls = run[r].port
  BY <1>1 DEF Achieved, Reached, Settled
<1>5. \A s \in Runs : s # r /\ Active(s) => VMOf(s) # i BY <1>1, NobodyElse
<1>6. ASSUME NEW phase \in Phases, Goto(r, phase)
      PROVE  /\ run'[r].at = phase /\ run'[r].port = run[r].port /\ run'[r].token = run[r].token
             /\ run'[r].from = run[r].from /\ run'[r].booted = run[r].booted
  BY <1>2, <1>6, GoingOn DEF MovedTo
<1>7. ASSUME NEW phase \in Phases \ Reached, Goto(r, phase) PROVE Achieved(r)'
  <2>1. run'[r].at = phase /\ run'[r].port = run[r].port /\ run'[r].booted = run[r].booted
    BY <1>6, <1>7
  <2> QED BY <2>1, <1>2, <1>3, <1>4, NotYetReached
<1>8. CASE SetSecret(r)
  <2>1. /\ Step(r, "secret")
        /\ guests' = [guests EXCEPT ![i] = [guests[i] EXCEPT !.secret = run[r].token]]
        /\ \E phase \in {"point", "rollout"} : Goto(r, phase)
    BY <1>1, <1>2, <1>8 DEF SetSecret, InGuest
  <2>2. guests'[i].secret = run[r].token BY <1>2, <2>1 DEF Guests
  <2>3. /\ run'[r].at \in {"point", "rollout"} /\ run'[r].port = run[r].port
        /\ run'[r].token = run[r].token /\ run'[r].booted = run[r].booted
    BY <2>1, <1>6 DEF Phases
  <2> QED BY <2>2, <2>3, <1>2, <1>3, <1>4 DEF Achieved
<1>9. CASE RestartGateway(r)
  <2>1. /\ Step(r, "rollout") /\ Goto(r, "point")
        /\ guests' = [guests EXCEPT ![i] = [guests[i] EXCEPT !.gateway = guests[i].secret]]
    BY <1>1, <1>2, <1>9 DEF RestartGateway, InGuest
  <2>2. guests'[i].secret = guests[i].secret BY <1>2, <2>1 DEF Guests
  <2>3. /\ run'[r].at = "point" /\ run'[r].port = run[r].port
        /\ run'[r].token = run[r].token /\ run'[r].booted = run[r].booted
    BY <2>1, <1>6 DEF Phases
  <2> QED BY <2>1, <2>2, <2>3, <1>2, <1>3, <1>4 DEF Achieved, Reached, Step
<1>10. CASE CheckSettled(r)
  <2> DEFINE next == IF Settled(guests[i], run[r].port)
                     THEN IF guests[i].urls = run[r].port THEN AfterPointing(r) ELSE "urls"
                     ELSE IF guests[i].controller = run[r].port THEN "overlay" ELSE "controller"
  <2>1. /\ Step(r, "point") /\ UNCHANGED <<host, guests, scars>>
        /\ run' = [run EXCEPT ![r].from = guests[i].controller, ![r].at = next]
    BY <1>2, <1>10 DEF CheckSettled
  <2>2. /\ next \in {AfterPointing(r), "urls", "overlay", "controller"}
        /\ next = "urls" \/ next = AfterPointing(r) => Settled(guests[i], run[r].port)
        /\ next = AfterPointing(r) => guests[i].urls = run[r].port
        /\ next = "overlay" => guests[i].controller = run[r].port
    BY DEF AfterPointing
  <2> HIDE DEF next
  <2>3. run'[r] = [run[r] EXCEPT !.from = guests[i].controller, !.at = next]
    BY <2>1 DEF VMTypes
  <2>4. /\ run'[r].at = next /\ run'[r].port = run[r].port /\ run'[r].from = guests[i].controller
        /\ run'[r].token = run[r].token /\ run'[r].booted = run[r].booted
    BY <2>3, <1>2 DEF RunRecords
  <2>5. Strayed(i) \/ guests[i].identities = guests[i].controller
    BY <1>1, <1>5, <2>1 DEF IdentitiesFollow, Strayed, Step
  <2>6. OpOf(r) \notin Upgrades => guests[i].secret = run[r].token
    BY <1>4, <2>1 DEF Reached, Step
  <2>7. CASE next = AfterPointing(r)
    <3>1. CASE OpOf(r) \in Upgrades
      <4>1. next = "wait" BY <2>7, <3>1 DEF AfterPointing, Upgrades
      <4> QED BY <4>1, <2>4, <1>2, <1>3, <1>4, NotYetReached DEF Reached
    <3>2. CASE OpOf(r) \notin Upgrades
      <4>1. next = "profile" BY <2>7, <3>2 DEF AfterPointing, Upgrades
      <4> QED BY <4>1, <2>1, <2>2, <2>4, <2>5, <2>6, <2>7, <1>2, <1>3, <1>4
          DEF Achieved, Settled, Strayed, StrayIdentities
    <3> QED BY <3>1, <3>2
  <2>8. CASE next = "urls"
    BY <2>8, <2>1, <2>2, <2>4, <2>5, <2>6, <1>2, <1>3, <1>4
    DEF Achieved, Settled, Strayed, StrayIdentities
  <2>9. CASE next = "overlay"
    BY <2>9, <2>1, <2>2, <2>4, <2>5, <2>6, <1>2, <1>3, <1>4
    DEF Achieved, Strayed, StrayIdentities
  <2>10. CASE next = "controller"
    BY <2>10, <2>1, <2>4, <2>6, <1>2, <1>3, <1>4 DEF Achieved
  <2> QED BY <2>2, <2>7, <2>8, <2>9, <2>10
<1>11. CASE MoveController(r)
  <2>1. /\ Step(r, "controller") /\ Goto(r, "overlay")
        /\ guests' = [guests EXCEPT ![i] = [guests[i] EXCEPT !.controller = run[r].port]]
        /\ scars' = IF \/ guests[i].controller # run[r].from
                       \/ \E s \in Runs \ {r} : Moving(s) /\ VMOf(s) = i
                    THEN scars \union {StrayIdentities(i)} ELSE scars
    BY <1>1, <1>2, <1>11 DEF MoveController, InGuest
  <2>2. /\ guests'[i].secret = guests[i].secret /\ guests'[i].controller = run[r].port
        /\ guests'[i].identities = guests[i].identities
    BY <1>2, <2>1 DEF Guests
  <2>3. /\ run'[r].at = "overlay" /\ run'[r].port = run[r].port /\ run'[r].from = run[r].from
        /\ run'[r].token = run[r].token /\ run'[r].booted = run[r].booted
    BY <2>1, <1>6 DEF Phases
  <2>4. StrayIdentities(i) \in scars' \/ guests[i].identities = run[r].from
    <3>1. Strayed(i) \/ guests[i].identities = guests[i].controller
      BY <1>1, <1>5, <2>1 DEF IdentitiesFollow, Strayed, Step
    <3> QED BY <3>1, <2>1 DEF Strayed
  <2>5. OpOf(r) \notin Upgrades => guests[i].secret = run[r].token
    BY <1>4, <2>1 DEF Reached, Step
  <2> QED BY <2>2, <2>3, <2>4, <2>5, <1>2, <1>3, <1>4 DEF Achieved, Strayed, StrayIdentities
<1>12. CASE MoveOverlay(r)
  <2>1. /\ Step(r, "overlay") /\ Goto(r, "identities") /\ UNCHANGED scars
        /\ guests' = [guests EXCEPT ![i] = [guests[i] EXCEPT !.overlay = run[r].port]]
    BY <1>2, <1>1, <1>12 DEF MoveOverlay, InGuest
  <2>2. /\ guests'[i].secret = guests[i].secret /\ guests'[i].controller = guests[i].controller
        /\ guests'[i].identities = guests[i].identities /\ guests'[i].overlay = run[r].port
    BY <1>2, <2>1 DEF Guests
  <2>3. /\ run'[r].at = "identities" /\ run'[r].port = run[r].port /\ run'[r].from = run[r].from
        /\ run'[r].token = run[r].token /\ run'[r].booted = run[r].booted
    BY <2>1, <1>6 DEF Phases
  <2>4. /\ guests[i].controller = run[r].port
        /\ Strayed(i) \/ guests[i].identities \in {run[r].from, run[r].port}
        /\ OpOf(r) \notin Upgrades => guests[i].secret = run[r].token
    BY <1>4, <2>1 DEF Reached, Step
  <2> QED BY <2>1, <2>2, <2>3, <2>4, <1>2, <1>3, <1>4 DEF Achieved, Strayed, StrayIdentities
<1>13. CASE RewriteIdentities(r)
  <2>1. /\ Step(r, "identities") /\ Goto(r, "urls") /\ scars \subseteq scars'
        /\ guests' = [guests EXCEPT ![i] = [guests[i] EXCEPT
                        !.identities = IF guests[i].identities = run[r].from
                                       THEN run[r].port ELSE guests[i].identities]]
    BY <1>1, <1>2, <1>13 DEF RewriteIdentities, InGuest
  <2>2. /\ guests'[i].secret = guests[i].secret /\ guests'[i].controller = guests[i].controller
        /\ guests'[i].overlay = guests[i].overlay
        /\ guests'[i].identities = IF guests[i].identities = run[r].from
                                   THEN run[r].port ELSE guests[i].identities
    BY <1>2, <2>1 DEF Guests
  <2>3. /\ run'[r].at = "urls" /\ run'[r].port = run[r].port /\ run'[r].from = run[r].from
        /\ run'[r].token = run[r].token /\ run'[r].booted = run[r].booted
    BY <2>1, <1>6 DEF Phases
  <2>4. /\ guests[i].controller = run[r].port /\ guests[i].overlay = run[r].port
        /\ Strayed(i) \/ guests[i].identities \in {run[r].from, run[r].port}
        /\ OpOf(r) \notin Upgrades => guests[i].secret = run[r].token
    BY <1>4, <2>1 DEF Reached, Step
  <2>5. StrayIdentities(i) \in scars' \/ guests'[i].identities = run[r].port
    BY <2>1, <2>2, <2>4 DEF Strayed
  <2> QED BY <2>2, <2>3, <2>4, <2>5, <1>2, <1>3, <1>4
      DEF Achieved, Settled, Strayed, StrayIdentities
<1>14. CASE SetURLs(r)
  <2>1. /\ Step(r, "urls") /\ Goto(r, AfterPointing(r)) /\ UNCHANGED scars
        /\ guests' = [guests EXCEPT ![i] = [guests[i] EXCEPT
                        !.urls = run[r].port,
                        !.gateway = IF guests[i].urls # run[r].port THEN guests[i].secret
                                    ELSE guests[i].gateway]]
    BY <1>1, <1>2, <1>14 DEF SetURLs, InGuest
  <2>2. /\ guests'[i].secret = guests[i].secret /\ guests'[i].controller = guests[i].controller
        /\ guests'[i].overlay = guests[i].overlay /\ guests'[i].urls = run[r].port
        /\ guests'[i].identities = guests[i].identities
    BY <1>2, <2>1 DEF Guests
  <2>3. CASE OpOf(r) \in Upgrades
    <3>1. AfterPointing(r) = "wait" BY <2>3 DEF AfterPointing, Upgrades
    <3> QED BY <3>1, <2>1, <1>7 DEF Phases, Reached
  <2>4. CASE OpOf(r) \notin Upgrades
    <3>1. AfterPointing(r) = "profile" BY <2>4 DEF AfterPointing, Upgrades
    <3>2. /\ run'[r].at = "profile" /\ run'[r].port = run[r].port /\ run'[r].from = run[r].from
          /\ run'[r].token = run[r].token /\ run'[r].booted = run[r].booted
      BY <2>1, <3>1, <1>6 DEF Phases
    <3>3. /\ guests[i].controller = run[r].port /\ guests[i].overlay = run[r].port
          /\ Strayed(i) \/ guests[i].identities = run[r].port
          /\ guests[i].secret = run[r].token
      BY <1>4, <2>1, <2>4 DEF Reached, Step
    <3> QED BY <2>1, <2>2, <3>2, <3>3, <1>2, <1>3, <1>4
        DEF Achieved, Settled, Strayed, StrayIdentities
  <2> QED BY <2>3, <2>4
<1>15. CASE WriteProfile(r)
  <2>1. /\ Step(r, "profile") /\ Goto(r, "store") /\ UNCHANGED <<guests, scars>>
        /\ host' = [host EXCEPT ![i].ca = vms[i].ca, ![i].profile = run[r].port]
    BY <1>1, <1>15 DEF WriteProfile
  <2>2. host'[i].ca = vms[i].ca /\ host'[i].profile = run[r].port
    BY <2>1 DEF VMTypes, Hosts
  <2>3. /\ run'[r].at = "store" /\ run'[r].port = run[r].port /\ run'[r].from = run[r].from
        /\ run'[r].token = run[r].token /\ run'[r].booted = run[r].booted
    BY <2>1, <1>6 DEF Phases
  <2>4. /\ guests[i].controller = run[r].port /\ guests[i].overlay = run[r].port
        /\ Strayed(i) \/ guests[i].identities = run[r].port
        /\ guests[i].urls = run[r].port
        /\ OpOf(r) \notin Upgrades => guests[i].secret = run[r].token
    BY <1>4, <2>1 DEF Reached, Step
  <2> QED BY <2>1, <2>2, <2>3, <2>4, <1>2, <1>3, <1>4
      DEF Achieved, Settled, Strayed, StrayIdentities
<1>16. CASE ClearInterrupted(r) \/ HelmBegins(r)
  <2>1. \E phase \in Phases \ Reached : Goto(r, phase)
    BY <1>16 DEF ClearInterrupted, HelmBegins, InGuest, Phases, Reached
  <2> QED BY <2>1, <1>7
<1>17. CASE HelmEnds(r)
  <2>1. Step(r, "helming") /\ Goto(r, "point") BY <1>17 DEF HelmEnds, InGuest
  <2>2. OpOf(r) \in Upgrades BY <2>1 DEF OnItsWay, Step
  <2>3. run'[r].at = "point" /\ run'[r].port = run[r].port /\ run'[r].booted = run[r].booted
    BY <2>1, <1>6 DEF Phases
  <2> QED BY <2>2, <2>3, <1>2, <1>3, <1>4 DEF Achieved
<1> QED BY <1>3, <1>8, <1>9, <1>10, <1>11, <1>12, <1>13, <1>14, <1>15, <1>16, <1>17
    DEF GuestStep, Replace

LEMMA AchievedKept ==
  ASSUME VMInv, NEW r \in Runs, ActStep(r), Acts(r)
  PROVE  AllAchieved'
<1> SUFFICES ASSUME NEW s \in Runs, Alone(s)' PROVE Achieved(s)'
  BY DEF AllAchieved
<1>1. VMTypes /\ Apart /\ AllAchieved /\ OnTheirWay /\ AllFollow BY DEF VMInv
<1>2. CASE s # r BY <1>1, <1>2, OthersAchieve
<1>3. CASE s = r
  <2>1. run'[r] # Idle BY <1>3 DEF Alone, Active
  <2>2. Active(r) /\ run'[r].cmd = run[r].cmd /\ run'[r].beside = run[r].beside
    BY <2>1 DEF Acts, Moves
  <2>3. Alone(r) BY <1>3, <2>2 DEF Alone, VMOf
  <2>4. Achieved(r) /\ OnItsWay(r) BY <1>1, <2>2, <2>3 DEF AllAchieved, OnTheirWay
  <2>5. IdentitiesFollow(VMOf(r)) BY <1>1, <2>2, ActiveIsTyped DEF AllFollow, Follows
  <2>6. CASE GuestStep(r) \/ CheckSettled(r) \/ WriteProfile(r)
    BY <1>1, <1>3, <2>1, <2>3, <2>4, <2>5, <2>6, ScriptsAchieve
  <2>7. CASE (QuietStep(r) \/ ImageStep(r) \/ MachineStep(r)) /\ ~CheckSettled(r) /\ ~WriteProfile(r)
    BY <1>1, <1>3, <2>1, <2>4, <2>7, MachinesAchieve
  <2>8. CASE EndStep(r)
    <3>1. Finish(r) BY <2>8 DEF EndStep, ScriptFails, Cut
    <3> QED BY <3>1, <1>1, <2>1, <2>2, Ending
  <2> QED BY <2>6, <2>7, <2>8 DEF ActStep
<1> QED BY <1>2, <1>3

-----------------------------------------------------------------------------
\* The invariant.
LEMMA VMInvInit ==
  VMInit => VMInv
<1> SUFFICES ASSUME VMInit PROVE VMInv
  OBVIOUS
<1>1. run = [r \in Runs |-> Idle] /\ todo \in Scripts /\ begun = 0 /\ scars = {} /\ cuts = 0
  BY DEF VMInit
<1>2. \A r \in Runs : ~Active(r) BY <1>1 DEF Active
<1>3. /\ NoHost \in Hosts /\ NoImage \in Images /\ Absent \in VMRecords /\ Fresh \in Guests
      /\ 1 \in AnyPort
  BY LocalVMAssumption DEF NoHost, NoImage, Absent, Fresh, Hosts, Images, VMRecords, Guests, Disks,
     AnyPort, NoToken, Baked, ImagePort
<1>4. /\ host \in [Instances -> Hosts] /\ image \in Images /\ vms \in [Instances -> VMRecords]
      /\ guests \in [Instances -> Guests] /\ image.disk # "part" /\ image.by = 0
      /\ \A i \in Instances : guests[i].gateway = guests[i].secret
                              /\ guests[i].identities = guests[i].controller
  <2>1. Fresh.gateway = Fresh.secret /\ Fresh.identities = Fresh.controller /\ NoImage.disk = "none"
        /\ NoImage.by = 0
    BY DEF Fresh, NoImage
  <2>2. CASE /\ host = [i \in Instances |-> NoHost] /\ image = NoImage
             /\ vms = [i \in Instances |-> Absent] /\ guests = [i \in Instances |-> Fresh]
    BY <1>3, <2>1, <2>2
  <2>3. ASSUME NEW token \in {Earlier, Foreign},
          host = [i \in Instances |-> IF i = Main
                    THEN [port |-> 1, profile |-> 1, token |-> token, ca |-> Earlier] ELSE NoHost],
          image = [NoImage EXCEPT !.disk = "full"],
          vms = [i \in Instances |-> IF i = Main
                   THEN [status |-> "running", port |-> 1, serves |-> 1, disk |-> "full", ca |-> Earlier]
                   ELSE Absent],
          guests = [i \in Instances |->
                      IF i = Main THEN [Fresh EXCEPT !.secret = Earlier, !.gateway = Earlier] ELSE Fresh]
        PROVE  /\ host \in [Instances -> Hosts] /\ image \in Images /\ vms \in [Instances -> VMRecords]
               /\ guests \in [Instances -> Guests] /\ image.disk # "part" /\ image.by = 0
               /\ \A i \in Instances : guests[i].gateway = guests[i].secret
                                       /\ guests[i].identities = guests[i].controller
    <3>1. token \in Nat /\ Earlier \in Nat BY DEF Earlier, Foreign
    <3>2. [port |-> 1, profile |-> 1, token |-> token, ca |-> Earlier] \in Hosts
      BY <1>3, <3>1 DEF Hosts
    <3>3. host \in [Instances -> Hosts] BY <2>3, <3>2, <1>3
    <3>4. image \in Images /\ image.disk = "full" /\ image.by = 0
      BY <2>3, <1>3, <2>1 DEF Images, Disks
    <3>5. [status |-> "running", port |-> 1, serves |-> 1, disk |-> "full", ca |-> Earlier] \in VMRecords
      BY <1>3, <3>1 DEF VMRecords, Disks
    <3>6. vms \in [Instances -> VMRecords] BY <2>3, <3>5, <1>3
    <3> DEFINE served == [Fresh EXCEPT !.secret = Earlier, !.gateway = Earlier]
    <3>7. served \in Guests /\ served.gateway = served.secret /\ served.identities = served.controller
      BY <1>3, <2>1, <3>1 DEF Guests
    <3>8. guests = [i \in Instances |-> IF i = Main THEN served ELSE Fresh] BY <2>3
    <3> HIDE DEF served
    <3> QED BY <3>3, <3>4, <3>6, <3>7, <3>8, <1>3, <2>1
  <2> QED BY <2>2, <2>3 DEF VMInit
<1>5. VMTypes
  <2>1. todo \in [Runs -> Seq(LocalCommands)] BY <1>1, LocalVMAssumption
  <2>2. run \in [Runs -> {Idle} \union RunRecords] BY <1>1
  <2> QED BY <1>1, <1>4, <2>1, <2>2 DEF VMTypes
<1>6. Apart BY <1>1, <1>2, <1>4 DEF Apart, Earlier
<1>7. OnTheirWay /\ PicksAreFree BY <1>2 DEF OnTheirWay, PicksAreFree
<1>8. DiskExplained BY <1>4 DEF DiskExplained
<1>9. AllFollow BY <1>4 DEF AllFollow, Follows, GatewayFollows, IdentitiesFollow
<1>10. AllAchieved BY <1>2 DEF AllAchieved, Alone
<1> QED BY <1>5, <1>6, <1>7, <1>8, <1>9, <1>10 DEF VMInv

LEMMA VMInvStep ==
  VMInv /\ [VMNext]_localVars => VMInv'
<1> SUFFICES ASSUME VMInv, [VMNext]_localVars PROVE VMInv'
  OBVIOUS
<1>1. VMTypes /\ Apart /\ OnTheirWay /\ PicksAreFree /\ DiskExplained /\ AllFollow /\ AllAchieved
  BY DEF VMInv
<1>2. ASSUME NEW r \in Runs, ActStep(r)
      PROVE  VMInv'
  <2>1. VMTypes' /\ Acts(r) BY <1>1, <1>2, ActStepActs
  <2>2. Apart' BY <1>1, <2>1, ApartKept
  <2>3. OnTheirWay' BY <1>1, <1>2, WaysKept
  <2>4. PicksAreFree' BY <1>1, <2>1, PicksKept
  <2>5. DiskExplained' BY <1>1, <1>2, <2>1, DiskKept
  <2>6. AllFollow' BY <1>1, <1>2, <2>1, FollowKept
  <2>7. AllAchieved' BY <1>2, <2>1, AchievedKept
  <2> QED BY <2>1, <2>2, <2>3, <2>4, <2>5, <2>6, <2>7 DEF VMInv
<1>3. ASSUME NEW r \in Runs, Begin(r)
      PROVE  VMInv'
  <2>1. VMTypes' /\ Begins(r) BY <1>1, <1>3, BeginBegins
  <2>2. Apart' BY <1>1, <2>1, BeginnersApart
  <2>3. OnTheirWay' BY <1>1, <2>1, WaysBegin
  <2>4. PicksAreFree' BY <1>1, <2>1, PicksBegin
  <2>5. DiskExplained' BY <1>1, <2>1, DiskBegins
  <2>6. AllFollow' BY <1>1, <2>1, FollowBegin
  <2>7. AllAchieved' BY <1>1, <2>1, AchievedBegins
  <2> QED BY <2>1, <2>2, <2>3, <2>4, <2>5, <2>6, <2>7 DEF VMInv
<1>4. CASE UNCHANGED localVars
  <2>1. UNCHANGED <<host, image, vms, guests, run, todo, begun, scars, cuts>> BY <1>4 DEF localVars
  <2>2. VMTypes' BY <1>1, <2>1 DEF VMTypes
  <2>3. Apart' BY <1>1, <2>1 DEF Apart, Active
  <2>4. OnTheirWay' BY <1>1, <2>1 DEF OnTheirWay, OnItsWay, Active, OpOf
  <2>5. PicksAreFree' BY <1>1, <2>1 DEF PicksAreFree, PickIsFree, Active, VMOf
  <2>6. DiskExplained' BY <1>1, <2>1 DEF DiskExplained, Active, Step
  <2>7. AllFollow'
    BY <1>1, <2>1 DEF AllFollow, Follows, GatewayFollows, IdentitiesFollow, Active, Step, VMOf
  <2>8. AllAchieved'
    BY <1>1, <2>1 DEF AllAchieved, Achieved, Alone, Active, VMOf, OpOf, Settled, Strayed
  <2> QED BY <2>2, <2>3, <2>4, <2>5, <2>6, <2>7, <2>8 DEF VMInv
<1> QED BY <1>2, <1>3, <1>4, NextCases DEF ActStep

\* Whatever is cut short or interleaved, the invariant holds.
THEOREM VMsStayKnown == VMSpec => []VMInv
BY VMInvInit, VMInvStep, PTL DEF VMSpec

-----------------------------------------------------------------------------
\* What the runs check.

\* A step that another terminal takes does not move this one.
LEMMA OnlyItself ==
  ASSUME VMInv, NEW r \in Runs, NEW s \in Runs \ {r}, ActStep(s) \/ Begin(s), Active(r)
  PROVE  run'[r].at = run[r].at /\ run'[r] # Idle
<1>1. VMTypes /\ OnTheirWay BY DEF VMInv
<1>2. CASE ActStep(s)
  <2>1. run'[r] = run[r] BY <1>1, <1>2, ActStepActs DEF Acts, Moves
  <2> QED BY <2>1 DEF Active
<1>3. CASE Begin(s)
  <2>1. run'[r] = [run[r] EXCEPT !.beside = run'[r].beside]
    BY <1>1, <1>3, BeginBegins DEF Begins
  <2>2. run[r] \in RunRecords /\ run[r].at \in Phases BY <1>1, ActiveIsTyped
  <2>3. run'[r].at = run[r].at BY <2>1, <2>2 DEF RunRecords
  <2> QED BY <2>2, <2>3, IdleIsNoRecord
<1> QED BY <1>2, <1>3

\* VMs are made from disks decompressed to their end, those apart that another
\* command is decompressing, or was when it was killed (DecompressImage, HaveImage).
THEOREM DisksAreComplete == VMSpec => BootsCompleteDisks
<1>1. ASSUME VMInv, VMNext, NEW r \in Runs, Step(r, "create"), run'[r].at = "creating"
      PROVE  \/ image.disk = "full"
             \/ TornDisk \in scars /\ image.by # run[r].serial
             \/ \E s \in Runs \ {r} : Step(s, "unpacking")
  <2>1. VMTypes /\ DiskExplained /\ Active(r) /\ run[r].at = "create"
    BY <1>1 DEF VMInv, Step
  <2>2. PICK s \in Runs : ActStep(s) \/ Begin(s) BY <1>1, NextCases DEF ActStep
  <2>3. s = r BY <1>1, <2>1, <2>2, OnlyItself
  <2>4. ~Begin(r) BY <2>1 DEF Begin
  <2>5. ~Finish(r) BY <1>1, <2>1, Ending, IdleIsNoRecord
  <2>6. Create(r)
    <3>1. MachineStep(r) \/ EndStep(r)
      BY <2>1, <2>2, <2>3, <2>4
      DEF ActStep, QuietStep, Look, CheckPort, HaveImage, WaitForReady, BootstrapToken, CheckSettled,
          HelmRefuses, ImageStep, Fetch, Copied, Rename, Unpack, Unpacked, UnpackFails, GuestStep,
          SetSecret, RestartGateway, MoveController, MoveOverlay, RewriteIdentities, SetURLs,
          ClearInterrupted, HelmBegins, HelmEnds, Replace, InGuest, Step
    <3>2. ~EndStep(r) BY <2>5 DEF EndStep, ScriptFails, Cut
    <3> QED BY <2>1, <3>1, <3>2
        DEF MachineStep, Save, FirstBoot, FirstBootFails, EnsureCA, Halt, Boot, WriteProfile,
            StoreToken, DeleteVM, Sweep, Forget, Step
  <2>7. image.disk # "none" BY <2>5, <2>6 DEF Create
  <2>8. image.disk \in {"part", "full"} BY <2>1, <2>7 DEF VMTypes, Images, Disks
  <2>9. CASE image.disk = "part"
    <3>1. CASE TornDisk \in scars /\ \A q \in Runs : Active(q) => run[q].serial # image.by
      BY <2>1, <3>1
    <3>2. CASE \E q \in Runs : Step(q, "unpacking") /\ run[q].serial = image.by
      BY <2>1, <3>2 DEF Step
    <3> QED BY <2>1, <2>9, <3>1, <3>2 DEF DiskExplained
  <2> QED BY <2>8, <2>9
<1>2. VMInv /\ [VMNext]_localVars =>
        [\A r \in Runs :
           Step(r, "create") /\ run'[r].at = "creating" =>
             \/ image.disk = "full"
             \/ TornDisk \in scars /\ image.by # run[r].serial
             \/ \E s \in Runs \ {r} : Step(s, "unpacking")]_localVars
  BY <1>1
<1> QED BY <1>2, VMsStayKnown, PTL DEF VMSpec, BootsCompleteDisks

\* A port found for a VM is no other VM's when it is saved, unless their commands
\* ran side by side (nextFreePort, SaveInstance).
THEOREM PortsFoundAreFree == VMSpec => PickedPortsApart
<1>1. VMInv /\ [VMNext]_localVars =>
        [\A r \in Runs :
           Step(r, "save") /\ run[r].picked =>
             \A j \in Instances \ {VMOf(r)} :
               host[j].port = run[r].port => j \in run[r].beside]_localVars
  BY DEF VMInv, PicksAreFree, PickIsFree, Step
<1> QED BY <1>1, VMsStayKnown, PTL DEF VMSpec, PickedPortsApart

\* A start, a restart or a credentials nobody interfered with leaves its VM usable
\* by every other command, whatever was cut short before it.
THEOREM EndsUsable == VMSpec => StartLeavesUsable
<1> DEFINE Usable(r) ==
      LET i == VMOf(r)
          g == guests[i]
          p == run[r].port
      IN /\ host'[i].profile = p /\ host'[i].token = g.secret /\ host'[i].ca = vms[i].ca
         /\ g.urls = p /\ Settled(g, p)
         /\ run[r].booted => vms[i].port = p
         /\ StaleGateway(i) \notin scars => g.gateway = g.secret
         /\ StrayIdentities(i) \notin scars => g.identities = p
<1>1. ASSUME VMInv, VMNext, NEW r \in Runs, Step(r, "store"), run'[r] = Idle, cuts' = cuts,
             VMOf(r) \notin run[r].beside
      PROVE  Usable(r)
  <2>1. /\ VMTypes /\ Apart /\ AllFollow /\ AllAchieved /\ OnTheirWay
        /\ Active(r) /\ run[r].at = "store" /\ cuts \in Nat
    BY <1>1 DEF VMInv, VMTypes, Step
  <2>2. PICK s \in Runs : ActStep(s) \/ Begin(s) BY <1>1, NextCases DEF ActStep
  <2>3. s = r BY <1>1, <2>1, <2>2, OnlyItself
  <2>4. StoreToken(r)
    <3>1. ~Begin(r) BY <2>1 DEF Begin
    <3>2. MachineStep(r) \/ EndStep(r)
      BY <2>1, <2>2, <2>3, <3>1
      DEF ActStep, QuietStep, Look, CheckPort, HaveImage, WaitForReady, BootstrapToken, CheckSettled,
          HelmRefuses, ImageStep, Fetch, Copied, Rename, Unpack, Unpacked, UnpackFails, GuestStep,
          SetSecret, RestartGateway, MoveController, MoveOverlay, RewriteIdentities, SetURLs,
          ClearInterrupted, HelmBegins, HelmEnds, Replace, InGuest, Step
    <3>3. cuts' # cuts + 1 BY <1>1, <2>1
    <3>4. ~EndStep(r) BY <2>1, <3>3 DEF EndStep, ScriptFails, Cut
    <3> QED BY <2>1, <3>2, <3>4
        DEF MachineStep, Save, Create, FirstBoot, FirstBootFails, EnsureCA, Halt, Boot, WriteProfile,
            DeleteVM, Sweep, Forget, Step
  <2>5. PICK i \in Instances : i = VMOf(r) BY <2>1, ActiveIsTyped
  <2>6. Alone(r) /\ Achieved(r) BY <1>1, <2>1 DEF Alone, AllAchieved
  <2>7. OpOf(r) \notin Upgrades BY <2>1 DEF OnTheirWay, OnItsWay
  <2>8. /\ run[r].booted => vms[i].port = run[r].port
        /\ guests[i].secret = run[r].token /\ Settled(guests[i], run[r].port)
        /\ StrayIdentities(i) \in scars \/ guests[i].identities = run[r].port
        /\ guests[i].urls = run[r].port
        /\ host[i].profile = run[r].port /\ host[i].ca = vms[i].ca
    BY <2>1, <2>5, <2>6, <2>7 DEF Achieved, Strayed
  <2>9. StaleGateway(i) \in scars \/ guests[i].gateway = guests[i].secret
    <3>1. \A q \in Runs : ~(Step(q, "rollout") /\ VMOf(q) = i)
      BY <2>1, <2>5, <2>6, NobodyElse DEF Step
    <3> QED BY <2>1, <3>1 DEF AllFollow, Follows, GatewayFollows
  <2>10. /\ host'[i].token = run[r].token /\ host'[i].profile = host[i].profile
         /\ host'[i].ca = host[i].ca
    BY <2>1, <2>4, <2>5 DEF StoreToken, VMTypes, Hosts
  <2> QED BY <2>5, <2>8, <2>9, <2>10
<1>2. VMInv /\ [VMNext]_localVars =>
        [\A r \in Runs :
           /\ Step(r, "store") /\ run'[r] = Idle /\ cuts' = cuts
           /\ VMOf(r) \notin run[r].beside
           => Usable(r)]_localVars
  BY <1>1
<1> QED BY <1>2, VMsStayKnown, PTL DEF VMSpec, StartLeavesUsable
=============================================================================
