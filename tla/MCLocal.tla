------------------------------- MODULE MCLocal -------------------------------
\* The two specifications of this machine's side of agyn local, checked in one
\* run: a behaviour is one of LocalFiles or one of LocalVM.
EXTENDS LocalFiles, LocalVM

CONSTANTS p1, p2, p3, work, local, agyn, dev, th1, th2, r1, r2

MCProcs == {p1, p2, p3}
MCProfiles == {work, local}
MCVMs == {agyn, dev}
MCRefs == {th1, th2}
MCPrograms ==
  {c \in [MCProcs -> Ops] :
     /\ c[p1].name \in {work, dev, th1} \/ c[p1] = [op |-> "vm", name |-> agyn]
     /\ c[p3] = [op |-> "select", name |-> local]}
MCMachines ==
  {NoConfig, [NoConfig EXCEPT !.current = work, !.profiles[work] = Old, !.flat = Old]}

MCRuns == {r1, r2}
C(op, vm, port) == [op |-> op, vm |-> vm, port |-> port]
MCFirst ==
  {<<C("start", agyn, 2), C(op, agyn, 0)>> :
      op \in {"start", "restart", "credentials", "upgrade", "resume"}}
  \union {<<C("start", agyn, 0), C("start", agyn, 0)>>,
          <<C("delete", agyn, 0), C("start", agyn, 0)>>,
          <<C("purge", agyn, 0), C("start", agyn, 0)>>,
          <<C("setport", agyn, 2), C("upgrade", agyn, 0), C("resume", agyn, 0)>>,
          <<C("setport", agyn, 2), C("restart", agyn, 0), C("reset", agyn, 0), C("start", agyn, 0)>>,
          <<C("download", agyn, 0), C("start", dev, 0)>>,
          <<C("start", dev, 0), C("start", agyn, 2)>>}
MCSecond ==
  {<<>>} \union
  {<<C(op, agyn, 0)>> : op \in {"start", "stop", "delete", "upgrade"}} \union
  {<<C("start", dev, 0)>>, <<C("purge", dev, 0)>>}
MCScripts == {[r \in MCRuns |-> IF r = r1 THEN a ELSE b] : a \in MCFirst, b \in MCSecond}

FilesAtRest ==
  /\ command = [p \in Procs |-> [op |-> "select", name |-> local]]
  /\ text = [config |-> NoConfig, credentials |-> NoTokens, refs |-> [n \in Refs |-> None],
             kube |-> NoConfig.vms]
  /\ state = [f \in Files |-> "whole"]
  /\ pc = [p \in Procs |-> "done"]
  /\ job = [p \in Procs |-> 1]
  /\ loaded = [p \in Procs |-> NoConfig]
  /\ raw = [p \in Procs |-> NoConfig]
  /\ kills = 0
VMsAtRest ==
  /\ host = [i \in Instances |-> NoHost]
  /\ image = NoImage
  /\ vms = [i \in Instances |-> Absent]
  /\ guests = [i \in Instances |-> Fresh]
  /\ run = [r \in Runs |-> Idle]
  /\ todo = [r \in Runs |-> <<>>]
  /\ begun = 0 /\ scars = {} /\ cuts = 0

LocalInit == (FilesInit /\ VMsAtRest) \/ (VMInit /\ FilesAtRest)
LocalNext ==
  \/ FilesNext /\ UNCHANGED localVars
  \/ VMNext /\ UNCHANGED filesVars
LocalSpec == LocalInit /\ [][LocalNext]_<<filesVars, localVars>>
=============================================================================
