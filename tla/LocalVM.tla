-------------------------------- MODULE LocalVM --------------------------------
(***************************************************************************)
(* agyn local: the commands that download an image, create a Lima VM from  *)
(* it, start, stop, upgrade, reset and delete it, and point the platform   *)
(* inside it and the profile outside it at each other.  A run is one       *)
(* terminal: its commands one after the other, each of which can be cut    *)
(* short between any two steps.  Runs share the files and the VMs, without *)
(* a lock.  Lima and the cluster in the guest are external.                *)
(* A read-modify-write of config.yaml or credentials is one step here;     *)
(* what two of them do to each other is the subject of LocalFiles.         *)
(***************************************************************************)
EXTENDS Naturals, Sequences, FiniteSets, FiniteSetsExt

CONSTANTS
  Runs,      \* the terminals
  Instances, \* names of VMs
  Main,      \* DefaultInstanceName
  MaxPort,   \* host ports 1..MaxPort; 1 is DefaultLocalPort
  Scripts,   \* the commands the runs may give
  MaxCuts    \* bound on commands cut short, failed creations included

Ports == 1..MaxPort
ImagePort == 1   \* the port baked into the image, DefaultLocalPort

\* Tokens: none, the one built into the image, one of another origin stored
\* under the profile, and those minted: earlier, and by the commands of a run.
NoToken == 0
Baked == 1
Foreign == 2
Earlier == 3

\* port is the --port flag of start, 0 without it, or the value of config set
\* port.  resume is upgrade --resume, purge is delete --purge, download is
\* start --download-only.
LocalOps == {"start", "download", "restart", "stop", "delete", "purge", "upgrade",
             "resume", "credentials", "reset", "setport"}
LocalCommands ==
  {c \in [op : LocalOps, vm : Instances, port : 0..MaxPort] :
     /\ c.port # 0 => c.op \in {"start", "download", "setport"}
     /\ c.op = "setport" => c.port # 0}

ASSUME LocalVMAssumption ==
  /\ Main \in Instances
  /\ MaxPort \in Nat /\ MaxPort >= 2
  /\ Scripts \subseteq [Runs -> Seq(LocalCommands)]
  /\ MaxCuts \in Nat

VARIABLES
  host,   \* per VM: configured port, profile's port, stored token, cached CA
  image,  \* the download, the archive, the disk and who unpacks it
  vms,    \* Lima: status, configured forward, port it serves, its disk and its CA
  guests, \* the platform in the VM
  run,    \* the command of a terminal
  todo,   \* what it gives next
  begun,  \* how many commands have begun
  scars,  \* what commands that were cut short have left behind
  cuts

localVars == <<host, image, vms, guests, run, todo, begun, scars, cuts>>

\* What interrupted commands leave behind: a disk that was being written, a
\* Secret patched without a restart of the Gateway, enrolled identities that did
\* not follow the controller.
TornDisk == <<"disk">>
StaleGateway(i) == <<"gateway", i>>
StrayIdentities(i) == <<"identities", i>>

Idle == [at |-> "idle"]
Active(r) == run[r] # Idle
VMOf(r) == run[r].cmd.vm
OpOf(r) == run[r].cmd.op
GuestOf(r) == guests[VMOf(r)]
Running(i) == vms[i].status = "running"

\* A port somebody on this machine listens on.
Listening(p) == \E i \in Instances : vms[i].serves = p

Absent == [status |-> "absent", port |-> 0, serves |-> 0, disk |-> "none", ca |-> 0]

\* What the image boots into: secret and gateway are the bootstrap token in the
\* Secret and the one the Gateway has read; controller, overlay and identities
\* the ports of the OpenZiti controller, of what routes to it, and in enrolled
\* identities; urls those in the deployments, chart those in the release.
Fresh ==
  [secret |-> Baked, gateway |-> Baked, controller |-> ImagePort, overlay |-> ImagePort,
   identities |-> ImagePort, urls |-> ImagePort, chart |-> ImagePort, release |-> "deployed"]

-----------------------------------------------------------------------------
Goto(r, phase) == run' = [run EXCEPT ![r].at = phase]
Finish(r) == run' = [run EXCEPT ![r] = Idle]
Fails(r) == Finish(r) /\ UNCHANGED <<host, image, vms, guests, scars>>

Step(r, phase) == Active(r) /\ run[r].at = phase
Rest == UNCHANGED <<todo, begun, cuts>>

\* Fault: only what listens is taken.
FreePortsListening(i) == {p \in Ports \ {1} : ~Listening(p)}

\* nextFreePort: above the default, neither listened on nor another VM's.
FreePorts(i) ==
  {p \in Ports \ {1} : ~Listening(p) /\ \A j \in Instances \ {i} : host[j].port # p}

\* resolveInstancePorts; the fallback is the first candidate, free or not.
ResolvedPort(i) ==
  IF host[i].port # 0 THEN host[i].port
  ELSE IF i = Main THEN 1
  ELSE IF FreePorts(i) = {} THEN 2 ELSE Min(FreePorts(i))

Touched(c) == IF c.op = "purge" THEN Instances ELSE {c.vm}

\* A command begins: it reads the configuration and resolves the port.
\* beside collects the VMs that other commands acted on in the meantime.
Begin(r) ==
  /\ ~Active(r) /\ todo[r] # <<>>
  /\ LET c == Head(todo[r])
         others == {s \in Runs : Active(s)}
     IN run' = [s \in Runs |->
          IF s = r
          THEN [at |-> IF c.op = "setport" THEN "save" ELSE "look",
                cmd |-> c, serial |-> Earlier + begun + 1,
                port |-> IF c.port # 0 THEN c.port ELSE ResolvedPort(c.vm),
                picked |-> c.port = 0 /\ host[c.vm].port = 0 /\ c.vm # Main /\ FreePorts(c.vm) # {},
                token |-> NoToken, from |-> 0, booted |-> FALSE,
                beside |-> UNION {Touched(run[o].cmd) : o \in others}]
          ELSE IF s \in others THEN [run[s] EXCEPT !.beside = @ \union Touched(c)]
          ELSE run[s]]
  /\ todo' = [todo EXCEPT ![r] = Tail(@)]
  /\ begun' = begun + 1
  /\ UNCHANGED <<host, image, vms, guests, scars, cuts>>

\* GetInstance and what each command makes of the answer.
Look(r) ==
  /\ Step(r, "look")
  /\ LET i == VMOf(r)
         phase ==
           CASE OpOf(r) \in {"start", "download"} ->
                  IF vms[i].status = "absent" THEN "port"
                  ELSE IF Running(i) THEN "wait" ELSE "boot"
             [] OpOf(r) = "restart" ->
                  IF vms[i].status = "absent" THEN "idle"
                  ELSE IF Running(i) THEN "halt" ELSE "boot"
             [] OpOf(r) = "stop" -> IF Running(i) THEN "halt" ELSE "idle"
             [] OpOf(r) = "delete" -> IF vms[i].status = "absent" THEN "idle" ELSE "drop"
             [] OpOf(r) = "purge" -> IF vms[i].status = "absent" THEN "sweep" ELSE "drop"
             [] OpOf(r) = "upgrade" -> IF Running(i) THEN "helm" ELSE "idle"
             [] OpOf(r) = "resume" -> IF Running(i) THEN "clear" ELSE "idle"
             [] OpOf(r) = "credentials" -> IF Running(i) THEN "token" ELSE "idle"
             [] OTHER -> IF Running(i) THEN "replace" ELSE "idle"
     IN IF phase = "idle" THEN Finish(r) ELSE Goto(r, phase)
  /\ UNCHANGED <<host, image, vms, guests, scars>> /\ Rest

-----------------------------------------------------------------------------
\* start: a new VM

\* A port in use is refused, or the user names another one, which is not
\* checked again.
CheckPort(r) ==
  /\ Step(r, "port")
  /\ \/ ~Listening(run[r].port) /\ Goto(r, "have")
     \/ Listening(run[r].port) /\ Finish(r)
     \/ /\ Listening(run[r].port)
        /\ \E p \in Ports : run' = [run EXCEPT ![r].port = p, ![r].at = "have", ![r].picked = FALSE]
  /\ UNCHANGED <<host, image, vms, guests, scars>> /\ Rest

\* HaveImage asks for a file of the disk's name.
HaveImage(r) ==
  /\ Step(r, "have")
  /\ Goto(r, IF image.disk = "none" THEN "fetch" ELSE "save")
  /\ UNCHANGED <<host, image, vms, guests, scars>> /\ Rest

\* FetchImage: an archive that verifies is used, a partial download resumed
\* from its end.  Past its end the server has no range to send.
Fetch(r) ==
  /\ Step(r, "fetch")
  /\ \/ image.archive = "good" /\ Goto(r, "unpack") /\ UNCHANGED image
     \/ /\ image.archive # "good" /\ image.partial \in {"none", "part"}
        /\ Goto(r, "copy") /\ image' = [image EXCEPT !.partial = "part"]
     \/ /\ image.archive # "good" /\ image.partial \in {"whole", "mixed"}
        /\ Finish(r) /\ UNCHANGED image
  /\ UNCHANGED <<host, vms, guests, scars>> /\ Rest

Copying(r) == \E s \in Runs \ {r} : Step(s, "copy")

\* The last byte.  Two downloads append to one file; once the other has renamed
\* it this one has been writing into the archive.
Copied(r) ==
  /\ Step(r, "copy")
  /\ \/ /\ image.partial # "none"
        /\ image' = [image EXCEPT !.partial = IF Copying(r) \/ @ # "part" THEN "mixed" ELSE "whole"]
        /\ Goto(r, "rename")
     \/ /\ image.partial = "none"
        /\ image' = [image EXCEPT !.archive = IF @ = "good" THEN "bad" ELSE @]
        /\ Finish(r)
  /\ UNCHANGED <<host, vms, guests, scars>> /\ Rest

\* The rename, and the checksum of what was renamed.
Rename(r) ==
  /\ Step(r, "rename")
  /\ LET archive == IF image.partial = "whole" THEN "good" ELSE "bad" IN
     IF image.partial = "none" THEN Finish(r) /\ UNCHANGED image
     ELSE /\ image' = [image EXCEPT !.partial = "none", !.archive = archive]
          /\ IF archive = "good" THEN Goto(r, "unpack") ELSE Finish(r)
  /\ UNCHANGED <<host, vms, guests, scars>> /\ Rest

\* What a command leaves behind that ends where r is.
Leaves(r) ==
  CASE Step(r, "unpacking") /\ image.by = run[r].serial -> {TornDisk}
    [] Step(r, "rollout") -> {StaleGateway(VMOf(r))}
    [] Step(r, "overlay") \/ Step(r, "identities") -> {StrayIdentities(VMOf(r))}
    [] OTHER -> {}

\* DecompressImage: xz replaces the disk at its final name and fills it.
Unpack(r) ==
  /\ Step(r, "unpack")
  /\ IF image.archive = "none" THEN Finish(r) /\ UNCHANGED <<image, scars>>
     ELSE /\ Goto(r, "unpacking") /\ scars' = scars \ {TornDisk}
          /\ image' = [image EXCEPT !.disk = "part", !.by = run[r].serial]
  /\ UNCHANGED <<host, vms, guests>> /\ Rest

Unpacked(r) ==
  /\ Step(r, "unpacking")
  /\ image' = [image EXCEPT !.disk = IF image.by = run[r].serial /\ @ = "part" THEN "full" ELSE @,
                            !.archive = "none"]
  /\ Goto(r, "save")
  /\ UNCHANGED <<host, vms, guests, scars>> /\ Rest

\* xz removes what it could not finish, unless it is killed.
Torn(r) ==
  \/ UNCHANGED image /\ scars' = scars \union Leaves(r)
  \/ /\ image.by = run[r].serial
     /\ image' = [image EXCEPT !.disk = "none"] /\ UNCHANGED scars

\* Fault: the exit status of xz is not looked at.
UnpackFailsUnnoticed(r) ==
  /\ Step(r, "unpacking") /\ cuts < MaxCuts
  /\ cuts' = cuts + 1
  /\ Goto(r, "save") /\ Torn(r)
  /\ UNCHANGED <<host, vms, guests, todo, begun>>

UnpackFails(r) ==
  /\ Step(r, "unpacking") /\ cuts < MaxCuts
  /\ cuts' = cuts + 1
  /\ Finish(r) /\ Torn(r)
  /\ UNCHANGED <<host, vms, guests, todo, begun>>

-----------------------------------------------------------------------------
\* SaveInstance: the settings the VM is created with, or config set port.
Save(r) ==
  /\ Step(r, "save")
  /\ host' = [host EXCEPT ![VMOf(r)].port = run[r].port]
  /\ IF OpOf(r) = "start" THEN Goto(r, "create") ELSE Finish(r)
  /\ UNCHANGED <<image, vms, guests, scars>> /\ Rest

\* The VM and what is known of it go, whichever command made it.
Discarded(i) == vms' = [vms EXCEPT ![i] = Absent]

\* CreateAndStart.  Without a template it fails; on an error of Lima it deletes
\* the VM of that name, also one another command has made.
Create(r) ==
  /\ Step(r, "create")
  /\ LET i == VMOf(r) IN
     \/ /\ vms[i].status = "absent" /\ image.disk # "none"
        /\ vms' = [vms EXCEPT ![i] = [status |-> "half", port |-> run[r].port, serves |-> 0,
                                      disk |-> image.disk, ca |-> run[r].serial]]
        /\ guests' = [guests EXCEPT ![i] = Fresh]
        /\ scars' = scars \ {StaleGateway(i), StrayIdentities(i)}
        /\ Goto(r, "creating")
     \/ image.disk = "none" /\ Finish(r) /\ UNCHANGED <<vms, guests, scars>>
     \/ /\ vms[i].status # "absent" \/ image.disk = "none"
        /\ Discarded(i) /\ Finish(r) /\ UNCHANGED <<guests, scars>>
  /\ UNCHANGED <<host, image>> /\ Rest

\* A VM comes up on its port unless somebody listens there.
Up(i, p) == [vms[i] EXCEPT !.status = "running", !.port = p, !.serves = IF Listening(p) THEN 0 ELSE p]

\* The first boot, which only a complete disk survives.
FirstBoot(r) ==
  /\ Step(r, "creating")
  /\ LET i == VMOf(r) IN
     IF vms[i].status = "half" /\ vms[i].disk = "full"
     THEN vms' = [vms EXCEPT ![i] = Up(i, run[r].port)]
          /\ run' = [run EXCEPT ![r].at = "ca", ![r].booted = TRUE]
     ELSE Discarded(i) /\ Finish(r)
  /\ UNCHANGED <<host, image, guests, scars>> /\ Rest

FirstBootFails(r) ==
  /\ Step(r, "creating") /\ cuts < MaxCuts
  /\ Discarded(VMOf(r)) /\ Finish(r) /\ cuts' = cuts + 1
  /\ UNCHANGED <<host, image, guests, scars, todo, begun>>

\* EnsureCA: a cached CA is taken for this VM's.
EnsureCA(r) ==
  /\ Step(r, "ca")
  /\ LET i == VMOf(r) IN
     IF host[i].ca = 0 /\ ~Running(i) THEN Finish(r) /\ UNCHANGED host
     ELSE Goto(r, "wait") /\ host' = [host EXCEPT ![i].ca = IF @ = 0 THEN vms[i].ca ELSE @]
  /\ UNCHANGED <<image, vms, guests, scars>> /\ Rest

-----------------------------------------------------------------------------
\* start and restart of a VM that exists; stop

Halt(r) ==
  /\ Step(r, "halt")
  /\ LET i == VMOf(r) IN
     IF ~Running(i) THEN Finish(r) /\ UNCHANGED vms
     ELSE /\ vms' = [vms EXCEPT ![i].status = "stopped", ![i].serves = 0]
          /\ IF OpOf(r) = "stop" THEN Finish(r) ELSE Goto(r, "boot")
  /\ UNCHANGED <<host, image, guests, scars>> /\ Rest

\* Start: the settings go into the VM's own configuration, which only a boot
\* reads.  A boot starts the Gateway anew.
Boot(r) ==
  /\ Step(r, "boot")
  /\ LET i == VMOf(r)
         creating == \E s \in Runs : Step(s, "creating") /\ VMOf(s) = i
     IN CASE vms[i].status = "absent" -> Fails(r)
          [] Running(i) ->
               /\ vms' = [vms EXCEPT ![i].port = run[r].port]
               /\ Goto(r, "wait") /\ UNCHANGED <<guests, scars>>
          [] vms[i].status = "half" /\ (creating \/ vms[i].disk # "full") ->
               /\ vms' = [vms EXCEPT ![i].port = run[r].port]
               /\ Finish(r) /\ UNCHANGED <<guests, scars>>
          [] OTHER ->
               /\ vms' = [vms EXCEPT ![i] = Up(i, run[r].port)]
               /\ guests' = [guests EXCEPT ![i].gateway = guests[i].secret]
               /\ scars' = scars \ {StaleGateway(i)}
               /\ run' = [run EXCEPT ![r].at = "wait", ![r].booted = TRUE]
  /\ UNCHANGED <<host, image>> /\ Rest

\* WaitForReady asks the port, whoever answers there, then the VM.
WaitForReady(r) ==
  /\ Step(r, "wait")
  /\ IF Listening(run[r].port) /\ Running(VMOf(r)) /\ OpOf(r) \notin {"upgrade", "resume"}
     THEN Goto(r, "token") ELSE Finish(r)
  /\ UNCHANGED <<host, image, vms, guests, scars>> /\ Rest

-----------------------------------------------------------------------------
\* provisionLocalProfile

\* localBootstrapToken: one this program minted is used again.
BootstrapToken(r) ==
  /\ Step(r, "token")
  /\ LET stored == host[VMOf(r)].token IN
     run' = [run EXCEPT ![r].at = "secret", ![r].token = IF stored > Foreign THEN stored ELSE run[r].serial]
  /\ UNCHANGED <<host, image, vms, guests, scars>> /\ Rest

\* A script in a VM that is not running, or no longer.
ScriptFails(r) ==
  /\ Active(r) /\ ~Running(VMOf(r))
  /\ run[r].at \in {"secret", "rollout", "point", "controller", "overlay", "identities", "urls",
                    "profile", "clear", "helm", "helming", "replace"}
  /\ Finish(r)
  /\ scars' = scars \union Leaves(r)
  /\ UNCHANGED <<host, image, vms, guests>> /\ Rest

\* A step of a script on the guest, which goes on to a phase.
InGuest(r, phase, guest, next) ==
  /\ Step(r, phase) /\ Running(VMOf(r))
  /\ guests' = [guests EXCEPT ![VMOf(r)] = guest]
  /\ Goto(r, next)
  /\ UNCHANGED <<host, image, vms>> /\ Rest

\* set-bootstrap-token.sh: the Secret, then the restart that makes it effective.
SetSecret(r) ==
  LET same == GuestOf(r).secret = run[r].token IN
  /\ InGuest(r, "secret", [GuestOf(r) EXCEPT !.secret = run[r].token], IF same THEN "point" ELSE "rollout")
  /\ UNCHANGED scars

RestartGateway(r) ==
  /\ InGuest(r, "rollout", [GuestOf(r) EXCEPT !.gateway = GuestOf(r).secret], "point")
  /\ UNCHANGED scars

Settled(g, p) == g.controller = p /\ g.overlay = p

AfterPointing(r) == IF OpOf(r) \in {"upgrade", "resume"} THEN "wait" ELSE "profile"

\* set-ingress-port.sh
CheckSettled(r) ==
  /\ Step(r, "point") /\ Running(VMOf(r))
  /\ LET g == GuestOf(r)
         p == run[r].port
     IN run' = [run EXCEPT ![r].from = g.controller,
          ![r].at = IF Settled(g, p) THEN IF g.urls = p THEN AfterPointing(r) ELSE "urls"
                    ELSE IF g.controller = p THEN "overlay" ELSE "controller"]
  /\ UNCHANGED <<host, image, vms, guests, scars>> /\ Rest

Moving(r) == Step(r, "controller") \/ Step(r, "overlay") \/ Step(r, "identities")

\* Two scripts that move one overlay lose track of the port it came from.
MoveController(r) ==
  /\ InGuest(r, "controller", [GuestOf(r) EXCEPT !.controller = run[r].port], "overlay")
  /\ scars' = IF \/ GuestOf(r).controller # run[r].from
                 \/ \E s \in Runs \ {r} : Moving(s) /\ VMOf(s) = VMOf(r)
              THEN scars \union {StrayIdentities(VMOf(r))} ELSE scars

MoveOverlay(r) ==
  /\ InGuest(r, "overlay", [GuestOf(r) EXCEPT !.overlay = run[r].port], "identities")
  /\ UNCHANGED scars

\* Identities that name the port the overlay was on.  A script may find a VM that
\* other commands have deleted and made again, whose controller it never moved.
RewriteIdentities(r) ==
  /\ InGuest(r, "identities",
       [GuestOf(r) EXCEPT !.identities = IF @ = run[r].from THEN run[r].port ELSE @], "urls")
  /\ scars' = IF GuestOf(r).controller # run[r].port
              THEN scars \union {StrayIdentities(VMOf(r))} ELSE scars

\* kubectl set env restarts what it changes, the Gateway among it.
SetURLs(r) ==
  LET g == GuestOf(r) IN
  /\ InGuest(r, "urls",
       [g EXCEPT !.urls = run[r].port, !.gateway = IF g.urls # run[r].port THEN g.secret ELSE @],
       AfterPointing(r))
  /\ UNCHANGED scars

\* Fault: the cached CA is used when there is one.
WriteProfileCachedCA(r) ==
  /\ Step(r, "profile") /\ Running(VMOf(r))
  /\ host' = [host EXCEPT ![VMOf(r)].ca = IF @ = 0 THEN vms[VMOf(r)].ca ELSE @,
                          ![VMOf(r)].profile = run[r].port]
  /\ Goto(r, "store")
  /\ UNCHANGED <<image, vms, guests, scars>> /\ Rest

\* ExtractCA, whatever is cached, and the profile.
WriteProfile(r) ==
  /\ Step(r, "profile") /\ Running(VMOf(r))
  /\ host' = [host EXCEPT ![VMOf(r)].ca = vms[VMOf(r)].ca, ![VMOf(r)].profile = run[r].port]
  /\ Goto(r, "store")
  /\ UNCHANGED <<image, vms, guests, scars>> /\ Rest

StoreToken(r) ==
  /\ Step(r, "store")
  /\ host' = [host EXCEPT ![VMOf(r)].token = run[r].token]
  /\ Finish(r)
  /\ UNCHANGED <<image, vms, guests, scars>> /\ Rest

-----------------------------------------------------------------------------
\* upgrade, reset, delete

ClearInterrupted(r) ==
  /\ InGuest(r, "clear", [GuestOf(r) EXCEPT !.release = "deployed"], "helm")
  /\ UNCHANGED scars

\* An interrupted upgrade is refused, and so is one with nothing to change.
HelmRefuses(r) ==
  /\ Step(r, "helm") /\ Running(VMOf(r))
  /\ IF OpOf(r) = "upgrade" /\ GuestOf(r).release = "pending" THEN TRUE
     ELSE GuestOf(r).chart = run[r].port
  /\ Fails(r) /\ Rest

HelmBegins(r) ==
  /\ InGuest(r, "helm", [GuestOf(r) EXCEPT !.release = "pending"], "helming")
  /\ OpOf(r) = "upgrade" => GuestOf(r).release # "pending"
  /\ UNCHANGED scars

\* The charts are rendered with this host's port, and all workloads replaced.
HelmEnds(r) ==
  LET g == GuestOf(r) IN
  /\ InGuest(r, "helming",
       [g EXCEPT !.release = "deployed", !.chart = run[r].port, !.urls = run[r].port,
                 !.gateway = g.secret], "point")
  /\ scars' = scars \ {StaleGateway(VMOf(r))}

\* reset: every workload as the release has it.
Replace(r) ==
  LET g == GuestOf(r) IN
  /\ Step(r, "replace") /\ Running(VMOf(r))
  /\ guests' = [guests EXCEPT ![VMOf(r)] = [g EXCEPT !.urls = g.chart, !.gateway = g.secret]]
  /\ Finish(r)
  /\ UNCHANGED <<host, image, vms, scars>> /\ Rest

DeleteVM(r) ==
  /\ Step(r, "drop")
  /\ Discarded(VMOf(r))
  /\ IF OpOf(r) = "purge" THEN Goto(r, "sweep") ELSE Finish(r)
  /\ UNCHANGED <<host, image, guests, scars>> /\ Rest

NoImage == [partial |-> "none", archive |-> "none", disk |-> "none", by |-> 0]

\* The directory holds the images, the certificates and Lima's home of all VMs;
\* those that run go on running, unknown to Lima.
Sweep(r) ==
  /\ Step(r, "sweep")
  /\ image' = NoImage
  /\ vms' = [i \in Instances |-> [Absent EXCEPT !.serves = vms[i].serves]]
  /\ host' = [i \in Instances |-> [host[i] EXCEPT !.ca = 0]]
  /\ scars' = scars \ {TornDisk}
  /\ Goto(r, "forget")
  /\ UNCHANGED guests /\ Rest

\* forgetLocalProfile
Forget(r) ==
  /\ Step(r, "forget")
  /\ host' = [host EXCEPT ![VMOf(r)].profile = 0, ![VMOf(r)].token = NoToken]
  /\ Finish(r)
  /\ UNCHANGED <<image, vms, guests, scars>> /\ Rest

\* The terminal closes, a tool fails, the machine goes down.
Cut(r) ==
  /\ Active(r) /\ run[r].at # "unpacking" /\ cuts < MaxCuts
  /\ cuts' = cuts + 1
  /\ Finish(r)
  /\ scars' = scars \union Leaves(r)
  /\ UNCHANGED <<host, image, vms, guests, todo, begun>>

-----------------------------------------------------------------------------
NoHost == [port |-> 0, profile |-> 0, token |-> NoToken, ca |-> 0]

\* A new machine, or one whose main VM an earlier start has left running, with
\* that start's token under the profile or one from elsewhere.
VMInit ==
  /\ \/ /\ host = [i \in Instances |-> NoHost]
        /\ image = NoImage
        /\ vms = [i \in Instances |-> Absent]
        /\ guests = [i \in Instances |-> Fresh]
     \/ \E token \in {Earlier, Foreign} :
        /\ host = [i \in Instances |-> IF i = Main
                     THEN [port |-> 1, profile |-> 1, token |-> token, ca |-> Earlier] ELSE NoHost]
        /\ image = [NoImage EXCEPT !.disk = "full"]
        /\ vms = [i \in Instances |-> IF i = Main
                     THEN [status |-> "running", port |-> 1, serves |-> 1, disk |-> "full", ca |-> Earlier]
                     ELSE Absent]
        /\ guests = [i \in Instances |->
                     IF i = Main THEN [Fresh EXCEPT !.secret = Earlier, !.gateway = Earlier] ELSE Fresh]
  /\ run = [r \in Runs |-> Idle]
  /\ todo \in Scripts
  /\ begun = 0 /\ scars = {} /\ cuts = 0

VMNext ==
  \E r \in Runs :
    \/ Begin(r) \/ Look(r) \/ CheckPort(r) \/ HaveImage(r)
    \/ Fetch(r) \/ Copied(r) \/ Rename(r) \/ Unpack(r) \/ Unpacked(r) \/ UnpackFails(r)
    \/ Save(r) \/ Create(r) \/ FirstBoot(r) \/ FirstBootFails(r) \/ EnsureCA(r)
    \/ Halt(r) \/ Boot(r) \/ WaitForReady(r)
    \/ BootstrapToken(r) \/ ScriptFails(r) \/ SetSecret(r) \/ RestartGateway(r)
    \/ CheckSettled(r) \/ MoveController(r) \/ MoveOverlay(r) \/ RewriteIdentities(r) \/ SetURLs(r)
    \/ WriteProfile(r) \/ StoreToken(r)
    \/ ClearInterrupted(r) \/ HelmRefuses(r) \/ HelmBegins(r) \/ HelmEnds(r) \/ Replace(r)
    \/ DeleteVM(r) \/ Sweep(r) \/ Forget(r) \/ Cut(r)

VMSpec == VMInit /\ [][VMNext]_localVars

-----------------------------------------------------------------------------
\* A start, a restart or a credentials that ends well leaves a machine every
\* other command can be run on (local_credentials.go: "leaves the machine able
\* to run every other agyn command against the VM"): the profile, the token and
\* the CA are those of the VM, and everything in the VM that names the port
\* agrees with it, whatever earlier commands were cut short, except for what the
\* scripts are known not to repair and for what another command did to this VM
\* in the meantime.
StartLeavesUsable ==
  [][\A r \in Runs :
       /\ Step(r, "store") /\ run'[r] = Idle /\ cuts' = cuts
       /\ VMOf(r) \notin run[r].beside
       => LET i == VMOf(r)
              g == guests[i]
              p == run[r].port
          IN /\ host'[i].profile = p /\ host'[i].token = g.secret /\ host'[i].ca = vms[i].ca
             /\ g.urls = p /\ Settled(g, p)
             /\ run[r].booted => vms[i].port = p
             /\ StaleGateway(i) \notin scars => g.gateway = g.secret
             /\ StrayIdentities(i) \notin scars => g.identities = p]_localVars

\* A VM is created from a disk that was decompressed to its end, unless another
\* command is decompressing it or one that was killed did (HaveImage asks for
\* the name alone): never from what the command itself failed to decompress.
BootsCompleteDisks ==
  [][\A r \in Runs :
       Step(r, "create") /\ run'[r].at = "creating" =>
         \/ image.disk = "full"
         \/ TornDisk \in scars /\ image.by # run[r].serial
         \/ \E s \in Runs \ {r} : Step(s, "unpacking")]_localVars

\* A port found for a VM is not another VM's when it is saved, unless commands
\* for both ran at once (nextFreePort skips the ports of configured VMs, those
\* that do not listen included).
PickedPortsApart ==
  [][\A r \in Runs :
       Step(r, "save") /\ run[r].picked =>
         \A j \in Instances \ {VMOf(r)} :
           host[j].port = run[r].port => j \in run[r].beside]_localVars
=============================================================================
