------------------------------- MODULE MCRemote -------------------------------
\* What commands do on the platform, checked in one run: a behaviour is one of
\* Gateway, of SandboxShells, of TerminalAttach or of SandboxCopy.
EXTENDS Gateway, SandboxShells, TerminalAttach, SandboxCopy

CONSTANTS alpha, Alpha, beta, a1, a2, b1, c1, c2, notes, data

MCNames == {alpha, Alpha, beta}
MCFolded == (alpha :> alpha) @@ (Alpha :> alpha) @@ (beta :> beta)

\* 1 and 2 are organizations, and the rest is in them.
R(kind, in, name) == Resource(kind, in, name)
World(rest) == [i \in Ids |-> IF i <= Len(rest) THEN rest[i] ELSE Gone]
Rule(headers, domain, private) ==
  World(<<R("org", 0, alpha),
          [R("rule", 1, alpha) EXCEPT !.items["headers"] = headers, !.items["domain"] = domain,
                                      !.items["private"] = private]>>)
BaseWorlds == {
  World(<<R("org", 0, alpha), R("environment", 1, alpha), R("environment", 1, beta),
          R("volume", 2, alpha), R("volume", 2, beta)>>),
  World(<<R("org", 0, alpha), R("org", 0, beta), R("environment", 2, Alpha),
          R("subscription", 1, alpha), R("attachment", 4, 3)>>),
  World(<<R("org", 0, alpha), R("org", 0, Alpha), R("user", 0, alpha),
          R("environment", 1, alpha), R("role", 4, 3)>>),
  Rule("bare", "first", "unset"),
  World(<<R("org", 0, alpha), R("environment", 1, alpha), R("sandbox", 1, alpha),
          [R("sandbox", 1, alpha) EXCEPT !.items["state"] = "terminated"]>>),
  World(<<R("org", 0, alpha), R("agent", 1, alpha), R("group", 1, beta), R("member", 3, 2),
          R("exposure", 0, alpha)>>)}
RuleWorlds == {
  Rule("bare", "first", "unset"), Rule("basic", "untidy", "unset"),
  Rule("bearer", "first", "first"), Rule("lookalike", "unset", "first"),
  Rule("basicsecret", "first", "unset"), Rule("prefixed", "first", "unset")}

Run(steps, refs, org, flags, bound) ==
  [steps |-> steps, refs |-> refs, org |-> org, flags |-> flags, changes |-> bound]
\* The commands that look something up, most with two changes behind their back.
Looks ==
  {Run(EnvironmentsDelete, <<n>>, 0, {}, 2) : n \in {alpha, Alpha}} \union
  {Run(EnvironmentsList, <<>>, 1, {}, 2), Run(VolumesRemove, <<alpha, beta>>, 1, {}, 2),
   Run(EnvSubscriptionsDetach, <<Alpha, alpha>>, 2, {}, 2),
   Run(SubscriptionsDetach, <<4, 3>>, 1, {}, 1), Run(RolesRevoke, <<alpha, alpha>>, 1, {}, 1),
   Run(SandboxStart, <<Nobody, beta>>, 0, {}, 1), Run(OrganizationsUse, <<alpha>>, 0, {}, 2),
   Run(OrganizationsSelect, <<>>, 0, {}, 1), Run(OrganizationsUse, <<2>>, 0, {}, 1),
   Run(RolesRevoke, <<alpha, 3>>, 1, {}, 1), Run(AgentsInstantiate, <<2>>, 0, {}, 1),
   Run(SandboxDelete, <<beta>>, 0, {}, 1)}
\* An update of a rule, with each kind of header, with and without a domain and a
\* private resource, and one or two changes by others.
Edits ==
  {Run(RuleUpdate, <<2>>, 0, x, 1) : x \in {{"about"}, {"domain"}, {"about", "method", "headers"}}}
    \union {Run(RuleUpdate, <<2>>, 0, {"action"}, 2)}
\* Every other command, with one change.
ByName ==
  {EnvironmentsShow, EnvironmentsCreate, EnvironmentsUpdate, VolumesList, VolumesAdd, McpsList,
   McpsAdd, McpsRemove, ScriptsList, ScriptsAdd, VarsList, VarsSet, VarsUnset, RolesList,
   RolesGrant, EnvSubscriptionsList, EnvSubscriptionsAttach, SubscriptionsCreate,
   SubscriptionsList, SubscriptionsShow, SubscriptionsUpdate, SubscriptionsDelete,
   AttachmentsList, OrganizationsList, SandboxList, SandboxStop, SandboxDelete, SandboxTabs,
   AgentsList, AgentsInstantiate, AppsRegister, AppsList, ExposeAdd, ExposeRemove, ExposeList,
   FilesUpload, AuthWhoami, AuthCreateToken, AuthListTokens, ThreadsCreate,
   NetworkCreate, NetworkList, RuleCreate, RuleList, GroupCreate, GroupList,
   ResourceList, GrantList}
\* Those that take an identifier, with the kind of what has the identifier 3.
On(kind, commands) == {<<kind, s>> : s \in commands}
ById ==
  On("network", {NetworkGet, NetworkUpdate, NetworkDelete, TunnelCreate, TunnelList,
                 ResourceCreate})
    \union On("tunnel", {TunnelGet, TunnelDelete})
    \union On("resource", {ResourceGet, ResourceUpdate, ResourceDelete, GrantCreate})
    \union On("grant", {GrantDelete}) \union On("rule", {RuleGet, RuleDelete, RuleAttach})
    \union On("ruleattachment", {RuleDetach})
    \union On("group", {GroupGet, GroupUpdate, GroupDelete, MemberAdd, MemberRemove, MemberList})
    \union On("app", {AppsGet, AppsDelete, AppProxy})
    \union On("file", {FilesInfo, FilesUrl, FilesDownload})
    \union On("thread", {MessagesSend, MessagesList, ThreadsAdd})
    \union On("token", {AuthRevokeToken})
RunOn3(s) == Run(s, <<3, 2, 1>>, 0, {"about"}, 1)
With3(kind) ==
  World(<<R("org", 0, alpha), R("environment", 1, alpha), R(kind, 1, alpha), R("member", 3, 2)>>)
Pairings ==
  {Run(SubscriptionsAttach, <<alpha, 3>>, 1, {}, 1), Run(ScriptsRemove, <<alpha, 5>>, 1, {}, 1),
   Run(MemberGroups, <<2>>, 1, {}, 1)}
MCCommands ==
  Looks \union Edits \union Pairings
    \union {Run(s, <<alpha, alpha>>, 0, {"state"}, 1) : s \in ByName}
    \union {RunOn3(x[2]) : x \in ById}
MCWorlds == BaseWorlds \union RuleWorlds \union {With3(x[1]) : x \in ById}
\* A command that takes an identifier finds what it is for, and so does an update;
\* the profile's organization matters where no flag gives one.
Suits ==
  \/ \E x \in ById : command = RunOn3(x[2]) /\ res = With3(x[1]) /\ chosen = 0
  \/ /\ IF command \in Edits THEN res \in RuleWorlds ELSE res \in BaseWorlds
     /\ \A x \in ById : command # RunOn3(x[2])
     /\ chosen # 0 => command.org = 0

\* The profile selects the first organization, or none.
MCSelections == {0, 1}

MCAttaches == {a1, a2}
MCBrowserTabs == {b1}
A(op, sync, tty, tab) == [op |-> op, sync |-> sync, tty |-> tty, tab |-> tab]
MCPlans ==
  {[p \in MCAttaches |-> IF p = a1 THEN x ELSE A("connect", FALSE, TRUE, "new")] :
     x \in {A("start", TRUE, TRUE, "new"), A("connect", FALSE, TRUE, b1),
            A("connect", FALSE, FALSE, "last")}}

MCCopies == {c1, c2}
MCFiles == {notes, data}
MCContents == {<<1>>, <<1, 2>>}
S(f1, g1, f2, g2, one, two, bound, broken) ==
  [edits |-> bound, cuts |-> broken,
   here |-> (notes :> f1) @@ (data :> g1), there |-> (notes :> f2) @@ (data :> g2),
   job |-> (c1 :> one) @@ (c2 :> two)]
\* A push with a pull of the same file, two pushes of it that are not cut, and
\* copies of two files, of one content and of two.
MCStarts ==
  {S(<<1, 2>>, NoFile, <<1>>, NoFile, "push", "pull", 1, 1),
   S(<<1, 2>>, NoFile, NoFile, NoFile, "push", "push", 1, 0),
   S(<<1>>, <<1>>, NoFile, NoFile, "push", "none", 1, 1),
   S(<<1>>, <<1, 2>>, NoFile, NoFile, "push", "none", 1, 1),
   S(<<1>>, <<1>>, <<1, 2>>, <<1>>, "pull", "none", 1, 1)}

GatewayAtRest ==
  /\ res = [i \in Ids |-> IF i = 1 THEN R("org", 0, alpha) ELSE Gone]
  /\ used = 1 /\ chosen = 0 /\ command = Run(OrganizationsList, <<>>, 0, {}, 0)
  /\ at = 1 /\ found = <<>> /\ cursor = 0 /\ hits = {} /\ copy = Plain
  /\ outcome = "done" /\ others = 0
  /\ facts = {} /\ steady = {} /\ touched = {}
ShellsAtRest ==
  /\ plan = [p \in Attaches |-> A("connect", FALSE, TRUE, "new")]
  /\ sandbox = [status |-> "terminated", workload |-> 0] /\ started = 0
  /\ tabs = <<>> /\ version = MaxVersion
  /\ step = [p \in Attaches |-> "error"]
  /\ known = [p \in Attaches |-> sandbox]
  /\ layout = [p \in Attaches |-> Unread]
  /\ enters = [p \in Attaches |-> NoShell]
  /\ session = [p \in Attaches |-> 0]
TerminalAtRest ==
  /\ window = Default /\ changes = MaxChanges
  /\ signal = FALSE /\ watcher = "off" /\ measured = Empty /\ resize = Empty
  /\ phase = "closed" /\ pump = "off"
  /\ input = [queue |-> 0, end |-> "eof", typed |-> 0]
  /\ wire = <<>> /\ remote = Empty /\ ending = "lost" /\ inbound = <<>> /\ shown = 0
  /\ result = Result("none", TRUE)
CopyAtRest ==
  /\ here = [x \in Files |-> NoFile] /\ there = here /\ job = [p \in Copies |-> "none"]
  /\ stage = NoFiles /\ told = [p \in Copies |-> NoFiles]
  /\ client = [p \in Copies |-> Client("dial")]
  /\ endpoint = [p \in Copies |-> Endpoint("gone")]
  /\ up = [p \in Copies |-> <<>>] /\ down = up
  /\ linked = [p \in Copies |-> FALSE] /\ kept = [p \in Copies |-> NoFile]
  /\ edits = 0 /\ cuts = 0
  /\ moved = linked /\ landed = [p \in Copies |-> {}]

RemoteInit ==
  \/ GatewayInit /\ Suits /\ ShellsAtRest /\ TerminalAtRest /\ CopyAtRest
  \/ ShellsInit /\ GatewayAtRest /\ TerminalAtRest /\ CopyAtRest
  \/ TerminalInit /\ GatewayAtRest /\ ShellsAtRest /\ CopyAtRest
  \/ CopyInit /\ GatewayAtRest /\ ShellsAtRest /\ TerminalAtRest
RemoteNext ==
  \/ GatewayNext /\ UNCHANGED shellsVars /\ UNCHANGED terminalVars /\ UNCHANGED copyVars
  \/ ShellsNext /\ UNCHANGED gatewayVars /\ UNCHANGED terminalVars /\ UNCHANGED copyVars
  \/ TerminalNext /\ UNCHANGED gatewayVars /\ UNCHANGED shellsVars /\ UNCHANGED copyVars
  \/ CopyNext /\ UNCHANGED gatewayVars /\ UNCHANGED shellsVars /\ UNCHANGED terminalVars
RemoteSpec ==
  /\ RemoteInit
  /\ [][RemoteNext]_<<gatewayVars, shellsVars, terminalVars, copyVars>>
  /\ TerminalFairness
=============================================================================
