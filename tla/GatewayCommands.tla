--------------------------- MODULE GatewayCommands ---------------------------
(***************************************************************************)
(* What each command sends to the Gateway, in the order it sends it.  A    *)
(* command is a sequence of steps; module Gateway gives the steps their    *)
(* meaning.  A lookup leaves an identifier at the next place of a list,    *)
(* and a later step names the place it works under (0: the platform).      *)
(* Arguments are numbered as the command takes them.                       *)
(***************************************************************************)
EXTENDS Naturals

LOCAL Step(do, kind, under, how, arg) ==
  [do |-> do, kind |-> kind, under |-> under, how |-> how, arg |-> arg]

Org == Step("org", "org", 0, "chosen", 0)        \* the organization it acts in
Scope == Step("scope", "org", 0, "chosen", 0)    \* that organization, or none: a filter
Given(arg) == Step("given", "any", 0, "id", arg) \* an identifier, taken as it is
Find(kind, under, how, arg) == Step("find", kind, under, how, arg)
Check == Step("check", "none", 0, "local", 0)    \* of arguments; nothing is sent
Get(kind) == Step("read", kind, 0, "get", 0)
Own(kind) == Step("read", kind, 0, "own", 0)     \* the caller's, by its token
List(kind, under) == Step("read", kind, under, "page", 0)
Glance(kind, under) == Step("glance", kind, under, "page", 0) \* may fail, is passed over
ListAll(kind, under) == Step("find", kind, under, "all", 0)
Create(kind, under, arg) == Step("create", kind, under, "name", arg)
Link(kind, under, to) == Step("link", kind, under, "place", to)
Put(kind, under, to) == Step("put", kind, under, "place", to)
Update(kind) == Step("update", kind, 0, "flags", 0)
Delete(kind) == Step("delete", kind, 0, "last", 0)
Unlink(kind, under, to) == Step("unlink", kind, under, "place", to)
Drop(kind, under, arg) == Step("drop", kind, under, "name", arg)

-----------------------------------------------------------------------------
\* agyn auth; what set-token stores is in LocalFiles
AuthWhoami == <<Own("user")>>
AuthCreateToken == <<Check, Create("token", 0, 1)>>
AuthListTokens == <<Own("token")>>
AuthRevokeToken == <<Given(1), Delete("token")>>

\* agyn threads: the ref a thread is stored under is in LocalFiles, and sending,
\* reading and waiting in ThreadsWait.  Participants go one by one.
ThreadsCreate == <<Check, Check, Check, Scope, Create("thread", 1, 0)>>
ThreadsAdd ==
  <<Check, Check, Given(1), Check, Given(2), Link("participant", 1, 2),
    Check, Given(3), Link("participant", 1, 3)>>

\* agyn networks
NetworkCreate == <<Org, Create("network", 1, 1)>>
NetworkList == <<Check, Org, List("network", 1)>>
NetworkGet == <<Given(1), Get("network")>>
NetworkUpdate == <<Given(1), Update("network")>>
NetworkDelete == <<Given(1), Delete("network")>>
TunnelCreate == <<Given(1), Create("tunnel", 1, 0)>>
TunnelList == <<Given(1), Check, List("tunnel", 1)>>
TunnelGet == <<Given(1), Get("tunnel")>>
TunnelDelete == <<Given(1), Delete("tunnel")>>
ResourceCreate == <<Check, Given(1), Create("resource", 1, 2)>>
ResourceList == <<Check, Scope, List("resource", 1)>>
ResourceGet == <<Given(1), Get("resource")>>
ResourceUpdate == <<Given(1), Check, Update("resource")>>
ResourceDelete == <<Given(1), Delete("resource")>>
GrantCreate == <<Check, Given(1), Given(2), Link("grant", 1, 2)>>
GrantList == <<Check, Check, List("grant", 0)>>
GrantDelete == <<Given(1), Delete("grant")>>

\* agyn egress-rules
RuleCreate == <<Org, Check, Check, Create("rule", 1, 1)>>
RuleList == <<Check, Org, List("rule", 1)>>
RuleGet == <<Given(1), Get("rule")>>
RuleUpdate == <<Given(1), Step("readrule", "rule", 0, "last", 0), Step("edit", "rule", 0, "flags", 0)>>
RuleDelete == <<Given(1), Delete("rule")>>
RuleAttach == <<Given(1), Given(2), Link("ruleattachment", 1, 2)>>
RuleDetach == <<Given(1), Delete("ruleattachment")>>

\* agyn groups
GroupCreate == <<Org, Create("group", 1, 1)>>
GroupList == <<Check, Org, Check, List("group", 1)>>
GroupGet == <<Given(1), Get("group")>>
GroupUpdate == <<Given(1), Update("group")>>
GroupDelete == <<Given(1), Delete("group")>>
MemberAdd == <<Check, Given(1), Given(2), Link("member", 1, 2)>>
MemberRemove == <<Given(1), Given(2), Unlink("member", 1, 2)>>
MemberList == <<Check, Given(1), List("member", 1)>>
MemberGroups == <<Org, Check, Given(1), List("member", 0)>>

\* agyn environments, and what an environment contains
FindEnvironment == Find("environment", 1, "name", 1)
EnvironmentsList == <<Org, ListAll("environment", 1)>>
EnvironmentsShow ==  \* a refusal to read the contents is reported, not returned
  <<Org, FindEnvironment, Glance("attachment", 0), List("volume", 2), List("mcp", 2),
    List("script", 2), List("var", 2)>>
EnvironmentsCreate == <<Org, Check, Create("environment", 1, 1)>>
EnvironmentsUpdate == <<Org, FindEnvironment, Check, Update("environment")>>
EnvironmentsDelete == <<Org, FindEnvironment, Delete("environment")>>
VolumesList == <<Org, FindEnvironment, List("volume", 2)>>
VolumesAdd == <<Org, FindEnvironment, Create("volume", 2, 2)>>
VolumesRemove == <<Org, FindEnvironment, Find("volume", 2, "content", 2), Delete("volume")>>
McpsList == <<Org, FindEnvironment, List("mcp", 2)>>
McpsAdd == <<Org, FindEnvironment, Check, Create("mcp", 2, 2)>>
McpsRemove == <<Org, FindEnvironment, Find("mcp", 2, "content", 2), Delete("mcp")>>
ScriptsList == <<Org, FindEnvironment, List("script", 2)>>
ScriptsAdd == <<Org, FindEnvironment, Check, Create("script", 2, 0)>>
ScriptsRemove == <<Org, FindEnvironment, Given(2), Delete("script")>>
VarsList == <<Org, FindEnvironment, List("var", 2)>>
VarsSet == <<Org, FindEnvironment, Check, Create("var", 2, 2)>>
VarsUnset == <<Org, FindEnvironment, Find("var", 2, "content", 2), Delete("var")>>
RolesList == <<Org, FindEnvironment, List("role", 2)>>
RolesGrant == <<Org, FindEnvironment, Check, Find("user", 0, "handle", 2), Put("role", 2, 3)>>
RolesRevoke == <<Org, FindEnvironment, Find("user", 0, "handle", 2), Unlink("role", 2, 3)>>
EnvSubscriptionsList == <<Org, FindEnvironment, List("attachment", 0)>>
EnvSubscriptionsAttach ==
  <<Org, FindEnvironment, Find("subscription", 1, "nameOrId", 2), Link("attachment", 3, 2)>>
EnvSubscriptionsDetach ==
  <<Org, FindEnvironment, Find("subscription", 1, "nameOrId", 2),
    Find("attachment", 3, "target", 2), Delete("attachment")>>

\* agyn subscriptions
FindSubscription == Find("subscription", 1, "nameOrId", 1)
SubscriptionsCreate == <<Org, Check, Create("subscription", 1, 1)>>
SubscriptionsList == <<Check, Org, List("subscription", 1)>>
SubscriptionsShow == <<Org, FindSubscription>>
SubscriptionsUpdate == <<Org, FindSubscription, Update("subscription")>>
SubscriptionsDelete == <<Org, FindSubscription, Delete("subscription")>>
SubscriptionsAttach == <<Org, FindSubscription, Check, Given(2), Link("attachment", 2, 3)>>
SubscriptionsDetach ==
  <<Org, FindSubscription, Check, Given(2), Org, Find("attachment", 2, "target", 3),
    Delete("attachment")>>
AttachmentsList == <<Check, Org, List("attachment", 0)>>

\* agyn organizations
OrganizationsList == <<List("org", 0)>>
OrganizationsSelect ==
  <<Check, Step("pick", "org", 0, "prompt", 0), Step("store", "org", 0, "last", 0)>>
OrganizationsUse == <<Find("org", 0, "organization", 1), Step("store", "org", 0, "last", 0)>>

\* agyn sandbox; start goes on in module SandboxShells
FindSandbox == Find("sandbox", 1, "sandbox", 1)
SandboxStart ==
  <<Org, Find("environment", 1, "nameOrSole", 1), Check, Create("sandbox", 1, 2),
    Glance("volume", 2), Glance("environment", 1)>>
SandboxList == <<Org, ListAll("sandbox", 1)>>
SandboxStop ==
  <<Org, FindSandbox, Glance("sandbox", 1), Glance("volume", 0), Update("sandbox")>>
SandboxDelete == <<Org, FindSandbox, Delete("sandbox")>>
SandboxTabs == <<Org, FindSandbox, Get("sandbox")>>

\* agyn agents, apps, expose, files, messages and app-proxy
AgentsList == <<Scope, List("agent", 1)>>
FindAgent == Find("agent", 1, "nickname", 1)
AgentsInstantiate == <<Scope, FindAgent, Check, Create("instance", 2, 0)>>
AppsRegister == <<Create("app", 0, 1)>>
AppsGet == <<Given(1), Get("app")>>
AppsList == <<Check, List("app", 0)>>
AppsDelete == <<Given(1), Delete("app")>>
ExposeAdd == <<Check, Create("exposure", 0, 1)>>
ExposeRemove == <<Check, Drop("exposure", 0, 1)>>
ExposeList == <<List("exposure", 0)>>
FilesUpload == <<Check, Create("file", 0, 1)>>
FilesInfo == <<Check, Given(1), Get("file")>>
FilesUrl == <<Check, Given(1), Check, Get("file")>>
FilesDownload == <<Check, Given(1), Get("file"), Check, Get("file")>>
MessagesSend == <<Given(1), Create("message", 1, 0)>>
MessagesList == <<Check, Given(1), List("message", 1)>>
AppProxy == <<Check, Check, Given(1), Create("call", 1, 0)>>
=============================================================================
