------------------------------- MODULE Gateway -------------------------------
(***************************************************************************)
(* One command against the Gateway while other clients change what it      *)
(* holds.  A command names things by organization, name or identifier,     *)
(* looks the identifiers up one request (and one page) at a time, and then *)
(* changes what it found; nothing holds the names still meanwhile.  The    *)
(* Gateway is assumed to list what it holds in the order of identifiers,   *)
(* never to reuse one, and to start a page after the last one it returned. *)
(***************************************************************************)
EXTENDS GatewayCommands, Sequences, FiniteSets, FiniteSetsExt

CONSTANTS
  MaxId,      \* identifiers are 1..MaxId
  Names,      \* names of resources
  Nobody,     \* no name
  Folded,     \* a name in lower case: strings.EqualFold
  Commands,   \* what may be run: [steps, refs, org, flags], and the bound
              \* "changes" on what other clients change while it runs
  Worlds,     \* what the Gateway may hold before
  Selections, \* what the profile may select: an organization or 0
  PageSize    \* the size of a page the client asks for

Ids == 1..MaxId
Root == 0
\* "method" stands for ports, methods and path; "private" is the private resource
\* a rule is for, which other clients set and no flag of the command names.
Items == {"about", "domain", "method", "private", "action", "headers", "state"}
\* An authorization header: a value in the clear with a user name ("basic"), with
\* the Bearer scheme, with neither ("bare"), or that begins like an argument of
\* another form ("lookalike"); a secret, one with a user name ("basicsecret"); a
\* value that begins like an argument with a user name and has none ("prefixed").
HeaderMarks == {"basic", "bearer", "bare", "lookalike", "secret", "basicsecret", "prefixed"}
\* Who wrote any other item, or how: with blanks or in lower case ("untidy"), or not.
Marks == {"first", "ours", "theirs", "unset", "untidy", "tidy", "terminated"} \union HeaderMarks
Matcher == {"domain", "method", "private"}
Effect == {"action", "headers"}
Plain == [item \in Items |-> IF item = "private" THEN "unset" ELSE "first"]
Resource(kind, up, name) == [kind |-> kind, up |-> up, name |-> name, items |-> Plain]
Gone == Resource("none", Root, Nobody)
Markings ==
  {f \in [Items -> Marks] : \A item \in Items : f[item] \in HeaderMarks => item = "headers"}
Resources ==
  [kind : STRING, up : Ids \union {Root}, name : Names \union Ids \union {Nobody},
   items : Markings]
StepRecords == [do : STRING, kind : STRING, under : Nat, how : STRING, arg : Nat]

\* The lookups that leave an identifier, how many of them are among the first k
\* steps, and the one that fills a place.
Leaves(s) == s.do \in {"org", "scope", "given", "find", "pick"} /\ s.how # "all"
Lookups(steps, k) == Cardinality({j \in 1..k : Leaves(steps[j])})
LookupAt(steps, place) ==
  steps[CHOOSE j \in DOMAIN steps : Leaves(steps[j]) /\ Lookups(steps, j) = place]

\* The ways to match what a listing returns.
Hows == {"name", "content", "nickname", "nameOrId", "handle", "target", "nameOrSole", "sandbox",
         "organization", "all"}
\* How commands are put together: a step names places that are filled before it; a
\* change of what was found last comes after every lookup; a rule is read right
\* before it is edited; the organization is stored at the end.
WellFormed(steps) ==
  \A k \in DOMAIN steps :
    LET s == steps[k]
        filled == Lookups(steps, k - 1)
    IN /\ s.under <= filled
       /\ s.do \in {"link", "put", "unlink"} \/ s.how = "target" => s.arg <= filled
       /\ s.do \in {"update", "edit", "delete", "store"} =>
            filled > 0 /\ filled = Lookups(steps, Len(steps))
       /\ s.do = "store" => k = Len(steps)
       /\ s.do = "edit" => /\ k - 1 \in DOMAIN steps /\ steps[k - 1].do = "readrule"
                           /\ steps[k - 1].kind = "rule" /\ s.kind = "rule"
       /\ s.do \in {"org", "pick"} \/ s.how = "organization" => s.kind = "org" /\ s.under = 0
       /\ s.do \in {"org", "scope", "pick"} => s.arg = 0 /\ s.how \in {"chosen", "prompt"}
       /\ s.do = "given" => s.how = "id"
       /\ s.do = "find" => s.how \in Hows
       /\ s.how = "sandbox" => s.kind = "sandbox"

ASSUME GatewayAssumption ==
  /\ MaxId \in Nat /\ PageSize \in Nat \ {0}
  /\ Nobody \notin Names \union Ids /\ Folded \in [Names -> Names]
  /\ Selections \subseteq Ids \union {Root}
  /\ Worlds \subseteq [Ids -> Resources]
  /\ \A c \in Commands : /\ c.steps \in Seq(StepRecords) \ {<<>>} /\ WellFormed(c.steps)
                         /\ "private" \notin c.flags

VARIABLES
  res,      \* identifier -> what the Gateway holds under it, or Gone
  used,     \* the largest identifier ever given out
  chosen,   \* the organization the profile selects
  command,
  at,       \* the step it is at
  found,    \* the identifiers it has, by place
  cursor,   \* the identifier its page token stands for
  hits,     \* the matches on the pages so far
  copy,     \* the rule as it was read
  outcome,  \* "none" while it runs
  others,   \* changes by other clients
  facts,    \* ghost: what was true at some moment since the command began
  steady,   \* ghost: identifiers nothing happened to since the lookup began
  touched   \* ghost: items others wrote since the rule was read

gatewayVars ==
  <<res, used, chosen, command, at, found, cursor, hits, copy, outcome, others,
    facts, steady, touched>>

Outcomes == {"none", "done", "cancelled", "absent", "several", "failed"}
Held == {i \in Ids : res[i].kind # "none"}
Fact(r, i) == [id |-> i, kind |-> r[i].kind, up |-> r[i].up, name |-> r[i].name]
FactsOf(r) == {Fact(r, i) : i \in {j \in Ids : r[j].kind # "none"}}

GatewayInit ==
  /\ res \in Worlds
  /\ used = Max({Root} \union {i \in Ids : res[i].kind # "none"})
  /\ chosen \in Selections
  /\ command \in Commands
  /\ at = 1 /\ found = <<>> /\ cursor = 0 /\ hits = {} /\ copy = Plain
  /\ outcome = "none" /\ others = 0
  /\ facts = FactsOf(res) /\ steady = {} /\ touched = {}

-----------------------------------------------------------------------------
Step == command.steps[at]
Runs(do) == outcome = "none" /\ Step.do \in do
Reference == IF Step.arg = 0 THEN Nobody ELSE command.refs[Step.arg]
Place(k) == IF k = 0 THEN Root ELSE found[k]
Here == found[Len(found)]

Advance ==
  /\ at' = at + 1
  /\ outcome' = IF at = Len(command.steps) THEN "done" ELSE "none"
End(how) == outcome' = how /\ UNCHANGED at
Learn(i) == found' = Append(found, i) /\ Advance
LearnOnly(all) ==
  IF Cardinality(all) = 1 THEN Learn(Max(all))
  ELSE End(IF all = {} THEN "absent" ELSE "several") /\ UNCHANGED found
ReadsOnly == UNCHANGED <<res, used, chosen, command, others, facts>>
Looking == <<cursor, hits, steady>>
Editing == <<copy, touched>>

\* RunContext.OrganizationID: the flag, then the environment, then the profile.
Chosen == IF command.org # Root THEN command.org ELSE chosen

\* What a listing of a kind returns: everything, or what is under one place.
Kin(kind, place) ==
  {i \in Held : res[i].kind = kind /\ (place = Root \/ res[i].up = place)}
\* A sandbox that is terminated is no candidate for the only one.
Candidates ==
  {i \in Kin(Step.kind, Place(Step.under)) :
     Step.how = "sandbox" => res[i].items["state"] # "terminated"}

\* The organization to act in; with none chosen, the only accessible one.
ResolveOrganization ==
  /\ Runs({"org", "scope"})
  /\ LET all == Kin("org", Root)
     IN IF Chosen # Root \/ Step.do = "scope" THEN Learn(Chosen) ELSE LearnOnly(all)
  /\ steady' = Held
  /\ ReadsOnly /\ UNCHANGED <<cursor, hits, copy, touched>>

\* An identifier given as an argument is used as it is.
TakeIdentifier ==
  /\ Runs({"given"})
  /\ Learn(Reference)
  /\ ReadsOnly /\ UNCHANGED Looking /\ UNCHANGED Editing

-----------------------------------------------------------------------------
\* Lookups.
Alike(i, ref) == ref \in Names /\ res[i].name \in Names /\ Folded[res[i].name] = Folded[ref]
\* Fault: a name is matched whatever its case.
Loosely(i, ref) == res[i].name = ref \/ Alike(i, ref)
Exactly(i, ref) == res[i].name = ref
ByNameOrId(i, ref) == i = ref \/ res[i].name = ref

Matches(i) ==
  CASE Step.how \in {"name", "content", "nickname"} -> Exactly(i, Reference)
    [] Step.how = "nameOrId" -> ByNameOrId(i, Reference)
    [] Step.how = "handle" -> Alike(i, Reference)
    [] Step.how = "target" -> res[i].name = Place(Step.arg)
    [] Step.how = "nameOrSole" -> Reference = Nobody \/ Exactly(i, Reference)
    [] OTHER -> TRUE

\* Of one page only, of the page a match is on, or of every page.
FirstPage == {"content", "handle", "nickname"}
StopsAtMatch == {"nameOrId", "target"}
Unique == Step.how \in {"nameOrSole", "sandbox"} /\ Reference = Nobody

Conclude(all) ==
  IF Step.how = "all" THEN Advance /\ UNCHANGED found
  ELSE IF all = {} THEN End("absent") /\ UNCHANGED found
  ELSE IF Unique /\ Cardinality(all) > 1 THEN End("several") /\ UNCHANGED found
  ELSE Learn(Min(all))

PageAfter(c) ==
  {i \in Candidates : i > c /\ Cardinality({j \in Candidates : c < j /\ j <= i}) <= PageSize}
Since == IF cursor = 0 THEN Held ELSE steady

\* One request of a listing that goes on while the answer names a next page.
\* The matches are kept until the next lookup.
\* Fault: the token of the next page is ignored.
Matched == (IF cursor = 0 THEN {} ELSE hits) \union {i \in PageAfter(cursor) : Matches(i)}
FirstPageOnly == Conclude(Matched) /\ cursor' = 0 /\ hits' = Matched
ReadPage ==
  LET all == Matched
      more == \E i \in Candidates \ PageAfter(cursor) : i > cursor
  IN IF more /\ Step.how \notin FirstPage /\ ~(Step.how \in StopsAtMatch /\ all # {})
     THEN cursor' = Max(PageAfter(cursor)) /\ hits' = all /\ UNCHANGED <<found, at, outcome>>
     ELSE Conclude(all) /\ cursor' = 0 /\ hits' = all

\* A handle or a nickname without its @ is an identifier already.
Bare == Step.how \in {"handle", "nickname"} /\ Reference \in Ids
ByServer == Step.how = "sandbox" /\ Reference # Nobody

FindPage ==
  /\ Runs({"find"}) /\ ~Bare /\ ~ByServer /\ Step.how # "organization"
  /\ ReadPage
  /\ steady' = Since
  /\ ReadsOnly /\ UNCHANGED Editing

\* matchOrganization: by identifier first, then by a name that is nobody else's.
MatchOrganization ==
  LET all == {i \in Kin("org", Root) : Alike(i, Reference)}
  IN IF Reference \in Kin("org", Root) THEN Learn(Reference) ELSE LearnOnly(all)

LookUp ==
  /\ Runs({"find"})
  /\ \/ Bare /\ Learn(Reference)
     \/ Step.how = "organization" /\ MatchOrganization
     \/ /\ ByServer
        /\ LET all == {i \in Kin("sandbox", Place(Step.under)) : Exactly(i, Reference)}
           IN IF all = {} THEN End("absent") /\ UNCHANGED found ELSE Learn(Min(all))
  /\ steady' = Held
  /\ ReadsOnly /\ UNCHANGED <<cursor, hits, copy, touched>>

\* The prompt, answered with one of those listed or not at all.
PickOrganization ==
  /\ Runs({"pick"})
  /\ \/ \E i \in Kin("org", Root) : Learn(i)
     \/ End("cancelled") /\ UNCHANGED found
     \/ Kin("org", Root) = {} /\ End("absent") /\ UNCHANGED found
  /\ steady' = Held
  /\ ReadsOnly /\ UNCHANGED <<cursor, hits, copy, touched>>

StoreOrganization ==
  /\ Runs({"store"})
  /\ chosen' = Here
  /\ Advance
  /\ UNCHANGED <<res, used, command, found, others, facts>>
  /\ UNCHANGED Looking /\ UNCHANGED Editing

-----------------------------------------------------------------------------
\* What is answered or passed over without a change.
Pass ==
  /\ Runs({"check", "read", "glance"})
  /\ Advance
  /\ ReadsOnly /\ UNCHANGED found /\ UNCHANGED Looking /\ UNCHANGED Editing

\* A refused argument, a failed request, or an answer that cannot be shown.
Fail ==
  /\ outcome = "none" /\ Step.do \notin {"given", "glance", "scope"}
  /\ End("failed")
  /\ ReadsOnly /\ UNCHANGED found /\ UNCHANGED Looking /\ UNCHANGED Editing

\* The rule is read only when a part of it is changed that is sent whole.
Merges == command.flags \intersect (Matcher \union Effect) # {}
ReadRule ==
  /\ Runs({"readrule"})
  /\ Merges => res[Here].kind = Step.kind
  /\ copy' = IF Merges THEN res[Here].items ELSE copy
  /\ touched' = {}
  /\ Advance
  /\ ReadsOnly /\ UNCHANGED found /\ UNCHANGED Looking

-----------------------------------------------------------------------------
\* Changes.  A request under something that is gone is refused.
Alive(place) == place \in Held \union {Root}
New == used + 1
Pairs(kind, up, name) == {i \in Kin(kind, up) : res[i].name = name}

Changed(r) ==
  /\ res' = r
  /\ facts' = facts \union FactsOf(r)
  /\ used' = Max({used} \union {i \in Ids : r[i].kind # "none"})
  /\ (Advance \/ End("failed"))  \* the answer may be lost, or cannot be shown
  /\ UNCHANGED <<chosen, command, others, found>>
  /\ UNCHANGED Looking /\ UNCHANGED Editing

Add(up, name) == /\ New \in Ids /\ Alive(up) /\ Changed([res EXCEPT ![New] = Resource(Step.kind, up, name)])

CreateResource == Runs({"create"}) /\ Add(Place(Step.under), Reference)

\* A link is a resource under one place, named after another.
CreateLink ==
  /\ Runs({"link", "put"})
  /\ LET up == Place(Step.under)
         to == Place(Step.arg)
         same == Pairs(Step.kind, up, to)
     IN IF Step.do = "put" /\ same # {}
        THEN Alive(up) /\ Changed([res EXCEPT ![Min(same)].items["about"] = "ours"])
        ELSE Add(up, to)

\* Only the flags given are sent.
UpdateResource ==
  /\ Runs({"update"})
  /\ res[Here].kind = Step.kind
  /\ Changed([res EXCEPT ![Here].items =
                [item \in Items |-> IF item \in command.flags THEN "ours" ELSE @[item]]])

\* buildMergedEgressMatcher and buildMergedEgressEffect: a part with a flag is
\* sent whole, the rest of it as it was read and written out as arguments.  The
\* arguments of a matcher have no private resource; those of a header have the
\* scheme only of a secret and never the user name, and are parsed anew; domain,
\* methods and path are trimmed, methods in upper case.
ReadBack(mark) ==
  CASE mark \in {"basic", "bearer"} -> "bare"
    [] mark = "lookalike" -> "secret"
    [] mark = "untidy" -> "tidy"
    [] OTHER -> mark
\* Fault: a part with a flag is sent with the flags alone.
Unmerged(item) == IF item \in command.flags THEN "ours" ELSE "first"
Merged(item) ==
  CASE item \in command.flags -> "ours"
    [] item = "private" -> "unset"
    [] OTHER -> ReadBack(copy[item])
Sent ==
  (UNION {part \in {Matcher, Effect} : part \intersect command.flags # {}})
    \union (command.flags \intersect {"about"})
\* "domain is required", though a rule for a private resource may have none.
Undirected == "domain" \in Sent /\ Merged("domain") = "unset"
Unparsable == "headers" \in Sent /\ Merged("headers") \in {"basicsecret", "prefixed"}
EditRule ==
  /\ Runs({"edit"}) /\ ~Undirected /\ ~Unparsable
  /\ res[Here].kind = Step.kind
  /\ Changed([res EXCEPT ![Here].items =
                [item \in Items |-> IF item \in Sent THEN Merged(item) ELSE @[item]]])

DeleteResource ==
  /\ Runs({"delete"})
  /\ res[Here].kind = Step.kind
  /\ Changed([res EXCEPT ![Here] = Gone])

\* By the pair it links, or by its name.
RemoveLink ==
  /\ Runs({"unlink", "drop"})
  /\ LET name == IF Step.do = "drop" THEN Reference ELSE Place(Step.arg)
         same == Pairs(Step.kind, Place(Step.under), name)
     IN same # {} /\ Changed([res EXCEPT ![Min(same)] = Gone])

-----------------------------------------------------------------------------
\* Other clients: the Console, other commands, the platform itself.
ByOthers(r, ids) ==
  /\ outcome = "none" /\ others < command.changes
  /\ others' = others + 1
  /\ res' = r
  /\ used' = Max({used} \union {i \in Ids : r[i].kind # "none"})
  /\ facts' = facts \union FactsOf(r)
  /\ steady' = steady \ ids
  /\ UNCHANGED <<chosen, command, at, found, cursor, hits, copy, outcome>>

OthersCreate ==
  /\ New \in Ids
  /\ \E i \in Held, n \in Names :
       ByOthers([res EXCEPT ![New] = Resource(res[i].kind, res[i].up, n)], {New})
  /\ UNCHANGED touched
OthersRename ==
  /\ \E i \in Held, n \in Names :
       n # res[i].name /\ res[i].name \in Names /\ ByOthers([res EXCEPT ![i].name = n], {i})
  /\ UNCHANGED touched
OthersDelete ==
  /\ \E i \in Held : ByOthers([res EXCEPT ![i] = Gone], {i})
  /\ UNCHANGED touched
OthersWrite ==
  \E i \in Held, item \in Items :
    /\ res[i].kind = "rule"
    /\ ByOthers([res EXCEPT ![i].items[item] = "theirs"], {})
    /\ touched' = touched \union {item}

CommandSteps ==
  \/ ResolveOrganization \/ TakeIdentifier
  \/ FindPage \/ LookUp \/ PickOrganization \/ StoreOrganization
  \/ Pass \/ Fail \/ ReadRule
  \/ CreateResource \/ CreateLink \/ UpdateResource \/ EditRule
  \/ DeleteResource \/ RemoveLink

GatewayNext ==
  \/ CommandSteps
  \/ OthersCreate \/ OthersRename \/ OthersDelete \/ OthersWrite

GatewaySpec == GatewayInit /\ [][GatewayNext]_gatewayVars

-----------------------------------------------------------------------------
\* What the arguments of a command mean, from what was true while it ran and
\* not from what the command found.
Organizations(org, F) == IF org # Root THEN {org} ELSE {f.id : f \in {g \in F : g.kind = "org"}}
Named(f, ref, how, target) ==
  CASE how = "target" -> f.name \in target
    [] how \in {"organization", "handle"} ->
         f.id = ref \/ (ref \in Names /\ f.name \in Names /\ Folded[f.name] = Folded[ref])
    [] OTHER -> ref \in {Nobody, f.name} \/ (how \in {"nameOrId", "nickname"} /\ f.id = ref)
\* What one lookup may find, given what the places before it may hold.
Means(s, refs, org, F, meant) ==
  LET ref == IF s.arg = 0 \/ s.how = "target" THEN Nobody ELSE refs[s.arg]
      target == IF s.how = "target" THEN meant[s.arg] ELSE {}
  IN CASE s.do = "org" -> Organizations(org, F)
       [] s.do = "scope" -> {org}
       [] s.do = "given" \/ (s.how \in {"handle", "nickname"} /\ ref \in Ids) -> {ref}
       [] OTHER -> {f.id : f \in {g \in F :
            /\ g.kind = s.kind
            /\ Root \in meant[s.under] \/ g.up \in meant[s.under] \/ g.id = ref
            /\ Named(g, ref, s.how, target)}}
AllMeant(c, org, F) ==
  LET meant[place \in 0..Lookups(c.steps, Len(c.steps))] ==
        IF place = 0 THEN {Root} ELSE Means(LookupAt(c.steps, place), c.refs, org, F, meant)
  IN meant
Meant == AllMeant(command, Chosen, facts)
LastMeant == Meant[Lookups(command.steps, Len(command.steps))]

\* What a command changes is what its arguments name: a resource it deletes or
\* updates had, at some moment while the command ran, the name it was called
\* by, in the place it was called from; what it creates hangs under a place so
\* named; and the organization it stores is the one that was asked for.
ChangesTheNamed ==
  [][/\ others' = others =>
          \A i \in Ids : res'[i] # res[i] =>
            CASE Step.do \in {"create", "link", "put"} ->
                   /\ res'[i].kind = Step.kind
                   /\ \/ res'[i].up \in Meant[Step.under]
                      \/ Root \in Meant[Step.under] /\ res'[i].up = res[i].up
                   /\ Step.do = "create" => res'[i].name = Reference
                   /\ Step.do # "create" => res'[i].name \in Meant[Step.arg]
              [] Step.do \in {"unlink", "drop"} ->
                   /\ res[i].kind = Step.kind
                   /\ Root \in Meant[Step.under] \/ res[i].up \in Meant[Step.under]
                   /\ IF Step.do = "drop" THEN res[i].name = Reference
                                          ELSE res[i].name \in Meant[Step.arg]
              [] OTHER -> res[i].kind = Step.kind /\ i \in LastMeant
     /\ chosen' # chosen => chosen' \in LastMeant]_gatewayVars

\* What a command says of a lookup was so: nothing it answers "not found" for
\* was there all the while it looked, it answers "which one" only when more than
\* one thing fits, and a listing leaves out nothing that was there all the
\* while.  A lookup that reads one page (what an environment contains, handles,
\* nicknames) is right only as far as that page goes.
Fits ==
  {i \in Candidates :
     \/ Step.do = "org"
     \/ CASE Step.how = "organization" -> i = Reference \/ Alike(i, Reference)
          [] ByServer -> Exactly(i, Reference)
          [] OTHER -> Matches(i)}
InReach == Step.how \in FirstPage => Cardinality(Candidates) <= PageSize
Fitting ==
  {f.id : f \in {g \in facts :
     /\ g.kind = Step.kind
     /\ Place(Step.under) \in {Root, g.up}
     /\ Named(g, Reference, Step.how, {})}}
AnswersTrue ==
  [][outcome = "none" /\ Step.do \in {"find", "org"} /\ others' = others =>
       /\ outcome' = "absent" /\ InReach => Fits \intersect steady' = {}
       /\ outcome' = "several" =>
            Cardinality(Fitting) > 1 /\ Reference \notin Kin("org", Root)
       /\ Step.how = "all" /\ at' # at => Fits \intersect steady' \subseteq hits']_gatewayVars

\* An update of a rule changes what its flags say and keeps the rest, unless
\* somebody wrote it between the read and the write.  What is sent along with a
\* flag loses what no argument can say: the private resource, always (nothing
\* copies it, egress.go:343-361, 415); the user name or Bearer scheme of a value
\* in the clear; that a value is one, when it reads like another form of argument
\* (egressHeaderArgsFromProto, egress.go:381-401); blanks and lower case.
EditsKeepRest ==
  [][Runs({"edit"}) /\ res' # res /\ others' = others =>
       \A item \in Items \ command.flags :
         \/ res'[Here].items[item] = res[Here].items[item]
         \/ /\ item \in Sent
            /\ \/ item \in touched
               \/ copy[item] \in {"basic", "bearer", "lookalike", "untidy"}
               \/ item = "private"]_gatewayVars
=============================================================================
