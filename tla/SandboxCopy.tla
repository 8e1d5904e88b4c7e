------------------------------ MODULE SandboxCopy ------------------------------
(***************************************************************************)
(* agyn sandbox cp, frame by frame: the command, its endpoint in the       *)
(* sandbox and the stream between them, several copies at once over one    *)
(* staging directory, files that change under the copy, connections that   *)
(* break and endpoints that are killed.  A content stands for its digest.  *)
(* Others rewrite a file in place or delete it; a name that is taken away  *)
(* or given to another file leaves whoever has it open the old content.    *)
(***************************************************************************)
EXTENDS Naturals, Sequences, SequencesExt, FiniteSets, Functions

CONSTANTS
  Copies,   \* commands, each with a connection and an endpoint of its own
  Files,    \* names, of which a file here and a file there have the same
  Contents, \* what a file may hold: sequences of chunks
  NoFile,   \* no such file
  Starts    \* what is here and there before, and what each command does:
            \* [here, there, job], a job being "push", "pull" or "none", and
            \* two bounds, on changes of files by others ("edits") and on
            \* connections cut and endpoints killed ("cuts")

ASSUME CopyAssumption ==
  /\ \A s \in Starts : /\ s.job \in [Copies -> {"push", "pull", "none"}]
                       /\ s.here \in [Files -> Contents \union {NoFile}]
                       /\ s.there \in [Files -> Contents \union {NoFile}]
                       /\ s.edits \in Nat /\ s.cuts \in Nat
  /\ Contents \subseteq Seq(UNION {ToSet(c) : c \in Contents})
  /\ NoFile \notin Contents

VARIABLES
  here, there, \* the files on either side
  stage,       \* the staging directory there: digest -> content
  job,         \* what each command is
  told,        \* the digests it announces: of its scan, or of the endpoint's
  client,      \* the command: [at, todo, name, size, body]
  endpoint,    \* its endpoint: [at, name, size, body, put, todo, failed]
  up, down,    \* the frames on their way, in each direction
  linked,      \* the connection is there
  kept,        \* what the open file of each still holds without its name
  edits, cuts, \* changes and cuts that are left
  moved,       \* ghost: a pulled file changed since its digest was compared
  landed       \* ghost: the files a copy put under their names

copyVars == <<here, there, stage, job, told, client, endpoint, up, down, linked,
              kept, edits, cuts, moved, landed>>

NoFiles == [f \in {} |-> NoFile]
Client(at) == [at |-> at, todo |-> {}, name |-> NoFile, size |-> 0, body |-> <<>>]
\* put: what has become of the file a body goes to: "none", "whole" so far,
\* "failed", or "collected" by another handshake.
Endpoint(at) ==
  [at |-> at, name |-> NoFile, size |-> 0, body |-> <<>>, put |-> "none",
   todo |-> {}, failed |-> FALSE]

CopyInit ==
  /\ \E s \in Starts :
       /\ here = s.here /\ there = s.there /\ job = s.job
       /\ edits = s.edits /\ cuts = s.cuts
  /\ stage = NoFiles
  /\ told = [p \in Copies |-> NoFiles]
  /\ client = [p \in Copies |-> Client("dial")]
  /\ endpoint = [p \in Copies |-> Endpoint("gone")]
  /\ up = [p \in Copies |-> <<>>] /\ down = [p \in Copies |-> <<>>]
  /\ linked = [p \in Copies |-> FALSE] /\ kept = [p \in Copies |-> NoFile]
  /\ moved = [p \in Copies |-> FALSE] /\ landed = [p \in Copies |-> {}]

-----------------------------------------------------------------------------
\* Frames: a request or a response of some kind, an error, or a chunk of a body.
Frame(type, kind, name, size, names) ==
  [type |-> type, kind |-> kind, name |-> name, size |-> size, names |-> names]
Request(kind, name, size, names) == Frame("request", kind, name, size, names)
Response(kind, name, size, names) == Frame("response", kind, name, size, names)
Refusal == Frame("error", "error", NoFile, 0, {})
Chunk(x) == Frame("chunk", "data", NoFile, x, {})
Eof == Frame("chunk", "eof", NoFile, 0, {})

WriteUp(p, frame) == up' = [up EXCEPT ![p] = Append(@, frame)]
WriteDown(p, frame) == down' = [down EXCEPT ![p] = Append(@, frame)]
ReadUp(p) == up' = [up EXCEPT ![p] = Tail(@)]
ReadDown(p) == down' = [down EXCEPT ![p] = Tail(@)]
Arrives(p, type, kind) == up[p] # <<>> /\ Head(up[p]).type = type /\ Head(up[p]).kind = kind
Answered(p, kind) == down[p] # <<>> /\ Head(down[p]).kind = kind

At(p, at) == client[p].at = at
Turn(p, c) == client' = [client EXCEPT ![p] = c]
Serves(p, at) == endpoint[p].at = at
Become(p, e) == endpoint' = [endpoint EXCEPT ![p] = e]
\* Every error of a command ends it, and its connection.
Give(p, at) ==
  /\ Turn(p, Client(at))
  /\ linked' = [linked EXCEPT ![p] = FALSE]
  /\ UNCHANGED up

OnlyClient == <<there, stage, job, endpoint, edits, cuts, moved>>
OnlyEndpoint == <<here, job, told, client, linked, edits, cuts>>

\* The file a copy reads: open from its first chunk on at the endpoint, from
\* when its size is taken at the command.
BodyOf(p, digest) == CHOOSE f \in DOMAIN told[p] : told[p][f] = digest
OpenHere(p, f) == At(p, "send") /\ BodyOf(p, client[p].name) = f
OpenThere(p, f) == Serves(p, "supply") /\ endpoint[p].name = f /\ endpoint[p].body # <<>>
Unname(Open(_, _), f, content) ==
  kept' = [p \in Copies |-> IF Open(p, f) /\ kept[p] = NoFile THEN content ELSE kept[p]]
Reads(p, content) == IF kept[p] = NoFile THEN content ELSE kept[p]
Reopen(p) == kept' = [kept EXCEPT ![p] = NoFile]

-----------------------------------------------------------------------------
\* The command.  The handshake is one step of both: what a session that died
\* left half received is collected, and so is what a live one is receiving.
CollectStale ==
  [q \in Copies |-> IF endpoint[q].put = "whole" THEN [endpoint[q] EXCEPT !.put = "collected"]
                    ELSE endpoint[q]]
OpenCopy(p) ==
  /\ At(p, "dial") /\ job[p] # "none"
  /\ \/ /\ Turn(p, Client("scan"))
        /\ linked' = [linked EXCEPT ![p] = TRUE]
        /\ endpoint' = [CollectStale EXCEPT ![p] = Endpoint("ready")]
     \/ Turn(p, Client("failed")) /\ UNCHANGED <<linked, endpoint>>
  /\ UNCHANGED <<here, there, stage, job, told, up, down, kept, edits, cuts, moved, landed>>

Present(files) == {f \in Files : files[f] # NoFile}
ScanOf(files) == [f \in Present(files) |-> files[f]]

\* Push digests the files here and asks which contents are wanted, if it has
\* any; Pull asks the endpoint for its scan.
StartScan(p) ==
  /\ At(p, "scan")
  /\ \/ /\ job[p] = "push"
        /\ told' = [told EXCEPT ![p] = ScanOf(here)]
        /\ IF Present(here) = {} THEN Turn(p, Client("next")) /\ UNCHANGED up
           ELSE /\ WriteUp(p, Request("query", NoFile, 0, {here[f] : f \in Present(here)}))
                /\ Turn(p, Client("query"))
     \/ /\ job[p] = "pull"
        /\ WriteUp(p, Request("scan", NoFile, 0, {}))
        /\ Turn(p, Client("listing")) /\ UNCHANGED told
  /\ UNCHANGED <<here, down, linked, kept, landed>> /\ UNCHANGED OnlyClient

\* The answer to the query; without room for what it needs the copy ends.
TakeMissing(p) ==
  /\ At(p, "query") /\ Answered(p, "query")
  /\ ReadDown(p)
  /\ \/ Turn(p, [Client("next") EXCEPT !.todo = Head(down[p]).names]) /\ UNCHANGED <<up, linked>>
     \/ Give(p, "failed")
  /\ UNCHANGED <<here, told, kept, landed>> /\ UNCHANGED OnlyClient

\* The scan is of the files there as they were; nothing to copy is an error.
TakeListing(p) ==
  /\ At(p, "listing") /\ Answered(p, "scan")
  /\ ReadDown(p)
  /\ IF DOMAIN told[p] = {} THEN Give(p, "failed")
     ELSE Turn(p, [Client("next") EXCEPT !.todo = DOMAIN told[p]]) /\ UNCHANGED <<up, linked>>
  /\ UNCHANGED <<here, told, kept, landed>> /\ UNCHANGED OnlyClient

\* The next content to send, the next file to fetch, or the end of them.
NextPut(p) ==
  /\ At(p, "next") /\ job[p] = "push"
  /\ \/ \E digest \in client[p].todo :
          LET f == BodyOf(p, digest)
          IN \/ /\ here[f] # NoFile
                /\ WriteUp(p, Request("put", digest, Len(here[f]), {}))
                /\ Turn(p, [client[p] EXCEPT !.at = "send", !.name = digest,
                              !.size = Len(here[f]), !.body = <<>>])
                /\ Reopen(p) /\ UNCHANGED linked
             \/ here[f] = NoFile /\ Give(p, "failed") /\ UNCHANGED kept
     \/ /\ client[p].todo = {}
        /\ WriteUp(p, Request("transition", NoFile, 0, {}))
        /\ Turn(p, Client("results")) /\ UNCHANGED <<linked, kept>>
  /\ UNCHANGED <<here, told, down, landed>> /\ UNCHANGED OnlyClient

NextSupply(p) ==
  /\ At(p, "next") /\ job[p] = "pull"
  /\ \/ \E f \in client[p].todo :
          /\ WriteUp(p, Request("supply", f, 0, {}))
          /\ Turn(p, [client[p] EXCEPT !.at = "supply", !.name = f]) /\ UNCHANGED linked
     \/ client[p].todo = {} /\ Give(p, "done")
  /\ UNCHANGED <<here, told, down, kept, landed>> /\ UNCHANGED OnlyClient

\* WriteBody: a chunk of what the file holds by now, up to the size declared; a
\* file that grew ends the copy in the middle of the body.
SendChunk(p) ==
  /\ At(p, "send")
  /\ LET c == client[p]
         now == Reads(p, here[BodyOf(p, c.name)])
         i == Len(c.body) + 1
     IN \/ i > Len(now) /\ WriteUp(p, Eof) /\ Turn(p, [c EXCEPT !.at = "put"]) /\ UNCHANGED linked
        \/ /\ i <= Len(now) /\ i <= c.size
           /\ WriteUp(p, Chunk(now[i])) /\ Turn(p, [c EXCEPT !.body = Append(@, now[i])])
           /\ UNCHANGED linked
        \/ i <= Len(now) /\ i > c.size /\ Give(p, "failed")
  /\ UNCHANGED <<here, told, down, kept, landed>> /\ UNCHANGED OnlyClient

\* The endpoint answers with the digest of what arrived.
TakePut(p) ==
  /\ At(p, "put") /\ Answered(p, "put")
  /\ ReadDown(p)
  /\ IF Head(down[p]).name = client[p].name
     THEN Turn(p, [Client("next") EXCEPT !.todo = client[p].todo \ {client[p].name}])
            /\ UNCHANGED <<up, linked>>
     ELSE Give(p, "failed")
  /\ UNCHANGED <<here, told, kept, landed>> /\ UNCHANGED OnlyClient

\* One change that was not applied fails the copy.
TakeResults(p) ==
  /\ At(p, "results") /\ Answered(p, "transition")
  /\ ReadDown(p)
  /\ Give(p, IF Head(down[p]).names = {} THEN "done" ELSE "failed")
  /\ UNCHANGED <<here, told, kept, landed>> /\ UNCHANGED OnlyClient

TakeSupply(p) ==
  /\ At(p, "supply") /\ Answered(p, "supply")
  /\ ReadDown(p)
  /\ Turn(p, [client[p] EXCEPT !.at = "body", !.size = Head(down[p]).size, !.body = <<>>])
  /\ UNCHANGED <<here, told, up, linked, kept, landed>> /\ UNCHANGED OnlyClient

\* The body goes to a file of its own, which takes the name when it is whole.
\* Fault: it goes to the name itself.
InPlace(p, f, body) ==
  here' = [here EXCEPT ![f] = body] /\ landed' = [landed EXCEPT ![p] = @ \union {f}]
Aside(p, f, body) == UNCHANGED <<here, landed>>

TakeChunk(p) ==
  /\ At(p, "body") /\ down[p] # <<>> /\ Head(down[p]).type = "chunk"
  /\ ReadDown(p)
  /\ LET c == client[p]
         body == Append(c.body, Head(down[p]).size)
     IN IF Head(down[p]) = Eof
        THEN /\ here' = [here EXCEPT ![c.name] = c.body]
             /\ landed' = [landed EXCEPT ![p] = @ \union {c.name}]
             /\ Unname(OpenHere, c.name, here[c.name])
             /\ Turn(p, [Client("next") EXCEPT !.todo = c.todo \ {c.name}])
             /\ UNCHANGED <<up, linked>>
        ELSE /\ Aside(p, c.name, body) /\ UNCHANGED kept
             /\ IF Len(body) > c.size THEN Give(p, "failed")
                ELSE Turn(p, [c EXCEPT !.body = body]) /\ UNCHANGED <<up, linked>>
  /\ UNCHANGED told /\ UNCHANGED OnlyClient

\* A refusal, or an end of the stream where an answer was expected.
Ended == {"done", "failed"}
Waits == {"query", "listing", "put", "results", "supply", "body"}
Lose(p) ==
  /\ client[p].at \in Waits
  /\ \/ down[p] # <<>> /\ Head(down[p]) = Refusal /\ ReadDown(p)
     \/ down[p] = <<>> /\ Serves(p, "gone") /\ UNCHANGED down
  /\ Give(p, "failed")
  /\ UNCHANGED <<here, told, kept, landed>> /\ UNCHANGED OnlyClient

-----------------------------------------------------------------------------
\* The endpoint.
AnswerQuery(p) ==
  /\ Serves(p, "ready") /\ Arrives(p, "request", "query")
  /\ ReadUp(p)
  /\ WriteDown(p, Response("query", NoFile, 0, Head(up[p]).names \ DOMAIN stage))
  /\ UNCHANGED <<there, stage, endpoint, kept, moved, landed>> /\ UNCHANGED OnlyEndpoint

AnswerScan(p) ==
  /\ Serves(p, "ready") /\ Arrives(p, "request", "scan")
  /\ ReadUp(p)
  /\ WriteDown(p, Response("scan", NoFile, 0, {}))
  /\ told' = [told EXCEPT ![p] = ScanOf(there)]
  /\ UNCHANGED <<here, there, stage, job, client, endpoint, linked, kept, edits, cuts, moved, landed>>

BeginPut(p) ==
  /\ Serves(p, "ready") /\ Arrives(p, "request", "put")
  /\ ReadUp(p)
  /\ Become(p, [Endpoint("body") EXCEPT !.name = Head(up[p]).name, !.size = Head(up[p]).size,
                  !.put = "whole"])
  /\ UNCHANGED <<there, stage, down, kept, moved, landed>> /\ UNCHANGED OnlyEndpoint

\* A body that cannot be kept is read to its end all the same.
\* Fault: it is refused at once, its rest left on the stream.
Refuse(p) == Become(p, Endpoint("ready")) /\ WriteDown(p, Refusal)
Drain(p) == Become(p, [endpoint[p] EXCEPT !.put = "failed"]) /\ UNCHANGED down

ReceiveChunk(p) ==
  /\ Serves(p, "body") /\ up[p] # <<>> /\ Head(up[p]).type = "chunk" /\ Head(up[p]) # Eof
  /\ ReadUp(p)
  /\ \/ Drain(p)  \* the disk is full, or it is more than was declared
     \/ /\ endpoint[p].put \in {"whole", "collected"}
        /\ Len(endpoint[p].body) < endpoint[p].size
        /\ Become(p, [endpoint[p] EXCEPT !.body = Append(@, Head(up[p]).size)])
        /\ UNCHANGED down
  /\ UNCHANGED <<there, stage, kept, moved, landed>> /\ UNCHANGED OnlyEndpoint

\* Staging.Put: the content takes the name of its digest if it has that digest.
Keep(name, body) ==
  stage' = IF body # name THEN stage
           ELSE [digest \in DOMAIN stage \union {name} |-> IF digest = name THEN body ELSE stage[digest]]

ReceiveEof(p) ==
  /\ Serves(p, "body") /\ up[p] # <<>> /\ Head(up[p]) = Eof
  /\ ReadUp(p)
  /\ LET e == endpoint[p]
         renamed == e.put = "whole" \/ (e.put = "collected" /\ e.body # e.name)
     IN IF renamed THEN Keep(e.name, e.body) /\ WriteDown(p, Response("put", e.body, 0, {}))
        ELSE WriteDown(p, Refusal) /\ UNCHANGED stage
  /\ Become(p, Endpoint("ready"))
  /\ UNCHANGED <<there, kept, moved, landed>> /\ UNCHANGED OnlyEndpoint

BeginTransition(p) ==
  /\ Serves(p, "ready") /\ Arrives(p, "request", "transition")
  /\ ReadUp(p)
  /\ Become(p, [Endpoint("apply") EXCEPT !.todo = DOMAIN told[p]])
  /\ UNCHANGED <<there, stage, down, kept, moved, landed>> /\ UNCHANGED OnlyEndpoint

Moves(f) ==
  moved' = [p \in Copies |-> moved[p] \/ (job[p] = "pull" /\ client[p].name = f)]

\* createFile moves the staged content to the name: it is staged no more.
CreateFile(p) ==
  /\ Serves(p, "apply")
  /\ \E f \in endpoint[p].todo :
       LET digest == told[p][f]
           rest == [endpoint[p] EXCEPT !.todo = @ \ {f}]
       IN \/ /\ digest \in DOMAIN stage
             /\ there' = [there EXCEPT ![f] = stage[digest]]
             /\ stage' = Restrict(stage, DOMAIN stage \ {digest})
             /\ landed' = [landed EXCEPT ![p] = @ \union {f}]
             /\ Become(p, rest) /\ Moves(f) /\ Unname(OpenThere, f, there[f])
          \/ /\ Become(p, [rest EXCEPT !.failed = TRUE])  \* not staged, or not writable
             /\ UNCHANGED <<there, stage, kept, moved, landed>>
  /\ UNCHANGED <<up, down>> /\ UNCHANGED OnlyEndpoint

EndTransition(p) ==
  /\ Serves(p, "apply") /\ endpoint[p].todo = {}
  /\ WriteDown(p, Response("transition", NoFile, 0, IF endpoint[p].failed THEN {NoFile} ELSE {}))
  /\ Become(p, Endpoint("ready"))
  /\ UNCHANGED <<there, stage, up, kept, moved, landed>> /\ UNCHANGED OnlyEndpoint

\* A file that has changed since the scan is refused; one that changes after
\* that is sent as it is read.
BeginSupply(p) ==
  /\ Serves(p, "ready") /\ Arrives(p, "request", "supply")
  /\ ReadUp(p)
  /\ LET f == Head(up[p]).name
     IN IF there[f] = told[p][f]
        THEN /\ WriteDown(p, Response("supply", f, Len(there[f]), {}))
             /\ Become(p, [Endpoint("supply") EXCEPT !.name = f])
             /\ moved' = [moved EXCEPT ![p] = FALSE] /\ Reopen(p)
        ELSE WriteDown(p, Refusal) /\ UNCHANGED <<endpoint, kept, moved>>
  /\ UNCHANGED <<there, stage, landed>> /\ UNCHANGED OnlyEndpoint

SupplyChunk(p) ==
  /\ Serves(p, "supply")
  /\ LET e == endpoint[p]
         now == Reads(p, there[e.name])
         i == Len(e.body) + 1
     IN \/ now = NoFile /\ Become(p, Endpoint("gone")) /\ UNCHANGED down
        \/ /\ now # NoFile /\ i <= Len(now)
           /\ WriteDown(p, Chunk(now[i])) /\ Become(p, [e EXCEPT !.body = Append(@, now[i])])
        \/ now # NoFile /\ i > Len(now) /\ WriteDown(p, Eof) /\ Become(p, Endpoint("ready"))
  /\ UNCHANGED <<there, stage, up, kept, moved, landed>> /\ UNCHANGED OnlyEndpoint

\* The end of its input ends an endpoint; of a body cut short, what arrived is
\* kept if it happens to be the whole.
StreamEnds(p) ==
  /\ endpoint[p].at \in {"ready", "body"} /\ up[p] = <<>> /\ ~linked[p]
  /\ IF Serves(p, "body") /\ endpoint[p].put = "whole"
     THEN Keep(endpoint[p].name, endpoint[p].body) ELSE UNCHANGED stage
  /\ Become(p, Endpoint("gone"))
  /\ UNCHANGED <<there, up, down, kept, moved, landed>> /\ UNCHANGED OnlyEndpoint

-----------------------------------------------------------------------------
\* Others rewrite a file, make one, or delete one.
Edit ==
  /\ edits > 0 /\ edits' = edits - 1
  /\ \E f \in Files, content \in Contents \union {NoFile} :
       \/ /\ here' = [here EXCEPT ![f] = content] /\ UNCHANGED <<there, moved>>
          /\ IF content = NoFile THEN Unname(OpenHere, f, here[f]) ELSE UNCHANGED kept
       \/ /\ there' = [there EXCEPT ![f] = content] /\ Moves(f) /\ UNCHANGED here
          /\ IF content = NoFile THEN Unname(OpenThere, f, there[f]) ELSE UNCHANGED kept
  /\ UNCHANGED <<stage, job, told, client, endpoint, up, down, linked, cuts, landed>>

\* The connection breaks, with what was under way; or the endpoint is killed.
Cut(p) ==
  /\ cuts > 0 /\ cuts' = cuts - 1 /\ linked[p]
  /\ \/ /\ Turn(p, Client("failed")) /\ linked' = [linked EXCEPT ![p] = FALSE]
        /\ up' \in {[up EXCEPT ![p] = SubSeq(@, 1, n)] : n \in 0..Len(up[p])}
        /\ down' = [down EXCEPT ![p] = <<>>] /\ UNCHANGED endpoint
     \/ Become(p, Endpoint("gone")) /\ UNCHANGED <<client, linked, up, down>>
  /\ UNCHANGED <<here, there, stage, job, told, kept, edits, moved, landed>>

CommandStep(p) ==
  \/ OpenCopy(p) \/ StartScan(p) \/ TakeMissing(p) \/ TakeListing(p) \/ NextPut(p)
  \/ NextSupply(p) \/ SendChunk(p) \/ TakePut(p) \/ TakeResults(p) \/ TakeSupply(p)
  \/ TakeChunk(p) \/ Lose(p)
EndpointStep(p) ==
  \/ AnswerQuery(p) \/ AnswerScan(p) \/ BeginPut(p) \/ ReceiveChunk(p) \/ ReceiveEof(p)
  \/ BeginTransition(p) \/ CreateFile(p) \/ EndTransition(p) \/ BeginSupply(p)
  \/ SupplyChunk(p) \/ StreamEnds(p)
CopyNext == Edit \/ \E p \in Copies : CommandStep(p) \/ EndpointStep(p) \/ Cut(p)
CopySpec == CopyInit /\ [][CopyNext]_copyVars

-----------------------------------------------------------------------------
\* What a copy puts under a name is whole, and is what was announced for it,
\* whatever changed, broke or was killed meanwhile; only a file that changes
\* after the endpoint compared its digest is pulled as it was read.  And a copy
\* that says it is done has put every file it announced under its name.
LandsWhole ==
  [][\A p \in Copies :
       /\ \A f \in landed'[p] \ landed[p] :
            told[p][f] = (IF job[p] = "push" THEN there'[f] ELSE here'[f])
              \/ (job[p] = "pull" /\ moved[p])
       /\ client'[p].at = "done" /\ ~At(p, "done") => landed'[p] = DOMAIN told'[p]]_copyVars

\* Both ends stay in step: a frame is always of the kind its reader waits for,
\* so that no chunk left over from one body is taken for something else.
InStep ==
  \A p \in Copies :
    /\ up[p] # <<>> /\ Serves(p, "ready") => Head(up[p]).type = "request"
    /\ up[p] # <<>> /\ Serves(p, "body") => Head(up[p]).type = "chunk"
    /\ down[p] # <<>> /\ client[p].at \in Waits \ {"body"} =>
         Head(down[p]).type \in {"response", "error"}
    /\ down[p] # <<>> /\ At(p, "body") => Head(down[p]).type = "chunk"
=============================================================================
