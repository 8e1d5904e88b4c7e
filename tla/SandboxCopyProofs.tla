-------------------------- MODULE SandboxCopyProofs --------------------------
(***************************************************************************)
(* Proofs about SandboxCopy: both ends of a copy stay in step, and what a  *)
(* copy puts under a name is whole, for every number of copies, files and  *)
(* contents, changes by others and broken connections.                     *)
(***************************************************************************)
EXTENDS SandboxCopy, SequenceTheorems, TLAPS

-----------------------------------------------------------------------------
\* Sequences, of whatever their elements are.
IsSeq(s) == s \in Seq(ToSet(s))

LEMMA SeqIs == ASSUME NEW S, NEW s \in Seq(S) PROVE IsSeq(s)
BY DEF IsSeq, ToSet

LEMMA EmptyIs == IsSeq(<<>>) /\ Len(<<>>) = 0
BY DEF IsSeq, ToSet

LEMMA SeqLen ==
  ASSUME NEW s, IsSeq(s)
  PROVE  Len(s) \in Nat /\ DOMAIN s = 1..Len(s) /\ (s = <<>> <=> Len(s) = 0)
BY DEF IsSeq

LEMMA Appended ==
  ASSUME NEW s, IsSeq(s), NEW x
  PROVE  /\ IsSeq(Append(s, x)) /\ Append(s, x) # <<>>
         /\ Len(Append(s, x)) = Len(s) + 1
         /\ Append(s, x)[Len(s) + 1] = x
         /\ \A i \in 1..Len(s) : Append(s, x)[i] = s[i]
<1> DEFINE S == ToSet(s) \union {x}
<1>1. s \in Seq(S) /\ x \in S
  BY DEF IsSeq
<1> HIDE DEF S
<1>2. Append(s, x) \in Seq(S)
  BY <1>1
<1>3. IsSeq(Append(s, x))
  BY <1>2, SeqIs
<1> QED
  BY <1>1, <1>3

LEMMA Tailed ==
  ASSUME NEW s, IsSeq(s), s # <<>>
  PROVE  /\ IsSeq(Tail(s)) /\ Head(s) = s[1]
         /\ Len(s) >= 1 /\ Len(Tail(s)) = Len(s) - 1
         /\ \A i \in 1..(Len(s) - 1) : Tail(s)[i] = s[i + 1]
<1> DEFINE S == ToSet(s)
<1>1. s \in Seq(S)
  BY DEF IsSeq
<1> HIDE DEF S
<1>2. /\ Tail(s) \in Seq(S) /\ Len(Tail(s)) = Len(s) - 1
      /\ \A i \in 1..Len(Tail(s)) : Tail(s)[i] = s[i + 1]
  BY <1>1, HeadTailProperties
<1>3. IsSeq(Tail(s))
  BY <1>2, SeqIs
<1> QED
  BY <1>1, <1>2, <1>3

LEMMA Single ==
  ASSUME NEW x
  PROVE  /\ IsSeq(Append(<<>>, x)) /\ Append(<<>>, x) # <<>>
         /\ Len(Append(<<>>, x)) = 1 /\ Append(<<>>, x)[1] = x
<1>1. IsSeq(<<>>) /\ Len(<<>>) = 0
  BY EmptyIs
<1>2. /\ IsSeq(Append(<<>>, x)) /\ Append(<<>>, x) # <<>>
      /\ Len(Append(<<>>, x)) = Len(<<>>) + 1 /\ Append(<<>>, x)[Len(<<>>) + 1] = x
  BY <1>1, Appended
<1> QED
  BY <1>1, <1>2

LEMMA OnlyOne ==
  ASSUME NEW s, IsSeq(s), Len(s) = 1
  PROVE  s # <<>> /\ Head(s) = s[1] /\ Tail(s) = <<>> /\ IsSeq(Tail(s))
<1>1. s # <<>>
  BY SeqLen
<1>2. IsSeq(Tail(s)) /\ Head(s) = s[1] /\ Len(Tail(s)) = 0
  BY <1>1, Tailed
<1>3. Tail(s) = <<>>
  BY <1>2, SeqLen
<1> QED
  BY <1>1, <1>2, <1>3

LEMMA Shortened ==
  ASSUME NEW s, IsSeq(s), NEW n \in 0..Len(s)
  PROVE  /\ IsSeq(SubSeq(s, 1, n)) /\ Len(SubSeq(s, 1, n)) = n
         /\ \A i \in 1..n : SubSeq(s, 1, n)[i] = s[i]
<1> DEFINE S == ToSet(s)
<1>1. s \in Seq(S) /\ Len(s) \in Nat
  BY DEF IsSeq
<1> HIDE DEF S
<1>2. \A i \in 1..n : s[i] \in S
  BY <1>1
<1>3. /\ SubSeq(s, 1, n) \in Seq(S)
      /\ Len(SubSeq(s, 1, n)) = IF 1 <= n THEN n - 1 + 1 ELSE 0
      /\ \A i \in 1..(n - 1 + 1) : SubSeq(s, 1, n)[i] = s[1 + i - 1]
  BY <1>1, <1>2, SubSeqProperties
<1>4. IsSeq(SubSeq(s, 1, n))
  BY <1>3, SeqIs
<1> QED
  BY <1>1, <1>3, <1>4

LEMMA SameSeq ==
  ASSUME NEW s, NEW t, IsSeq(s), IsSeq(t), Len(s) = Len(t),
         \A i \in 1..Len(s) : s[i] = t[i]
  PROVE  s = t
BY DEF IsSeq

-----------------------------------------------------------------------------
\* Where a command and its endpoint can be together, and which frames are on
\* their way then.  Only the last frame of a body is its end.
Body(s, from) == \A i \in from..Len(s) : s[i].type = "chunk" /\ (s[i] = Eof => i = Len(s))
Unended(s) == \A i \in 1..Len(s) : s[i] # Eof
EndsIn(s) == s # <<>> /\ s[Len(s)] = Eof
Answer(frame) == frame.type = "response" \/ frame = Refusal

\* What a command that is somewhere has asked for.
Asked(at, kind) ==
  \/ at = "query" /\ kind = "query"
  \/ at = "listing" /\ kind = "scan"
  \/ at \in {"send", "put"} /\ kind = "put"
  \/ at = "results" /\ kind = "transition"
  \/ at = "supply" /\ kind = "supply"

\* A command that has ended may leave a request behind, and part of its body.
UpFits(c, e, u) ==
  /\ e = "ready" /\ u # <<>> =>
       /\ u[1].type = "request" /\ Body(u, 2) /\ (u[1].kind # "put" => Len(u) = 1)
       /\ c \in Ended \/ Asked(c, u[1].kind)
  /\ e = "body" => Body(u, 1) /\ c \in Ended \union {"send", "put"}
  /\ e = "apply" => u = <<>> /\ c \in Ended \union {"results"}
  /\ e = "supply" => u = <<>> /\ c \in Ended \union {"supply", "body"}

\* Of one request at most the answer is awaited.
DownFits(c, e, u, d) ==
  /\ c = "dial" => e = "gone" /\ u = <<>> /\ d = <<>>
  /\ c \in {"scan", "next"} => e \in {"ready", "gone"} /\ u = <<>> /\ d = <<>>
  /\ c = "send" =>
       /\ d = <<>> /\ (e = "ready" => u # <<>>) /\ (e # "gone" => Unended(u))
  /\ c = "put" /\ e # "gone" /\ d = <<>> => EndsIn(u)
  /\ c \in {"query", "listing", "put", "results"} /\ d # <<>> =>
       Len(d) = 1 /\ Answer(d[1]) /\ u = <<>> /\ e \in {"ready", "gone"}
  /\ c = "supply" /\ d # <<>> =>
       /\ u = <<>> /\ Answer(d[1]) /\ Body(d, 2)
       /\ d[1] = Refusal => Len(d) = 1 /\ e # "supply"
       /\ d[1].type = "response" => (e = "supply" => Unended(d)) /\ (e = "ready" => EndsIn(d))
  /\ c = "supply" /\ e = "supply" => d # <<>>
  /\ c = "body" =>
       u = <<>> /\ Body(d, 1) /\ (e = "supply" => Unended(d)) /\ (e = "ready" => EndsIn(d))

CommandAts == {"dial", "scan", "query", "listing", "next", "send", "put", "results", "supply", "body"}
                \union Ended
EndpointAts == {"gone", "ready", "body", "apply", "supply"}

Fits(c, e, u, d) ==
  /\ c \in CommandAts /\ e \in EndpointAts
  /\ IsSeq(u) /\ IsSeq(d)
  /\ UpFits(c, e, u) /\ DownFits(c, e, u, d)

Shapes ==
  /\ DOMAIN client = Copies /\ DOMAIN endpoint = Copies /\ DOMAIN up = Copies
  /\ DOMAIN down = Copies /\ DOMAIN linked = Copies
  /\ \A p \in Copies :
       /\ DOMAIN client[p] = {"at", "todo", "name", "size", "body"}
       /\ DOMAIN endpoint[p] = {"at", "name", "size", "body", "put", "todo", "failed"}
       /\ At(p, "dial") => ~linked[p]

StepInv == Shapes /\ \A p \in Copies : Fits(client[p].at, endpoint[p].at, up[p], down[p])

LEMMA BodyTail ==
  ASSUME NEW s, IsSeq(s), s # <<>>, Body(s, 2)
  PROVE  /\ Body(Tail(s), 1)
         /\ Unended(s) => Unended(Tail(s))
         /\ EndsIn(s) /\ s[1] # Eof => EndsIn(Tail(s))
<1> HIDE DEF Eof
<1>1. /\ IsSeq(Tail(s)) /\ Len(Tail(s)) = Len(s) - 1 /\ Len(s) \in Nat /\ Len(s) >= 1
      /\ \A i \in 1..(Len(s) - 1) : Tail(s)[i] = s[i + 1]
  BY Tailed, SeqLen
<1>2. Tail(s) = <<>> <=> Len(Tail(s)) = 0
  BY <1>1, SeqLen
<1>3. Body(Tail(s), 1)
  <2> SUFFICES ASSUME NEW i \in 1..Len(Tail(s))
               PROVE  Tail(s)[i].type = "chunk" /\ (Tail(s)[i] = Eof => i = Len(Tail(s)))
    BY DEF Body
  <2>1. i + 1 \in 2..Len(s) /\ Tail(s)[i] = s[i + 1]
    BY <1>1
  <2>2. s[i + 1].type = "chunk" /\ (s[i + 1] = Eof => i + 1 = Len(s))
    BY <2>1 DEF Body
  <2>3. i + 1 = Len(s) => i = Len(Tail(s))
    <3> DEFINE n == Len(s)
               m == Len(Tail(s))
    <3>1. n \in Nat /\ m = n - 1
      BY <1>1
    <3>2. i \in 1..m
      OBVIOUS
    <3> HIDE DEF n, m
    <3>3. i + 1 = n => i = m
      BY <3>1, <3>2
    <3> QED
      BY <3>3 DEF n, m
  <2>4. Tail(s)[i].type = "chunk"
    BY <2>1, <2>2
  <2>5. Tail(s)[i] = Eof => i = Len(Tail(s))
    BY <2>1, <2>2, <2>3
  <2> QED
    BY <2>4, <2>5
<1>4. Unended(s) => Unended(Tail(s))
  BY <1>1 DEF Unended
<1>5. EndsIn(s) /\ s[1] # Eof => EndsIn(Tail(s))
  <2> SUFFICES ASSUME EndsIn(s), s[1] # Eof PROVE EndsIn(Tail(s))
    OBVIOUS
  <2>1. Len(s) # 1 /\ s[Len(s)] = Eof
    BY DEF EndsIn
  <2>2. Tail(s)[Len(Tail(s))] = s[Len(s)]
    BY <1>1, <2>1
  <2> QED
    BY <1>1, <1>2, <2>1, <2>2 DEF EndsIn
<1> QED
  BY <1>3, <1>4, <1>5

LEMMA BodyAppend ==
  ASSUME NEW s, IsSeq(s), NEW k \in {1, 2}, Body(s, k), NEW frame, frame.type = "chunk",
         \A i \in k..Len(s) : s[i] # Eof
  PROVE  /\ Body(Append(s, frame), k)
         /\ Unended(s) /\ frame # Eof => Unended(Append(s, frame))
         /\ frame = Eof => EndsIn(Append(s, frame))
<1> HIDE DEF Eof
<1>1. /\ IsSeq(Append(s, frame)) /\ Append(s, frame) # <<>> /\ Len(Append(s, frame)) = Len(s) + 1
      /\ Append(s, frame)[Len(s) + 1] = frame /\ Len(s) \in Nat
      /\ \A i \in 1..Len(s) : Append(s, frame)[i] = s[i]
  BY Appended, SeqLen
<1>2. Body(Append(s, frame), k)
  <2> SUFFICES ASSUME NEW i \in k..(Len(s) + 1)
               PROVE  /\ Append(s, frame)[i].type = "chunk"
                      /\ Append(s, frame)[i] = Eof => i = Len(s) + 1
    BY <1>1 DEF Body
  <2>1. CASE i \in k..Len(s)
    BY <1>1, <2>1 DEF Body
  <2>2. CASE i = Len(s) + 1
    BY <1>1, <2>2
  <2> QED
    BY <1>1, <2>1, <2>2
<1> QED
  BY <1>1, <1>2 DEF Unended, EndsIn

-----------------------------------------------------------------------------
\* What a step makes of a place where command and endpoint fit.
LEMMA FitsGiven ==
  ASSUME NEW c, NEW e, NEW u, NEW d, Fits(c, e, u, d), NEW at \in Ended, NEW d2, IsSeq(d2)
  PROVE  Fits(at, e, u, d2)
BY DEF Fits, UpFits, DownFits, Asked, Ended, CommandAts

LEMMA FitsGone ==
  ASSUME NEW c, NEW e, NEW u, NEW d, Fits(c, e, u, d)
  PROVE  Fits(c, "gone", u, d)
BY DEF Fits, UpFits, DownFits, EndpointAts

LEMMA FitsCut ==
  ASSUME NEW c, NEW e, NEW u, NEW d, Fits(c, e, u, d), NEW n \in 0..Len(u), NEW at \in Ended
  PROVE  Fits(at, e, SubSeq(u, 1, n), <<>>)
<1>1. IsSeq(u) /\ IsSeq(<<>>) /\ Len(u) \in Nat /\ (u = <<>> <=> Len(u) = 0)
  BY SeqLen, EmptyIs DEF Fits
<1>2. /\ IsSeq(SubSeq(u, 1, n)) /\ Len(SubSeq(u, 1, n)) = n
      /\ \A i \in 1..n : SubSeq(u, 1, n)[i] = u[i]
  BY <1>1, Shortened
<1>3. SubSeq(u, 1, n) = <<>> <=> n = 0
  BY <1>2, SeqLen
<1> QED
  BY <1>1, <1>2, <1>3 DEF Fits, UpFits, DownFits, Asked, Ended, CommandAts, Body

LEMMA FitsAsk ==
  ASSUME NEW c \in {"scan", "next"}, NEW e, NEW u, NEW d, Fits(c, e, u, d),
         NEW at \in {"query", "listing", "send", "results", "supply"},
         NEW frame, frame.type = "request", Asked(at, frame.kind)
  PROVE  Fits(at, e, Append(u, frame), d)
<1> HIDE DEF Eof, Refusal
<1>1. u = <<>> /\ d = <<>> /\ e \in {"ready", "gone"} /\ IsSeq(d)
  BY DEF Fits, DownFits
<1>2. /\ IsSeq(Append(u, frame)) /\ Append(u, frame) # <<>> /\ Len(Append(u, frame)) = 1
      /\ Append(u, frame)[1] = frame
  BY <1>1, Single
<1>3. frame # Eof
  BY DEF Eof, Frame
<1>4. Body(Append(u, frame), 2) /\ Unended(Append(u, frame))
  BY <1>2, <1>3 DEF Body, Unended
<1> QED
  BY <1>1, <1>2, <1>4 DEF Fits, UpFits, DownFits, CommandAts, EndpointAts, Ended

LEMMA FitsNext ==
  ASSUME NEW e, NEW u, NEW d, Fits("scan", e, u, d)
  PROVE  Fits("next", e, u, d)
BY DEF Fits, UpFits, DownFits, Asked, Ended, CommandAts

LEMMA FitsSend ==
  ASSUME NEW e, NEW u, NEW d, Fits("send", e, u, d), NEW frame, frame.type = "chunk"
  PROVE  /\ frame # Eof => Fits("send", e, Append(u, frame), d)
         /\ frame = Eof => Fits("put", e, Append(u, frame), d)
<1> HIDE DEF Eof, Refusal
<1>1. IsSeq(u) /\ d = <<>> /\ (e = "ready" => u # <<>>) /\ (e # "gone" => Unended(u))
  BY DEF Fits, DownFits
<1>2. /\ IsSeq(Append(u, frame)) /\ Append(u, frame) # <<>> /\ Len(Append(u, frame)) = Len(u) + 1
      /\ Append(u, frame)[Len(u) + 1] = frame
      /\ \A i \in 1..Len(u) : Append(u, frame)[i] = u[i]
      /\ Len(u) \in Nat /\ (u = <<>> <=> Len(u) = 0)
  BY <1>1, Appended, SeqLen
<1>3. UpFits("send", e, u) /\ IsSeq(d) /\ e \in EndpointAts /\ "put" \in CommandAts /\ "send" \in CommandAts
  BY DEF Fits, CommandAts
<1>4. e # "gone" => \A i \in 1..Len(u) : u[i] # Eof
  BY <1>1 DEF Unended
<1>5. CASE e = "ready"
  <2>1. u # <<>> /\ u[1].type = "request" /\ Body(u, 2) /\ u[1].kind = "put"
    BY <1>1, <1>3, <1>5 DEF UpFits, Asked, Ended
  <2>2. Body(Append(u, frame), 2) /\ (frame # Eof => Unended(Append(u, frame)))
    BY <1>1, <1>4, <1>2, <1>5, <2>1, BodyAppend
  <2>3. Append(u, frame)[1] = u[1]
    BY <1>2, <2>1
  <2>4. UpFits("send", e, Append(u, frame)) /\ UpFits("put", e, Append(u, frame))
    BY <1>5, <2>1, <2>2, <2>3 DEF UpFits, Asked
  <2> QED
    BY <1>1, <1>2, <1>3, <1>5, <2>2, <2>4 DEF Fits, DownFits, EndsIn
<1>6. CASE e = "body"
  <2>1. Body(u, 1)
    BY <1>3, <1>6 DEF UpFits
  <2>2. Body(Append(u, frame), 1) /\ (frame # Eof => Unended(Append(u, frame)))
    BY <1>1, <1>4, <1>6, <2>1, BodyAppend
  <2>4. UpFits("send", e, Append(u, frame)) /\ UpFits("put", e, Append(u, frame))
    BY <1>6, <2>2 DEF UpFits
  <2> QED
    BY <1>1, <1>2, <1>3, <1>6, <2>2, <2>4 DEF Fits, DownFits, EndsIn
<1>7. CASE e = "gone"
  BY <1>1, <1>2, <1>3, <1>7 DEF Fits, UpFits, DownFits
<1> QED
  BY <1>3, <1>5, <1>6, <1>7 DEF UpFits, EndpointAts, Ended

LEMMA FitsAnswered ==
  ASSUME NEW c \in {"query", "listing", "put", "results"}, NEW e, NEW u, NEW d,
         Fits(c, e, u, d), d # <<>>
  PROVE  Fits("next", e, u, Tail(d))
<1>1. IsSeq(u) /\ IsSeq(d) /\ Len(d) = 1 /\ u = <<>> /\ e \in {"ready", "gone"}
  BY DEF Fits, DownFits
<1>2. Tail(d) = <<>> /\ IsSeq(Tail(d))
  BY <1>1, OnlyOne
<1> QED
  BY <1>1, <1>2 DEF Fits, UpFits, DownFits, CommandAts, EndpointAts

LEMMA FitsSupplied ==
  ASSUME NEW e, NEW u, NEW d, Fits("supply", e, u, d), d # <<>>, d[1].type = "response"
  PROVE  Fits("body", e, u, Tail(d))
<1> HIDE DEF Eof, Refusal
<1>1. /\ IsSeq(u) /\ IsSeq(d) /\ u = <<>> /\ Body(d, 2)
      /\ (e = "supply" => Unended(d)) /\ (e = "ready" => EndsIn(d))
      /\ e \in EndpointAts /\ UpFits("supply", e, u)
  BY DEF Fits, DownFits
<1>2. d[1] # Eof
  BY DEF Eof, Frame
<1>3. IsSeq(Tail(d)) /\ Body(Tail(d), 1)
  BY <1>1, Tailed, BodyTail
<1>4. (e = "supply" => Unended(Tail(d))) /\ (e = "ready" => EndsIn(Tail(d)))
  BY <1>1, <1>2, BodyTail
<1>5. UpFits("body", e, u)
  BY <1>1 DEF UpFits, Ended
<1> QED
  BY <1>1, <1>3, <1>4, <1>5 DEF Fits, DownFits, CommandAts

LEMMA FitsTaken ==
  ASSUME NEW e, NEW u, NEW d, Fits("body", e, u, d), d # <<>>
  PROVE  /\ d[1] # Eof => Fits("body", e, u, Tail(d))
         /\ d[1] = Eof => Fits("next", e, u, Tail(d))
<1> HIDE DEF Eof, Refusal
<1>1. /\ IsSeq(u) /\ IsSeq(d) /\ u = <<>> /\ Body(d, 1) /\ Len(d) \in Nat /\ Len(d) >= 1
      /\ (e = "supply" => Unended(d)) /\ (e = "ready" => EndsIn(d))
      /\ e \in EndpointAts /\ UpFits("body", e, u)
  BY Tailed, SeqLen DEF Fits, DownFits
<1>2. Body(d, 2)
  BY <1>1 DEF Body
<1>3. IsSeq(Tail(d)) /\ Body(Tail(d), 1)
  BY <1>1, <1>2, Tailed, BodyTail
<1>4. CASE d[1] # Eof
  <2>1. (e = "supply" => Unended(Tail(d))) /\ (e = "ready" => EndsIn(Tail(d)))
    BY <1>1, <1>2, <1>4, BodyTail
  <2> QED
    BY <1>1, <1>3, <1>4, <2>1 DEF Fits, DownFits, CommandAts
<1>5. CASE d[1] = Eof
  <2>1. Len(d) = 1 /\ e # "supply"
    BY <1>1, <1>5 DEF Body, Unended
  <2>2. Tail(d) = <<>>
    BY <1>1, <2>1, OnlyOne
  <2>3. e \in {"ready", "gone"} /\ UpFits("next", e, u)
    BY <1>1, <2>1 DEF UpFits, Ended, EndpointAts
  <2> QED
    BY <1>1, <1>3, <1>5, <2>2, <2>3 DEF Fits, DownFits, CommandAts
<1> QED
  BY <1>4, <1>5

\* What the endpoint has before it when it waits for a request.
LEMMA Requested ==
  ASSUME NEW c, NEW u, NEW d, Fits(c, "ready", u, d), u # <<>>
  PROVE  /\ u[1].type = "request" /\ Head(u) = u[1] /\ u[1] # Eof
         /\ c \in Ended \/ (Asked(c, u[1].kind) /\ d = <<>>)
         /\ IsSeq(Tail(u)) /\ Body(Tail(u), 1)
         /\ u[1].kind # "put" => Tail(u) = <<>>
<1> HIDE DEF Refusal
<1>1. /\ IsSeq(u) /\ u[1].type = "request" /\ Body(u, 2) /\ (u[1].kind # "put" => Len(u) = 1)
      /\ c \in Ended \/ Asked(c, u[1].kind)
  BY DEF Fits, UpFits
<1>2. u[1] # Eof
  BY <1>1 DEF Eof, Frame
<1>3. c \in Ended \/ d = <<>>
  BY <1>1 DEF Fits, DownFits, Asked
<1>4. IsSeq(Tail(u)) /\ Head(u) = u[1] /\ Body(Tail(u), 1)
  BY <1>1, Tailed, BodyTail
<1>5. u[1].kind # "put" => Tail(u) = <<>>
  BY <1>1, OnlyOne
<1> QED
  BY <1>1, <1>2, <1>3, <1>4, <1>5

LEMMA FitsAnswer ==
  ASSUME NEW c, NEW u, NEW d, Fits(c, "ready", u, d), u # <<>>, u[1].kind \in {"query", "scan", "supply"},
         NEW frame, Answer(frame), u[1].kind = "supply" => frame = Refusal
  PROVE  Fits(c, "ready", Tail(u), Append(d, frame))
<1>1. /\ IsSeq(Tail(u)) /\ Tail(u) = <<>> /\ (c \in Ended \/ (Asked(c, u[1].kind) /\ d = <<>>))
      /\ IsSeq(d) /\ c \in CommandAts
  BY Requested DEF Fits
<1>2. IsSeq(Append(d, frame))
  BY <1>1, Appended
<1>3. CASE c \in Ended
  BY <1>1, <1>2, <1>3 DEF Fits, UpFits, DownFits, Ended, EndpointAts
<1>4. CASE Asked(c, u[1].kind) /\ d = <<>>
  <2>1. Append(d, frame) # <<>> /\ Len(Append(d, frame)) = 1 /\ Append(d, frame)[1] = frame
    BY <1>4, Single
  <2>2. c \in {"query", "listing", "supply"} /\ (c = "supply" => frame = Refusal)
    BY <1>4 DEF Asked
  <2>3. Body(Append(d, frame), 2)
    BY <2>1 DEF Body
  <2>4. Refusal.type # "response"
    BY DEF Refusal, Frame
  <2> HIDE DEF Refusal
  <2> QED
    BY <1>1, <1>2, <2>1, <2>2, <2>3, <2>4 DEF Fits, UpFits, DownFits, EndpointAts
<1> QED
  BY <1>1, <1>3, <1>4

LEMMA FitsBegun ==
  ASSUME NEW c, NEW u, NEW d, Fits(c, "ready", u, d), u # <<>>
  PROVE  /\ u[1].kind = "put" => Fits(c, "body", Tail(u), d)
         /\ u[1].kind = "transition" => Fits(c, "apply", Tail(u), d)
         /\ \A frame : u[1].kind = "supply" /\ frame.type = "response" =>
                         Fits(c, "supply", Tail(u), Append(d, frame))
<1>1. /\ IsSeq(u) /\ IsSeq(d) /\ c \in CommandAts /\ u[1] # Eof /\ Body(u, 2)
      /\ c \in Ended \/ (Asked(c, u[1].kind) /\ d = <<>>)
      /\ IsSeq(Tail(u)) /\ Body(Tail(u), 1)
      /\ u[1].kind # "put" => Tail(u) = <<>>
  BY Requested DEF Fits, UpFits
<1> HIDE DEF Eof
<1>2. ASSUME u[1].kind = "put" PROVE Fits(c, "body", Tail(u), d)
  <2>1. c \in Ended \union {"send", "put"}
    BY <1>1, <1>2 DEF Asked
  <2>2. c = "send" => d = <<>> /\ Unended(Tail(u))
    BY <1>1, BodyTail DEF Fits, DownFits
  <2>3. c = "put" => d = <<>> /\ EndsIn(Tail(u))
    BY <1>1, BodyTail DEF Fits, DownFits, Ended
  <2> QED
    BY <1>1, <2>1, <2>2, <2>3 DEF Fits, UpFits, DownFits, EndpointAts, Ended
<1>3. ASSUME u[1].kind = "transition" PROVE Fits(c, "apply", Tail(u), d)
  BY <1>1, <1>3 DEF Fits, UpFits, DownFits, EndpointAts, Ended, Asked
<1>4. ASSUME NEW frame, u[1].kind = "supply", frame.type = "response"
      PROVE  Fits(c, "supply", Tail(u), Append(d, frame))
  <2>1. IsSeq(Append(d, frame))
    BY <1>1, Appended
  <2>2. CASE c \in Ended
    BY <1>1, <1>4, <2>1, <2>2 DEF Fits, UpFits, DownFits, EndpointAts, Ended
  <2>3. CASE Asked(c, u[1].kind) /\ d = <<>>
    <3>1. Append(d, frame) # <<>> /\ Len(Append(d, frame)) = 1 /\ Append(d, frame)[1] = frame
      BY <2>3, Single
    <3>2. c = "supply"
      BY <1>4, <2>3 DEF Asked
    <3>3. frame # Eof /\ frame # Refusal
      BY <1>4 DEF Eof, Refusal, Frame
    <3>4. Body(Append(d, frame), 2) /\ Unended(Append(d, frame))
      BY <3>1, <3>3 DEF Body, Unended
    <3> HIDE DEF Refusal
    <3> QED
      BY <1>1, <1>4, <2>1, <3>1, <3>2, <3>3, <3>4 DEF Fits, UpFits, DownFits, EndpointAts, Answer
  <2> QED
    BY <1>1, <2>2, <2>3
<1> QED
  BY <1>2, <1>3, <1>4

LEMMA FitsReceived ==
  ASSUME NEW c, NEW u, NEW d, Fits(c, "body", u, d), u # <<>>
  PROVE  /\ u[1] # Eof => Fits(c, "body", Tail(u), d)
         /\ \A frame : u[1] = Eof /\ Answer(frame) => Fits(c, "ready", Tail(u), Append(d, frame))
<1> HIDE DEF Eof, Refusal
<1>1. /\ IsSeq(u) /\ IsSeq(d) /\ c \in CommandAts /\ Body(u, 1) /\ c \in Ended \union {"send", "put"}
      /\ c = "send" => d = <<>> /\ Unended(u)
      /\ c = "put" => d = <<>> /\ EndsIn(u)
  BY DEF Fits, UpFits, DownFits, Ended
<1>2. Body(u, 2) /\ Len(u) \in Nat /\ Len(u) >= 1
  BY <1>1, SeqLen DEF Body
<1>3. IsSeq(Tail(u)) /\ Body(Tail(u), 1) /\ (Unended(u) => Unended(Tail(u)))
      /\ (EndsIn(u) /\ u[1] # Eof => EndsIn(Tail(u)))
  BY <1>1, <1>2, Tailed, BodyTail
<1>4. ASSUME u[1] # Eof PROVE Fits(c, "body", Tail(u), d)
  BY <1>1, <1>3, <1>4 DEF Fits, UpFits, DownFits, EndpointAts, Ended
<1>5. ASSUME NEW frame, u[1] = Eof, Answer(frame)
      PROVE  Fits(c, "ready", Tail(u), Append(d, frame))
  <2>1. Len(u) = 1 /\ c # "send"
    <3>1. 1 \in 1..Len(u)
      BY <1>2
    <3>2. Len(u) = 1
      BY <1>1, <1>5, <3>1 DEF Body
    <3>3. c # "send"
      BY <1>1, <1>5, <3>1 DEF Unended
    <3> QED
      BY <3>2, <3>3
  <2>2. Tail(u) = <<>> /\ IsSeq(Append(d, frame))
    BY <1>1, <2>1, OnlyOne, Appended
  <2>3. CASE c \in Ended
    BY <1>1, <1>3, <2>2, <2>3 DEF Fits, UpFits, DownFits, EndpointAts, Ended
  <2>4. CASE c = "put"
    <3>1. Append(d, frame) # <<>> /\ Len(Append(d, frame)) = 1 /\ Append(d, frame)[1] = frame
      BY <1>1, <2>4, Single
    <3> QED
      BY <1>1, <1>3, <1>5, <2>2, <2>4, <3>1 DEF Fits, UpFits, DownFits, EndpointAts
  <2> QED
    BY <1>1, <2>1, <2>3, <2>4
<1> QED
  BY <1>4, <1>5

LEMMA FitsApplied ==
  ASSUME NEW c, NEW u, NEW d, Fits(c, "apply", u, d), NEW frame, frame.type = "response"
  PROVE  Fits(c, "ready", u, Append(d, frame))
<1>1. /\ IsSeq(u) /\ IsSeq(d) /\ c \in CommandAts /\ u = <<>> /\ c \in Ended \union {"results"}
      /\ c = "results" => d = <<>>
  BY DEF Fits, UpFits, DownFits
<1>2. IsSeq(Append(d, frame))
  BY <1>1, Appended
<1>3. CASE c \in Ended
  BY <1>1, <1>2, <1>3 DEF Fits, UpFits, DownFits, EndpointAts, Ended
<1>4. CASE c = "results"
  <2>1. Append(d, frame) # <<>> /\ Len(Append(d, frame)) = 1 /\ Append(d, frame)[1] = frame
    BY <1>1, <1>4, Single
  <2> QED
    BY <1>1, <1>2, <1>4, <2>1 DEF Fits, UpFits, DownFits, EndpointAts, Answer
<1> QED
  BY <1>1, <1>3, <1>4

LEMMA FitsSupplying ==
  ASSUME NEW c, NEW u, NEW d, Fits(c, "supply", u, d), NEW frame, frame.type = "chunk"
  PROVE  /\ frame # Eof => Fits(c, "supply", u, Append(d, frame))
         /\ frame = Eof => Fits(c, "ready", u, Append(d, frame))
<1>1. /\ IsSeq(u) /\ IsSeq(d) /\ c \in CommandAts /\ u = <<>> /\ c \in Ended \union {"supply", "body"}
  BY DEF Fits, UpFits
<1>2. /\ IsSeq(Append(d, frame)) /\ Append(d, frame) # <<>> /\ Len(Append(d, frame)) = Len(d) + 1
      /\ Append(d, frame)[Len(d) + 1] = frame /\ Len(d) \in Nat
      /\ \A i \in 1..Len(d) : Append(d, frame)[i] = d[i]
      /\ (d = <<>> <=> Len(d) = 0)
  BY <1>1, Appended, SeqLen
<1>3. CASE c \in Ended
  BY <1>1, <1>2, <1>3 DEF Fits, UpFits, DownFits, EndpointAts, Ended
<1>4. CASE c = "supply"
  <2>1. d # <<>> /\ d[1].type = "response" /\ Body(d, 2) /\ Unended(d)
    BY <1>4 DEF Fits, DownFits, Answer
  <2>2. \A i \in 2..Len(d) : d[i] # Eof
    BY <1>2, <2>1 DEF Unended
  <2> HIDE DEF Eof
  <2>3. /\ Body(Append(d, frame), 2) /\ (frame # Eof => Unended(Append(d, frame)))
        /\ (frame = Eof => EndsIn(Append(d, frame)))
    BY <1>1, <2>1, <2>2, BodyAppend
  <2>4. Append(d, frame)[1] = d[1] /\ d[1] # Refusal
    BY <1>2, <2>1 DEF Refusal, Frame
  <2> HIDE DEF Refusal
  <2> QED
    BY <1>1, <1>2, <1>4, <2>1, <2>3, <2>4 DEF Fits, UpFits, DownFits, EndpointAts, Answer
<1>5. CASE c = "body"
  <2>1. Body(d, 1) /\ Unended(d)
    BY <1>5 DEF Fits, DownFits
  <2>2. \A i \in 1..Len(d) : d[i] # Eof
    BY <2>1 DEF Unended
  <2> HIDE DEF Eof
  <2>3. /\ Body(Append(d, frame), 1) /\ (frame # Eof => Unended(Append(d, frame)))
        /\ (frame = Eof => EndsIn(Append(d, frame)))
    BY <1>1, <2>1, <2>2, BodyAppend
  <2> QED
    BY <1>1, <1>2, <1>5, <2>3 DEF Fits, UpFits, DownFits, EndpointAts
<1> QED
  BY <1>1, <1>3, <1>4, <1>5

-----------------------------------------------------------------------------
\* Steps, one by one.  What a step of a copy leaves to the other copies.
Others(p) ==
  \A q \in Copies \ {p} :
    /\ client'[q] = client[q] /\ linked'[q] = linked[q] /\ endpoint'[q].at = endpoint[q].at
    /\ up'[q] = up[q] /\ down'[q] = down[q]

FitsNow(p) == Fits(client[p].at, endpoint[p].at, up[p], down[p])

\* A function that is another one but for one of its values.
Differs(g, f, p, x) == DOMAIN g = DOMAIN f /\ g[p] = x /\ \A q \in DOMAIN f \ {p} : g[q] = f[q]

LEMMA Differing ==
  ASSUME NEW f, NEW p \in DOMAIN f, NEW g
  PROVE  /\ g = f => Differs(g, f, p, f[p])
         /\ \A x : g = [f EXCEPT ![p] = x] => Differs(g, f, p, x)
BY DEF Differs

LEMMA OneCopy ==
  ASSUME StepInv, NEW p \in Copies, Shapes', Others(p), FitsNow(p)'
  PROVE  StepInv'
BY DEF StepInv, Others, FitsNow

\* The command's part of a step: it turns to another place, and may write a
\* frame, take one or let its connection go.
LEMMA CommandMoves ==
  ASSUME StepInv, NEW p \in Copies, NEW c, Turn(p, c),
         DOMAIN c = {"at", "todo", "name", "size", "body"}, c.at # "dial",
         endpoint' = endpoint,
         linked' = linked \/ linked' = [linked EXCEPT ![p] = FALSE],
         NEW u, Differs(up', up, p, u), NEW d, Differs(down', down, p, d),
         Fits(c.at, endpoint[p].at, u, d)
  PROVE  StepInv'
<1>1. Shapes
  BY DEF StepInv
<1>2. client'[p] = c /\ up'[p] = u /\ down'[p] = d
  BY <1>1 DEF Shapes, Turn, Differs
<1>3. Shapes'
  BY <1>1, <1>2 DEF Shapes, Turn, At, Differs
<1>4. Others(p)
  <2> SUFFICES ASSUME NEW q \in Copies \ {p}
               PROVE /\ client'[q] = client[q] /\ linked'[q] = linked[q]
                     /\ endpoint'[q].at = endpoint[q].at /\ up'[q] = up[q] /\ down'[q] = down[q]
    BY DEF Others
  <2> QED
    BY <1>1 DEF Shapes, Turn, Differs
<1> QED
  BY <1>2, <1>3, <1>4, OneCopy DEF FitsNow

\* The endpoint's part of a step.
LEMMA EndpointMoves ==
  ASSUME StepInv, NEW p \in Copies, NEW e, Differs(endpoint', endpoint, p, e),
         DOMAIN e = {"at", "name", "size", "body", "put", "todo", "failed"},
         client' = client, linked' = linked,
         NEW u, Differs(up', up, p, u), NEW d, Differs(down', down, p, d),
         Fits(client[p].at, e.at, u, d)
  PROVE  StepInv'
<1>1. Shapes
  BY DEF StepInv
<1>2. endpoint'[p] = e /\ up'[p] = u /\ down'[p] = d
  BY <1>1 DEF Shapes, Differs
<1>3. Shapes'
  BY <1>1, <1>2 DEF Shapes, At, Differs
<1>4. Others(p)
  <2> SUFFICES ASSUME NEW q \in Copies \ {p}
               PROVE /\ client'[q] = client[q] /\ linked'[q] = linked[q]
                     /\ endpoint'[q].at = endpoint[q].at /\ up'[q] = up[q] /\ down'[q] = down[q]
    BY DEF Others
  <2> QED
    BY <1>1 DEF Shapes, Differs
<1> QED
  BY <1>2, <1>3, <1>4, OneCopy DEF FitsNow

LEMMA Kinds ==
  /\ \A kind, name, size, names : /\ Request(kind, name, size, names).type = "request"
                                 /\ Request(kind, name, size, names).kind = kind
                                 /\ Response(kind, name, size, names).type = "response"
  /\ \A x : Chunk(x).type = "chunk" /\ Chunk(x) # Eof
  /\ Eof.type = "chunk" /\ Answer(Refusal)
BY DEF Request, Response, Frame, Chunk, Eof, Refusal, Answer

LEMMA Clients ==
  \A at : /\ Client(at).at = at
          /\ DOMAIN Client(at) = {"at", "todo", "name", "size", "body"}
          /\ \A todo : /\ [Client(at) EXCEPT !.todo = todo].at = at
                       /\ DOMAIN [Client(at) EXCEPT !.todo = todo] = {"at", "todo", "name", "size", "body"}
BY DEF Client

\* A command that gives up or is done.
LEMMA Gives ==
  ASSUME StepInv, NEW p \in Copies, NEW at \in Ended, Give(p, at), endpoint' = endpoint,
         NEW d, Differs(down', down, p, d), IsSeq(d)
  PROVE  StepInv'
<1>1. Turn(p, Client(at)) /\ linked' = [linked EXCEPT ![p] = FALSE] /\ up' = up
  BY DEF Give
<1>2. p \in DOMAIN up /\ Fits(client[p].at, endpoint[p].at, up[p], down[p])
  BY DEF StepInv, Shapes
<1>3. Differs(up', up, p, up[p])
  BY <1>1, <1>2, Differing
<1>4. Fits(at, endpoint[p].at, up[p], d)
  BY <1>2, FitsGiven
<1>5. Client(at).at = at /\ DOMAIN Client(at) = {"at", "todo", "name", "size", "body"} /\ at # "dial"
  BY Clients DEF Ended
<1> QED
  BY <1>1, <1>3, <1>4, <1>5, CommandMoves

\* What a step starts from.
LEMMA Setting ==
  ASSUME StepInv, NEW p \in Copies
  PROVE  /\ Fits(client[p].at, endpoint[p].at, up[p], down[p])
         /\ p \in DOMAIN up /\ p \in DOMAIN down /\ p \in DOMAIN client /\ p \in DOMAIN endpoint
         /\ DOMAIN client[p] = {"at", "todo", "name", "size", "body"}
         /\ DOMAIN endpoint[p] = {"at", "name", "size", "body", "put", "todo", "failed"}
         /\ IsSeq(up[p]) /\ IsSeq(down[p])
         /\ down[p] # <<>> => Head(down[p]) = down[p][1] /\ IsSeq(Tail(down[p]))
         /\ up[p] # <<>> => Head(up[p]) = up[p][1] /\ IsSeq(Tail(up[p]))
BY Tailed DEF StepInv, Shapes, Fits

LEMMA OpenFits ==
  ASSUME StepInv, NEW p \in Copies, OpenCopy(p)
  PROVE  StepInv'
<1>1. /\ Fits("dial", endpoint[p].at, up[p], down[p]) /\ client[p].at = "dial"
      /\ up' = up /\ down' = down /\ Shapes
  BY Setting DEF OpenCopy, At, StepInv
<1>2. endpoint[p].at = "gone" /\ up[p] = <<>> /\ down[p] = <<>>
  BY <1>1 DEF Fits, DownFits
<1>3. CASE /\ Turn(p, Client("scan"))
           /\ linked' = [linked EXCEPT ![p] = TRUE]
           /\ endpoint' = [CollectStale EXCEPT ![p] = Endpoint("ready")]
  <2>1. DOMAIN CollectStale = Copies /\ DOMAIN endpoint' = Copies
    BY <1>3 DEF CollectStale
  <2>2. \A q \in Copies : CollectStale[q].at = endpoint[q].at
                        /\ DOMAIN CollectStale[q] = DOMAIN endpoint[q]
    BY <1>1 DEF CollectStale, Shapes
  <2>3. endpoint'[p] = Endpoint("ready") /\ client'[p] = Client("scan")
    BY <1>1, <1>3, <2>1 DEF Shapes, Turn
  <2>4. \A q \in Copies \ {p} : endpoint'[q] = CollectStale[q] /\ client'[q] = client[q] /\ linked'[q] = linked[q]
    BY <1>1, <1>3, <2>1 DEF Shapes, Turn
  <2>5. Shapes'
    BY <1>1, <1>3, <2>1, <2>2, <2>3, <2>4 DEF Shapes, Turn, Client, Endpoint, At
  <2>6. Others(p)
    BY <1>1, <2>2, <2>4 DEF Others
  <2>7. client'[p].at = "scan" /\ endpoint'[p].at = "ready" /\ up'[p] = <<>> /\ down'[p] = <<>>
    BY <1>1, <1>2, <2>3 DEF Client, Endpoint
  <2>8. FitsNow(p)'
    BY <2>7, EmptyIs DEF FitsNow, Fits, UpFits, DownFits, CommandAts, EndpointAts
  <2> QED
    BY <2>5, <2>6, <2>8, OneCopy
<1>4. CASE Turn(p, Client("failed")) /\ linked' = linked /\ endpoint' = endpoint
  <2>1. Differs(up', up, p, <<>>) /\ Differs(down', down, p, <<>>)
    BY <1>1, <1>2, Setting, Differing
  <2>2. Fits("failed", endpoint[p].at, <<>>, <<>>)
    BY <1>1, <1>2, FitsGiven, EmptyIs DEF Ended
  <2> QED
    BY <1>4, <2>1, <2>2, Clients, CommandMoves
<1> QED
  BY <1>3, <1>4 DEF OpenCopy

LEMMA ScanFits ==
  ASSUME StepInv, NEW p \in Copies, StartScan(p)
  PROVE  StepInv'
<1>1. /\ Fits("scan", endpoint[p].at, up[p], down[p])
      /\ down' = down /\ endpoint' = endpoint /\ linked' = linked
  BY Setting DEF StartScan, At, OnlyClient
<1>2. Differs(down', down, p, down[p])
  BY <1>1, Setting, Differing
<1>3. CASE Turn(p, Client("next")) /\ up' = up
  <2>1. Differs(up', up, p, up[p])
    BY <1>3, Setting, Differing
  <2>2. Fits("next", endpoint[p].at, up[p], down[p])
    BY <1>1, FitsNext
  <2> QED
    BY <1>1, <1>2, <1>3, <2>1, <2>2, Clients, CommandMoves
<1>4. ASSUME NEW at \in {"query", "listing"}, NEW frame, Turn(p, Client(at)), WriteUp(p, frame),
             frame.type = "request", Asked(at, frame.kind)
      PROVE  StepInv'
  <2>1. Differs(up', up, p, Append(up[p], frame))
    BY <1>4, Setting, Differing DEF WriteUp
  <2>2. Fits(at, endpoint[p].at, Append(up[p], frame), down[p])
    BY <1>1, <1>4, FitsAsk
  <2>3. at # "dial"
    OBVIOUS
  <2> QED
    BY <1>1, <1>2, <1>4, <2>1, <2>2, <2>3, Clients, CommandMoves
<1>5. CASE job[p] = "push"
  <2>1. \A names : /\ Request("query", NoFile, 0, names).type = "request"
                    /\ Asked("query", Request("query", NoFile, 0, names).kind)
    BY Kinds DEF Asked
  <2> QED
    BY <1>3, <1>4, <1>5, <2>1 DEF StartScan
<1>6. CASE job[p] = "pull"
  <2>1. /\ Request("scan", NoFile, 0, {}).type = "request"
        /\ Asked("listing", Request("scan", NoFile, 0, {}).kind)
    BY Kinds DEF Asked
  <2> QED
    BY <1>4, <1>6, <2>1 DEF StartScan
<1> QED
  BY <1>5, <1>6 DEF StartScan

\* The steps that take an answer.
LEMMA TakingFits ==
  ASSUME StepInv, NEW p \in Copies, ReadDown(p), down[p] # <<>>, endpoint' = endpoint,
         \/ \E at \in Ended : Give(p, at)
         \/ /\ linked' = linked /\ up' = up
            /\ \E c : /\ Turn(p, c) /\ DOMAIN c = {"at", "todo", "name", "size", "body"}
                      /\ c.at # "dial" /\ Fits(c.at, endpoint[p].at, up[p], Tail(down[p]))
  PROVE  StepInv'
<1>1. Differs(down', down, p, Tail(down[p])) /\ IsSeq(Tail(down[p]))
  BY Setting, Differing DEF ReadDown
<1>2. CASE \E at \in Ended : Give(p, at)
  BY <1>1, <1>2, Gives
<1>3. ASSUME linked' = linked, up' = up, NEW c, Turn(p, c),
             DOMAIN c = {"at", "todo", "name", "size", "body"}, c.at # "dial",
             Fits(c.at, endpoint[p].at, up[p], Tail(down[p]))
      PROVE  StepInv'
  <2>1. Differs(up', up, p, up[p])
    BY <1>3, Setting, Differing
  <2> QED
    BY <1>1, <1>3, <2>1, CommandMoves
<1> QED
  BY <1>2, <1>3

LEMMA AnswersFit ==
  ASSUME StepInv, NEW p \in Copies,
         TakeMissing(p) \/ TakeListing(p) \/ TakePut(p) \/ TakeResults(p)
  PROVE  StepInv'
<1>1. /\ ReadDown(p) /\ down[p] # <<>> /\ endpoint' = endpoint
      /\ client[p].at \in {"query", "listing", "put", "results"}
  BY DEF TakeMissing, TakeListing, TakePut, TakeResults, At, Answered, OnlyClient
<1>2. Fits("next", endpoint[p].at, up[p], Tail(down[p]))
  BY <1>1, Setting, FitsAnswered
<1>3. \/ \E at \in Ended : Give(p, at)
      \/ /\ linked' = linked /\ up' = up
         /\ \E todo : Turn(p, [Client("next") EXCEPT !.todo = todo])
  BY DEF TakeMissing, TakeListing, TakePut, TakeResults, OnlyClient, Ended
<1>4. \A todo : /\ DOMAIN [Client("next") EXCEPT !.todo = todo] = {"at", "todo", "name", "size", "body"}
                /\ [Client("next") EXCEPT !.todo = todo].at = "next"
  BY Clients
<1>5. \/ \E at \in Ended : Give(p, at)
      \/ /\ linked' = linked /\ up' = up
         /\ \E c : /\ Turn(p, c) /\ DOMAIN c = {"at", "todo", "name", "size", "body"}
                   /\ c.at # "dial" /\ Fits(c.at, endpoint[p].at, up[p], Tail(down[p]))
  <2>1. CASE \E at \in Ended : Give(p, at)
    BY <2>1
  <2>2. CASE /\ linked' = linked /\ up' = up
             /\ \E todo : Turn(p, [Client("next") EXCEPT !.todo = todo])
    <3>1. PICK todo : Turn(p, [Client("next") EXCEPT !.todo = todo])
      BY <2>2
    <3> DEFINE c == [Client("next") EXCEPT !.todo = todo]
    <3>2. Turn(p, c) /\ DOMAIN c = {"at", "todo", "name", "size", "body"} /\ c.at = "next"
      BY <3>1, <1>4
    <3> HIDE DEF c
    <3>3. c.at # "dial" /\ Fits(c.at, endpoint[p].at, up[p], Tail(down[p]))
      BY <3>2, <1>2
    <3> QED
      BY <2>2, <3>2, <3>3
  <2> QED
    BY <1>3, <2>1, <2>2
<1> QED
  BY <1>1, <1>5, TakingFits

LEMMA TakeSupplyFits ==
  ASSUME StepInv, NEW p \in Copies, TakeSupply(p)
  PROVE  StepInv'
<1>1. /\ ReadDown(p) /\ down[p] # <<>> /\ endpoint' = endpoint /\ linked' = linked /\ up' = up
      /\ client[p].at = "supply" /\ Head(down[p]).kind = "supply"
  BY DEF TakeSupply, At, Answered, OnlyClient
<1>2. Fits("supply", endpoint[p].at, up[p], down[p]) /\ Head(down[p]) = down[p][1]
  BY <1>1, Setting
<1>3. down[p][1].type = "response"
  <2>1. Refusal.kind # "supply"
    BY DEF Refusal, Frame
  <2> HIDE DEF Refusal
  <2> QED
    BY <1>1, <1>2, <2>1 DEF Fits, DownFits, Answer
<1>4. Fits("body", endpoint[p].at, up[p], Tail(down[p]))
  BY <1>1, <1>2, <1>3, FitsSupplied
<1> DEFINE c == [client[p] EXCEPT !.at = "body", !.size = Head(down[p]).size, !.body = <<>>]
<1>5. Turn(p, c) /\ DOMAIN c = {"at", "todo", "name", "size", "body"} /\ c.at = "body"
  BY Setting DEF TakeSupply
<1> HIDE DEF c
<1>6. c.at # "dial" /\ Fits(c.at, endpoint[p].at, up[p], Tail(down[p]))
  BY <1>4, <1>5
<1> QED
  BY <1>1, <1>5, <1>6, TakingFits

LEMMA TakeChunkFits ==
  ASSUME StepInv, NEW p \in Copies, TakeChunk(p)
  PROVE  StepInv'
<1>1. /\ ReadDown(p) /\ down[p] # <<>> /\ endpoint' = endpoint /\ client[p].at = "body"
  BY DEF TakeChunk, At, OnlyClient
<1>2. Fits("body", endpoint[p].at, up[p], down[p]) /\ Head(down[p]) = down[p][1]
      /\ DOMAIN client[p] = {"at", "todo", "name", "size", "body"}
  BY <1>1, Setting
<1>3. /\ down[p][1] # Eof => Fits("body", endpoint[p].at, up[p], Tail(down[p]))
      /\ down[p][1] = Eof => Fits("next", endpoint[p].at, up[p], Tail(down[p]))
  BY <1>1, <1>2, FitsTaken
<1>4. CASE Head(down[p]) = Eof
  <2> DEFINE c == [Client("next") EXCEPT !.todo = client[p].todo \ {client[p].name}]
  <2>1. Turn(p, c) /\ linked' = linked /\ up' = up
    BY <1>4 DEF TakeChunk
  <2>2. DOMAIN c = {"at", "todo", "name", "size", "body"} /\ c.at = "next"
    BY Clients
  <2> HIDE DEF c
  <2>3. c.at # "dial" /\ Fits(c.at, endpoint[p].at, up[p], Tail(down[p]))
    BY <1>2, <1>3, <1>4, <2>2
  <2> QED
    BY <1>1, <2>1, <2>2, <2>3, TakingFits
<1>5. CASE Head(down[p]) # Eof
  <2> DEFINE c == [client[p] EXCEPT !.body = Append(client[p].body, Head(down[p]).size)]
  <2>1. Give(p, "failed") \/ (Turn(p, c) /\ linked' = linked /\ up' = up)
    BY <1>5 DEF TakeChunk
  <2>2. DOMAIN c = {"at", "todo", "name", "size", "body"} /\ c.at = "body"
    BY <1>1, <1>2
  <2> HIDE DEF c
  <2>3. c.at # "dial" /\ Fits(c.at, endpoint[p].at, up[p], Tail(down[p]))
    BY <1>2, <1>3, <1>5, <2>2
  <2>4. "failed" \in Ended
    BY DEF Ended
  <2> QED
    BY <1>1, <2>1, <2>2, <2>3, <2>4, TakingFits
<1> QED
  BY <1>4, <1>5

LEMMA LoseFits ==
  ASSUME StepInv, NEW p \in Copies, Lose(p)
  PROVE  StepInv'
<1>1. /\ Give(p, "failed") /\ "failed" \in Ended /\ endpoint' = endpoint
      /\ (down[p] # <<>> /\ ReadDown(p)) \/ down' = down
  BY DEF Lose, OnlyClient, Ended
<1>2. CASE down[p] # <<>> /\ ReadDown(p)
  BY <1>1, <1>2, TakingFits
<1>3. CASE down' = down
  <2>1. Differs(down', down, p, down[p]) /\ IsSeq(down[p])
    BY <1>3, Setting, Differing
  <2> QED
    BY <1>1, <2>1, Gives
<1> QED
  BY <1>1, <1>2, <1>3

\* The steps that write to the endpoint.
LEMMA WritingFits ==
  ASSUME StepInv, NEW p \in Copies, down' = down, endpoint' = endpoint,
         \/ \E at \in Ended : Give(p, at)
         \/ /\ linked' = linked
            /\ \E c, frame : /\ Turn(p, c) /\ DOMAIN c = {"at", "todo", "name", "size", "body"}
                             /\ c.at # "dial" /\ WriteUp(p, frame)
                             /\ Fits(c.at, endpoint[p].at, Append(up[p], frame), down[p])
  PROVE  StepInv'
<1>1. Differs(down', down, p, down[p]) /\ IsSeq(down[p])
  BY Setting, Differing
<1>2. CASE \E at \in Ended : Give(p, at)
  BY <1>1, <1>2, Gives
<1>3. ASSUME linked' = linked, NEW c, NEW frame, Turn(p, c),
             DOMAIN c = {"at", "todo", "name", "size", "body"}, c.at # "dial", WriteUp(p, frame),
             Fits(c.at, endpoint[p].at, Append(up[p], frame), down[p])
      PROVE  StepInv'
  <2>1. Differs(up', up, p, Append(up[p], frame))
    BY <1>3, Setting, Differing DEF WriteUp
  <2> QED
    BY <1>1, <1>3, <2>1, CommandMoves
<1> QED
  BY <1>2, <1>3

LEMMA NextPutFits ==
  ASSUME StepInv, NEW p \in Copies, NextPut(p)
  PROVE  StepInv'
<1>1. /\ endpoint' = endpoint /\ down' = down /\ client[p].at = "next" /\ "failed" \in Ended
      /\ Fits("next", endpoint[p].at, up[p], down[p])
      /\ DOMAIN client[p] = {"at", "todo", "name", "size", "body"}
  BY Setting DEF NextPut, At, OnlyClient, Ended
<1>2. CASE Give(p, "failed")
  BY <1>1, <1>2, WritingFits
<1>3. ASSUME NEW digest, NEW f, WriteUp(p, Request("put", digest, Len(here[f]), {})),
             Turn(p, [client[p] EXCEPT !.at = "send", !.name = digest,
                        !.size = Len(here[f]), !.body = <<>>]),
             linked' = linked
      PROVE  StepInv'
  <2> DEFINE c == [client[p] EXCEPT !.at = "send", !.name = digest, !.size = Len(here[f]), !.body = <<>>]
             frame == Request("put", digest, Len(here[f]), {})
  <2>1. Turn(p, c) /\ DOMAIN c = {"at", "todo", "name", "size", "body"} /\ c.at = "send" /\ WriteUp(p, frame)
    BY <1>1, <1>3
  <2>2. frame.type = "request" /\ Asked("send", frame.kind)
    BY Kinds DEF Asked
  <2> HIDE DEF c, frame
  <2>3. c.at # "dial" /\ Fits(c.at, endpoint[p].at, Append(up[p], frame), down[p])
    BY <1>1, <2>1, <2>2, FitsAsk
  <2> QED
    BY <1>1, <1>3, <2>1, <2>3, WritingFits
<1>4. CASE /\ WriteUp(p, Request("transition", NoFile, 0, {}))
           /\ Turn(p, Client("results")) /\ linked' = linked
  <2> DEFINE frame == Request("transition", NoFile, 0, {})
             c == Client("results")
  <2>1. frame.type = "request" /\ Asked("results", frame.kind)
    BY Kinds DEF Asked
  <2>2. c.at = "results" /\ DOMAIN c = {"at", "todo", "name", "size", "body"} /\ Turn(p, c) /\ WriteUp(p, frame)
    BY <1>4, Clients
  <2> HIDE DEF frame, c
  <2>3. c.at # "dial" /\ Fits(c.at, endpoint[p].at, Append(up[p], frame), down[p])
    BY <1>1, <2>1, <2>2, FitsAsk
  <2> QED
    BY <1>1, <1>4, <2>2, <2>3, WritingFits
<1>5. CASE /\ client[p].todo = {}
           /\ WriteUp(p, Request("transition", NoFile, 0, {}))
           /\ Turn(p, Client("results")) /\ UNCHANGED <<linked, kept>>
  BY <1>4, <1>5
<1> QED
  BY <1>2, <1>3, <1>5 DEF NextPut

LEMMA NextSupplyFits ==
  ASSUME StepInv, NEW p \in Copies, NextSupply(p)
  PROVE  StepInv'
<1>1. /\ endpoint' = endpoint /\ down' = down /\ client[p].at = "next" /\ "done" \in Ended
      /\ Fits("next", endpoint[p].at, up[p], down[p])
      /\ DOMAIN client[p] = {"at", "todo", "name", "size", "body"}
  BY Setting DEF NextSupply, At, OnlyClient, Ended
<1>2. CASE Give(p, "done")
  BY <1>1, <1>2, WritingFits
<1>3. ASSUME NEW f, WriteUp(p, Request("supply", f, 0, {})),
             Turn(p, [client[p] EXCEPT !.at = "supply", !.name = f]), linked' = linked
      PROVE  StepInv'
  <2> DEFINE c == [client[p] EXCEPT !.at = "supply", !.name = f]
             frame == Request("supply", f, 0, {})
  <2>1. Turn(p, c) /\ DOMAIN c = {"at", "todo", "name", "size", "body"} /\ c.at = "supply" /\ WriteUp(p, frame)
    BY <1>1, <1>3
  <2>2. frame.type = "request" /\ Asked("supply", frame.kind)
    BY Kinds DEF Asked
  <2> HIDE DEF c, frame
  <2>3. c.at # "dial" /\ Fits(c.at, endpoint[p].at, Append(up[p], frame), down[p])
    BY <1>1, <2>1, <2>2, FitsAsk
  <2> QED
    BY <1>1, <1>3, <2>1, <2>3, WritingFits
<1> QED
  BY <1>2, <1>3 DEF NextSupply

LEMMA SendFits ==
  ASSUME StepInv, NEW p \in Copies, SendChunk(p)
  PROVE  StepInv'
<1>1. /\ endpoint' = endpoint /\ down' = down /\ client[p].at = "send" /\ "failed" \in Ended
      /\ Fits("send", endpoint[p].at, up[p], down[p])
      /\ DOMAIN client[p] = {"at", "todo", "name", "size", "body"}
  BY Setting DEF SendChunk, At, OnlyClient, Ended
<1>2. CASE Give(p, "failed")
  BY <1>1, <1>2, WritingFits
<1>3. CASE WriteUp(p, Eof) /\ Turn(p, [client[p] EXCEPT !.at = "put"]) /\ linked' = linked
  <2> DEFINE c == [client[p] EXCEPT !.at = "put"]
  <2>1. Turn(p, c) /\ DOMAIN c = {"at", "todo", "name", "size", "body"} /\ c.at = "put"
    BY <1>1, <1>3
  <2> HIDE DEF c
  <2>2. c.at # "dial" /\ Fits(c.at, endpoint[p].at, Append(up[p], Eof), down[p])
    BY <1>1, <2>1, Kinds, FitsSend
  <2> QED
    BY <1>1, <1>3, <2>1, <2>2, WritingFits
<1>4. ASSUME NEW x, WriteUp(p, Chunk(x)), linked' = linked,
             Turn(p, [client[p] EXCEPT !.body = Append(client[p].body, x)])
      PROVE  StepInv'
  <2> DEFINE c == [client[p] EXCEPT !.body = Append(client[p].body, x)]
             frame == Chunk(x)
  <2>1. Turn(p, c) /\ DOMAIN c = {"at", "todo", "name", "size", "body"} /\ c.at = "send" /\ WriteUp(p, frame)
    BY <1>1, <1>4
  <2>2. frame.type = "chunk" /\ frame # Eof
    BY Kinds
  <2> HIDE DEF c, frame
  <2>3. c.at # "dial" /\ Fits(c.at, endpoint[p].at, Append(up[p], frame), down[p])
    BY <1>1, <2>1, <2>2, FitsSend
  <2> QED
    BY <1>1, <1>4, <2>1, <2>3, WritingFits
<1> QED
  BY <1>2, <1>3, <1>4 DEF SendChunk

-----------------------------------------------------------------------------
\* The endpoint's steps.
LEMMA Endpoints ==
  \A at : Endpoint(at).at = at
          /\ DOMAIN Endpoint(at) = {"at", "name", "size", "body", "put", "todo", "failed"}
BY DEF Endpoint

LEMMA EndpointWrites ==
  ASSUME StepInv, NEW p \in Copies, client' = client, linked' = linked,
         up' = up \/ (up[p] # <<>> /\ ReadUp(p)),
         down' = down \/ \E frame : WriteDown(p, frame),
         endpoint' = endpoint \/ \E e : Become(p, e) /\ DOMAIN e = {"at", "name", "size", "body", "put", "todo", "failed"},
         Fits(client[p].at, endpoint'[p].at, up'[p], down'[p])
  PROVE  StepInv'
<1>1. Differs(up', up, p, up'[p])
  <2>1. CASE up' = up
    BY <2>1, Setting, Differing
  <2>2. CASE ReadUp(p)
    BY <2>2, Setting DEF ReadUp, Differs
  <2> QED
    BY <2>1, <2>2
<1>2. Differs(down', down, p, down'[p])
  <2>1. CASE down' = down
    BY <2>1, Setting, Differing
  <2>2. CASE \E frame : WriteDown(p, frame)
    BY <2>2, Setting DEF WriteDown, Differs
  <2> QED
    BY <2>1, <2>2
<1>3. Differs(endpoint', endpoint, p, endpoint'[p])
      /\ DOMAIN endpoint'[p] = {"at", "name", "size", "body", "put", "todo", "failed"}
  <2>1. CASE endpoint' = endpoint
    BY <2>1, Setting, Differing
  <2>2. CASE \E e : Become(p, e) /\ DOMAIN e = {"at", "name", "size", "body", "put", "todo", "failed"}
    BY <2>2, Setting DEF Become, Differs
  <2> QED
    BY <2>1, <2>2
<1> QED
  BY <1>1, <1>2, <1>3, EndpointMoves

LEMMA AnswerFits ==
  ASSUME StepInv, NEW p \in Copies, AnswerQuery(p) \/ AnswerScan(p)
  PROVE  StepInv'
<1>1. /\ client' = client /\ linked' = linked /\ endpoint' = endpoint
      /\ endpoint[p].at = "ready" /\ up[p] # <<>> /\ Head(up[p]).kind \in {"query", "scan"} /\ ReadUp(p)
      /\ \E kind, names : WriteDown(p, Response(kind, NoFile, 0, names))
  BY DEF AnswerQuery, AnswerScan, Serves, Arrives, OnlyEndpoint
<1>2. PICK frame : WriteDown(p, frame) /\ Answer(frame)
  BY <1>1, Kinds DEF Answer
<1>3. Fits(client[p].at, "ready", up[p], down[p]) /\ Head(up[p]) = up[p][1]
      /\ up'[p] = Tail(up[p]) /\ down'[p] = Append(down[p], frame)
  BY <1>1, <1>2, Setting DEF ReadUp, WriteDown
<1>4. Fits(client[p].at, endpoint'[p].at, up'[p], down'[p])
  BY <1>1, <1>2, <1>3, FitsAnswer
<1> QED
  BY <1>1, <1>2, <1>4, EndpointWrites

LEMMA BeginFits ==
  ASSUME StepInv, NEW p \in Copies, BeginPut(p) \/ BeginTransition(p)
  PROVE  StepInv'
<1>1. /\ client' = client /\ linked' = linked /\ down' = down
      /\ endpoint[p].at = "ready" /\ up[p] # <<>> /\ ReadUp(p)
  BY DEF BeginPut, BeginTransition, Serves, Arrives, OnlyEndpoint
<1>2. Fits(client[p].at, "ready", up[p], down[p]) /\ Head(up[p]) = up[p][1]
      /\ up'[p] = Tail(up[p]) /\ down'[p] = down[p]
  BY <1>1, Setting DEF ReadUp
<1>3. PICK e : /\ Become(p, e) /\ DOMAIN e = {"at", "name", "size", "body", "put", "todo", "failed"}
               /\ \/ e.at = "body" /\ Head(up[p]).kind = "put"
                  \/ e.at = "apply" /\ Head(up[p]).kind = "transition"
  <2>1. CASE BeginPut(p)
    <3> DEFINE e == [Endpoint("body") EXCEPT !.name = Head(up[p]).name, !.size = Head(up[p]).size, !.put = "whole"]
    <3>1. e.at = "body" /\ DOMAIN e = {"at", "name", "size", "body", "put", "todo", "failed"}
      BY DEF Endpoint
    <3> QED
      BY <2>1, <3>1 DEF BeginPut, Arrives
  <2>2. CASE BeginTransition(p)
    <3> DEFINE e == [Endpoint("apply") EXCEPT !.todo = DOMAIN told[p]]
    <3>1. e.at = "apply" /\ DOMAIN e = {"at", "name", "size", "body", "put", "todo", "failed"}
      BY DEF Endpoint
    <3> QED
      BY <2>2, <3>1 DEF BeginTransition, Arrives
  <2> QED
    BY <2>1, <2>2
<1>4. endpoint'[p] = e
  BY <1>3, Setting DEF Become
<1>5. Fits(client[p].at, endpoint'[p].at, up'[p], down'[p])
  BY <1>1, <1>2, <1>3, <1>4, FitsBegun
<1> QED
  BY <1>1, <1>3, <1>5, EndpointWrites

LEMMA ReceiveChunkFits ==
  ASSUME StepInv, NEW p \in Copies, ReceiveChunk(p)
  PROVE  StepInv'
<1>1. /\ client' = client /\ linked' = linked /\ down' = down
      /\ endpoint[p].at = "body" /\ up[p] # <<>> /\ ReadUp(p) /\ Head(up[p]) # Eof
      /\ DOMAIN endpoint[p] = {"at", "name", "size", "body", "put", "todo", "failed"}
  BY Setting DEF ReceiveChunk, Serves, OnlyEndpoint, Drain
<1>2. Fits(client[p].at, "body", up[p], down[p]) /\ Head(up[p]) = up[p][1]
      /\ up'[p] = Tail(up[p]) /\ down'[p] = down[p]
  BY <1>1, Setting DEF ReadUp
<1>3. PICK e : /\ Become(p, e) /\ DOMAIN e = {"at", "name", "size", "body", "put", "todo", "failed"}
               /\ e.at = "body"
  <2>1. CASE Drain(p)
    <3> DEFINE e == [endpoint[p] EXCEPT !.put = "failed"]
    <3>1. e.at = "body" /\ DOMAIN e = {"at", "name", "size", "body", "put", "todo", "failed"}
      BY <1>1
    <3> QED
      BY <2>1, <3>1 DEF Drain
  <2>2. CASE Become(p, [endpoint[p] EXCEPT !.body = Append(@, Head(up[p]).size)])
    <3> DEFINE e == [endpoint[p] EXCEPT !.body = Append(endpoint[p].body, Head(up[p]).size)]
    <3>1. e.at = "body" /\ DOMAIN e = {"at", "name", "size", "body", "put", "todo", "failed"}
      BY <1>1
    <3> QED
      BY <2>2, <3>1
  <2> QED
    BY <2>1, <2>2 DEF ReceiveChunk
<1>4. endpoint'[p] = e
  BY <1>3, Setting DEF Become
<1>5. Fits(client[p].at, endpoint'[p].at, up'[p], down'[p])
  BY <1>1, <1>2, <1>3, <1>4, FitsReceived
<1> QED
  BY <1>1, <1>3, <1>5, EndpointWrites

LEMMA ReceiveEofFits ==
  ASSUME StepInv, NEW p \in Copies, ReceiveEof(p)
  PROVE  StepInv'
<1>1. /\ client' = client /\ linked' = linked /\ Become(p, Endpoint("ready"))
      /\ endpoint[p].at = "body" /\ up[p] # <<>> /\ ReadUp(p) /\ Head(up[p]) = Eof
      /\ \/ WriteDown(p, Refusal)
         \/ WriteDown(p, Response("put", endpoint[p].body, 0, {}))
  BY DEF ReceiveEof, Serves, OnlyEndpoint
<1>2. PICK frame : WriteDown(p, frame) /\ Answer(frame)
  BY <1>1, Kinds DEF Answer
<1>3. /\ Fits(client[p].at, "body", up[p], down[p]) /\ Head(up[p]) = up[p][1]
      /\ up'[p] = Tail(up[p]) /\ down'[p] = Append(down[p], frame)
      /\ endpoint'[p].at = "ready"
  BY <1>1, <1>2, Setting, Endpoints DEF ReadUp, WriteDown, Become
<1>4. Fits(client[p].at, endpoint'[p].at, up'[p], down'[p])
  BY <1>1, <1>2, <1>3, FitsReceived
<1> QED
  BY <1>1, <1>2, <1>4, Endpoints, EndpointWrites

LEMMA CreateFits ==
  ASSUME StepInv, NEW p \in Copies, CreateFile(p)
  PROVE  StepInv'
<1>1. /\ client' = client /\ linked' = linked /\ down' = down /\ up' = up
      /\ endpoint[p].at = "apply" /\ Fits(client[p].at, "apply", up[p], down[p])
      /\ DOMAIN endpoint[p] = {"at", "name", "size", "body", "put", "todo", "failed"}
  BY Setting DEF CreateFile, Serves, OnlyEndpoint
<1>2. PICK f : \/ Become(p, [endpoint[p] EXCEPT !.todo = endpoint[p].todo \ {f}])
               \/ Become(p, [[endpoint[p] EXCEPT !.todo = endpoint[p].todo \ {f}] EXCEPT !.failed = TRUE])
  BY DEF CreateFile
<1>3. \A g : LET e == [endpoint[p] EXCEPT !.todo = endpoint[p].todo \ {g}]
                 h == [e EXCEPT !.failed = TRUE]
             IN /\ e.at = "apply" /\ DOMAIN e = {"at", "name", "size", "body", "put", "todo", "failed"}
                /\ h.at = "apply" /\ DOMAIN h = {"at", "name", "size", "body", "put", "todo", "failed"}
  BY <1>1
<1>4. PICK e : /\ Become(p, e) /\ DOMAIN e = {"at", "name", "size", "body", "put", "todo", "failed"}
               /\ e.at = "apply"
  BY <1>2, <1>3
<1>5. endpoint'[p] = e
  BY <1>4, Setting DEF Become
<1>6. Fits(client[p].at, endpoint'[p].at, up'[p], down'[p])
  BY <1>1, <1>4, <1>5
<1> QED
  BY <1>1, <1>4, <1>6, EndpointWrites

LEMMA EndFits ==
  ASSUME StepInv, NEW p \in Copies, EndTransition(p)
  PROVE  StepInv'
<1>1. /\ client' = client /\ linked' = linked /\ up' = up /\ Become(p, Endpoint("ready"))
      /\ endpoint[p].at = "apply"
      /\ \E names : WriteDown(p, Response("transition", NoFile, 0, names))
  BY DEF EndTransition, Serves, OnlyEndpoint
<1>2. PICK frame : WriteDown(p, frame) /\ frame.type = "response"
  BY <1>1, Kinds
<1>3. /\ Fits(client[p].at, "apply", up[p], down[p])
      /\ up'[p] = up[p] /\ down'[p] = Append(down[p], frame) /\ endpoint'[p].at = "ready"
  BY <1>1, <1>2, Setting, Endpoints DEF WriteDown, Become
<1>4. Fits(client[p].at, endpoint'[p].at, up'[p], down'[p])
  BY <1>1, <1>2, <1>3, FitsApplied
<1> QED
  BY <1>1, <1>2, <1>4, Endpoints, EndpointWrites

LEMMA BeginSupplyFits ==
  ASSUME StepInv, NEW p \in Copies, BeginSupply(p)
  PROVE  StepInv'
<1>1. /\ client' = client /\ linked' = linked
      /\ endpoint[p].at = "ready" /\ up[p] # <<>> /\ ReadUp(p) /\ Head(up[p]).kind = "supply"
  BY DEF BeginSupply, Serves, Arrives, OnlyEndpoint
<1>2. Fits(client[p].at, "ready", up[p], down[p]) /\ Head(up[p]) = up[p][1] /\ up'[p] = Tail(up[p])
  BY <1>1, Setting DEF ReadUp
<1>3. ASSUME NEW frame, WriteDown(p, frame), frame.type = "response",
             NEW e, Become(p, e), e.at = "supply",
             DOMAIN e = {"at", "name", "size", "body", "put", "todo", "failed"}
      PROVE  StepInv'
  <2>1. down'[p] = Append(down[p], frame) /\ endpoint'[p] = e
    BY <1>3, Setting DEF WriteDown, Become
  <2>2. Fits(client[p].at, endpoint'[p].at, up'[p], down'[p])
    BY <1>1, <1>2, <1>3, <2>1, FitsBegun
  <2> QED
    BY <1>1, <1>3, <2>2, EndpointWrites
<1>4. CASE WriteDown(p, Refusal) /\ endpoint' = endpoint
  <2>1. down'[p] = Append(down[p], Refusal) /\ endpoint'[p].at = "ready"
    BY <1>1, <1>4, Setting DEF WriteDown
  <2>2. Fits(client[p].at, endpoint'[p].at, up'[p], down'[p])
    BY <1>1, <1>2, <2>1, Kinds, FitsAnswer
  <2> QED
    BY <1>1, <1>4, <2>2, EndpointWrites
<1>5. CASE \E f : /\ WriteDown(p, Response("supply", f, Len(there[f]), {}))
                  /\ Become(p, [Endpoint("supply") EXCEPT !.name = f])
  <2>1. PICK f : /\ WriteDown(p, Response("supply", f, Len(there[f]), {}))
                 /\ Become(p, [Endpoint("supply") EXCEPT !.name = f])
    BY <1>5
  <2> DEFINE e == [Endpoint("supply") EXCEPT !.name = f]
             frame == Response("supply", f, Len(there[f]), {})
  <2>2. e.at = "supply" /\ DOMAIN e = {"at", "name", "size", "body", "put", "todo", "failed"}
    BY DEF Endpoint
  <2>3. frame.type = "response"
    BY Kinds
  <2>4. WriteDown(p, frame) /\ Become(p, e)
    BY <2>1
  <2> HIDE DEF e, frame
  <2> QED
    BY <1>3, <2>2, <2>3, <2>4
<1> QED
  BY <1>4, <1>5 DEF BeginSupply

LEMMA SupplyChunkFits ==
  ASSUME StepInv, NEW p \in Copies, SupplyChunk(p)
  PROVE  StepInv'
<1>1. /\ client' = client /\ linked' = linked /\ up' = up
      /\ endpoint[p].at = "supply" /\ Fits(client[p].at, "supply", up[p], down[p])
      /\ DOMAIN endpoint[p] = {"at", "name", "size", "body", "put", "todo", "failed"}
  BY Setting DEF SupplyChunk, Serves, OnlyEndpoint
<1>2. CASE Become(p, Endpoint("gone")) /\ down' = down
  <2>1. endpoint'[p].at = "gone"
    BY <1>2, Setting, Endpoints DEF Become
  <2>2. Fits(client[p].at, endpoint'[p].at, up'[p], down'[p])
    BY <1>1, <1>2, <2>1, FitsGone
  <2> QED
    BY <1>1, <1>2, <2>2, Endpoints, EndpointWrites
<1>3. ASSUME NEW x, WriteDown(p, Chunk(x)),
             Become(p, [endpoint[p] EXCEPT !.body = Append(endpoint[p].body, x)])
      PROVE  StepInv'
  <2> DEFINE e == [endpoint[p] EXCEPT !.body = Append(endpoint[p].body, x)]
             frame == Chunk(x)
  <2>1. /\ Become(p, e) /\ WriteDown(p, frame) /\ e.at = "supply"
        /\ DOMAIN e = {"at", "name", "size", "body", "put", "todo", "failed"}
    BY <1>1, <1>3
  <2>2. frame.type = "chunk" /\ frame # Eof
    BY Kinds
  <2> HIDE DEF e, frame
  <2>3. endpoint'[p] = e /\ down'[p] = Append(down[p], frame)
    BY <2>1, Setting DEF Become, WriteDown
  <2>4. Fits(client[p].at, endpoint'[p].at, up'[p], down'[p])
    BY <1>1, <2>1, <2>2, <2>3, FitsSupplying
  <2> QED
    BY <1>1, <2>1, <2>4, EndpointWrites
<1>4. CASE WriteDown(p, Eof) /\ Become(p, Endpoint("ready"))
  <2>1. endpoint'[p].at = "ready" /\ down'[p] = Append(down[p], Eof)
    BY <1>4, Setting, Endpoints DEF Become, WriteDown
  <2>2. Fits(client[p].at, endpoint'[p].at, up'[p], down'[p])
    BY <1>1, <2>1, Kinds, FitsSupplying
  <2> QED
    BY <1>1, <1>4, <2>2, Endpoints, EndpointWrites
<1> QED
  BY <1>2, <1>3, <1>4 DEF SupplyChunk

LEMMA StreamFits ==
  ASSUME StepInv, NEW p \in Copies, StreamEnds(p)
  PROVE  StepInv'
<1>1. /\ client' = client /\ linked' = linked /\ up' = up /\ down' = down
      /\ Become(p, Endpoint("gone"))
  BY DEF StreamEnds, OnlyEndpoint
<1>2. endpoint'[p].at = "gone"
  BY <1>1, Setting, Endpoints DEF Become
<1>3. Fits(client[p].at, endpoint'[p].at, up'[p], down'[p])
  BY <1>1, <1>2, Setting, FitsGone
<1> QED
  BY <1>1, <1>3, Endpoints, EndpointWrites

LEMMA CutFits ==
  ASSUME StepInv, NEW p \in Copies, Cut(p)
  PROVE  StepInv'
<1>1. CASE /\ Turn(p, Client("failed")) /\ linked' = [linked EXCEPT ![p] = FALSE]
           /\ up' \in {[up EXCEPT ![p] = SubSeq(@, 1, n)] : n \in 0..Len(up[p])}
           /\ down' = [down EXCEPT ![p] = <<>>] /\ UNCHANGED endpoint
  <2>1. PICK n \in 0..Len(up[p]) : up' = [up EXCEPT ![p] = SubSeq(up[p], 1, n)]
    BY <1>1
  <2>2. Differs(up', up, p, SubSeq(up[p], 1, n)) /\ Differs(down', down, p, <<>>)
    BY <1>1, <2>1, Setting, Differing
  <2>3. Fits("failed", endpoint[p].at, SubSeq(up[p], 1, n), <<>>)
    BY Setting, FitsCut DEF Ended
  <2> DEFINE u == SubSeq(up[p], 1, n)
             c == Client("failed")
  <2>4. /\ Turn(p, c) /\ DOMAIN c = {"at", "todo", "name", "size", "body"} /\ c.at = "failed"
        /\ Differs(up', up, p, u) /\ Fits(c.at, endpoint[p].at, u, <<>>)
    BY <1>1, <2>2, <2>3, Clients
  <2> HIDE DEF u, c
  <2>5. c.at # "dial" /\ endpoint' = endpoint /\ linked' = [linked EXCEPT ![p] = FALSE]
    BY <1>1, <2>4
  <2> QED
    BY <2>2, <2>4, <2>5, CommandMoves
<1>2. CASE Become(p, Endpoint("gone")) /\ UNCHANGED <<client, linked, up, down>>
  <2>1. endpoint'[p].at = "gone"
    BY <1>2, Setting, Endpoints DEF Become
  <2>2. Fits(client[p].at, endpoint'[p].at, up'[p], down'[p])
    BY <1>2, <2>1, Setting, FitsGone
  <2> QED
    BY <1>2, <2>2, Endpoints, EndpointWrites
<1> QED
  BY <1>1, <1>2 DEF Cut

LEMMA StepFits == StepInv /\ [CopyNext]_copyVars => StepInv'
<1> SUFFICES ASSUME StepInv, [CopyNext]_copyVars PROVE StepInv'
  OBVIOUS
<1>1. CASE UNCHANGED copyVars
  BY <1>1 DEF copyVars, StepInv, Shapes, At
<1>2. CASE Edit
  BY <1>2 DEF Edit, StepInv, Shapes, At
<1>3. ASSUME NEW p \in Copies, CommandStep(p) PROVE StepInv'
  BY <1>3, OpenFits, ScanFits, AnswersFit, NextPutFits, NextSupplyFits, SendFits,
     TakeSupplyFits, TakeChunkFits, LoseFits DEF CommandStep
<1>4. ASSUME NEW p \in Copies, EndpointStep(p) PROVE StepInv'
  BY <1>4, AnswerFits, BeginFits, ReceiveChunkFits, ReceiveEofFits, CreateFits, EndFits,
     BeginSupplyFits, SupplyChunkFits, StreamFits DEF EndpointStep
<1>5. ASSUME NEW p \in Copies, Cut(p) PROVE StepInv'
  BY <1>5, CutFits
<1> QED
  BY <1>1, <1>2, <1>3, <1>4, <1>5 DEF CopyNext

LEMMA InitFits == CopyInit => StepInv
<1> SUFFICES ASSUME CopyInit PROVE StepInv
  OBVIOUS
<1>1. Shapes
  BY DEF CopyInit, Shapes, Client, Endpoint, At
<1>2. ASSUME NEW p \in Copies PROVE Fits(client[p].at, endpoint[p].at, up[p], down[p])
  <2>1. client[p].at = "dial" /\ endpoint[p].at = "gone" /\ up[p] = <<>> /\ down[p] = <<>>
    BY DEF CopyInit, Client, Endpoint
  <2> QED
    BY <2>1, EmptyIs DEF Fits, UpFits, DownFits, CommandAts, EndpointAts
<1> QED
  BY <1>1, <1>2 DEF StepInv

LEMMA StepInvariant == CopySpec => []StepInv
BY InitFits, StepFits, PTL DEF CopySpec

\* Both ends of a copy stay in step: a frame is always of the kind its reader
\* waits for (wire.Conn, WriteBody, ReadBody), however many copies there are and
\* whatever breaks in the middle of a body.
THEOREM StaysInStep == CopySpec => []InStep
<1>1. ASSUME StepInv, NEW p \in Copies
      PROVE  /\ up[p] # <<>> /\ Serves(p, "ready") => Head(up[p]).type = "request"
             /\ up[p] # <<>> /\ Serves(p, "body") => Head(up[p]).type = "chunk"
             /\ down[p] # <<>> /\ client[p].at \in Waits \ {"body"} =>
                  Head(down[p]).type \in {"response", "error"}
             /\ down[p] # <<>> /\ At(p, "body") => Head(down[p]).type = "chunk"
  <2>1. /\ UpFits(client[p].at, endpoint[p].at, up[p]) /\ IsSeq(up[p]) /\ IsSeq(down[p])
        /\ DownFits(client[p].at, endpoint[p].at, up[p], down[p])
        /\ down[p] # <<>> => Head(down[p]) = down[p][1] /\ Len(down[p]) >= 1 /\ Len(down[p]) \in Nat
        /\ up[p] # <<>> => Head(up[p]) = up[p][1] /\ Len(up[p]) >= 1 /\ Len(up[p]) \in Nat
    BY <1>1, Setting, Tailed, SeqLen DEF Fits
  <2>2. \A frame : Answer(frame) => frame.type \in {"response", "error"}
    BY DEF Answer, Refusal, Frame
  <2> HIDE DEF Eof
  <2>3. up[p] # <<>> /\ Serves(p, "ready") => Head(up[p]).type = "request"
    BY <2>1 DEF UpFits, Serves
  <2>4. up[p] # <<>> /\ Serves(p, "body") => Head(up[p]).type = "chunk"
    BY <2>1 DEF UpFits, Serves, Body
  <2>5. down[p] # <<>> /\ client[p].at \in Waits \ {"body"} =>
                  Head(down[p]).type \in {"response", "error"}
    BY <2>1, <2>2 DEF DownFits, Waits
  <2>6. down[p] # <<>> /\ At(p, "body") => Head(down[p]).type = "chunk"
    BY <2>1 DEF DownFits, At, Body
  <2> QED
    BY <2>3, <2>4, <2>5, <2>6
<1>2. StepInv => InStep
  BY <1>1 DEF InStep
<1> QED
  BY <1>2, StepInvariant, PTL

-----------------------------------------------------------------------------
\* What is copied.  Types, as far as the contents go.
FilesTyped ==
  /\ DOMAIN here = Files /\ DOMAIN there = Files
  /\ \A f \in Files : there[f] = NoFile \/ IsSeq(there[f])
StageTyped == \A digest \in DOMAIN stage : stage[digest] = digest /\ IsSeq(digest)
BodiesTyped == \A p \in Copies : IsSeq(client[p].body) /\ IsSeq(endpoint[p].body)
ToldTyped ==
  /\ job \in [Copies -> {"push", "pull", "none"}]
  /\ DOMAIN told = Copies /\ DOMAIN landed = Copies /\ DOMAIN moved = Copies /\ DOMAIN kept = Copies
  /\ \A p \in Copies : /\ DOMAIN told[p] \subseteq Files
                       /\ job[p] = "pull" => \A f \in DOMAIN told[p] : IsSeq(told[p][f])

\* What a copy does is what its job calls for.
Jobs(p) ==
  /\ client[p].at \in {"query", "send", "put", "results"} => job[p] = "push"
  /\ client[p].at \in {"listing", "supply", "body"} => job[p] = "pull"
  /\ Serves(p, "apply") => job[p] = "push"
  /\ Serves(p, "ready") /\ up[p] # <<>> =>
       /\ up[p][1].kind \in {"put", "query", "transition"} => job[p] = "push"
       /\ up[p][1].kind \in {"scan", "supply"} => job[p] = "pull"

\* How much of what was announced has landed.
Progress(p) ==
  /\ client[p].at \in {"dial", "scan", "listing", "query", "send", "put"} => landed[p] = {}
  /\ At(p, "next") /\ job[p] = "push" => landed[p] = {}
  /\ At(p, "next") /\ job[p] = "pull" =>
       client[p].todo = DOMAIN told[p] \ landed[p] /\ landed[p] \subseteq DOMAIN told[p]
  /\ client[p].at \in {"supply", "body"} =>
       /\ client[p].todo = DOMAIN told[p] \ landed[p] /\ landed[p] \subseteq DOMAIN told[p]
       /\ client[p].name \in client[p].todo
  /\ At(p, "supply") /\ Serves(p, "ready") /\ up[p] # <<>> => up[p][1].name = client[p].name
  /\ Serves(p, "apply") => endpoint[p].todo \subseteq DOMAIN told[p]
  /\ At(p, "results") =>
       /\ Serves(p, "ready") /\ up[p] # <<>> => landed[p] = {}
       /\ Serves(p, "apply") /\ ~endpoint[p].failed => landed[p] = DOMAIN told[p] \ endpoint[p].todo
       /\ down[p] # <<>> /\ down[p][1].kind = "transition" /\ down[p][1].names = {} =>
            landed[p] = DOMAIN told[p]

\* A content on its way: what of it has arrived, and the frames that carry the
\* rest, from the k-th on.
Carries(content, arrived, d, k) ==
  /\ Len(arrived) <= Len(content) /\ \A i \in 1..Len(arrived) : arrived[i] = content[i]
  /\ \A j \in (k + 1)..Len(d) :
       IF d[j] = Eof THEN Len(arrived) + (j - k) = Len(content) + 1
       ELSE /\ Len(arrived) + (j - k) <= Len(content)
            /\ d[j].size = content[Len(arrived) + (j - k)]

\* The endpoint reads the file it compared, and is as far as what it has sent.
Reading(p, content, sent) ==
  Serves(p, "supply") =>
    /\ endpoint[p].name = client[p].name /\ kept[p] = NoFile
    /\ there[client[p].name] = content
    /\ Len(endpoint[p].body) = sent /\ sent <= Len(content)

\* While the file does not move, what is pulled is what was announced.
Streams(p) ==
  ~moved[p] =>
    LET content == told[p][client[p].name]
    IN /\ At(p, "supply") /\ down[p] # <<>> /\ down[p][1].type = "response" =>
            Carries(content, <<>>, down[p], 1) /\ Reading(p, content, Len(down[p]) - 1)
       /\ At(p, "body") =>
            /\ Carries(content, client[p].body, down[p], 0)
            /\ Reading(p, content, Len(client[p].body) + Len(down[p]))

LandInv ==
  /\ StepInv /\ FilesTyped /\ StageTyped /\ BodiesTyped /\ ToldTyped
  /\ \A p \in Copies : Jobs(p) /\ Progress(p) /\ Streams(p)

\* What a step of another copy leaves to q, and what a step of anybody does to
\* the file q pulls.
Same(q) ==
  /\ client'[q] = client[q] /\ up'[q] = up[q] /\ down'[q] = down[q]
  /\ told'[q] = told[q] /\ landed'[q] = landed[q] /\ job'[q] = job[q]
  /\ endpoint'[q].at = endpoint[q].at /\ endpoint'[q].name = endpoint[q].name
  /\ endpoint'[q].body = endpoint[q].body /\ endpoint'[q].todo = endpoint[q].todo
  /\ endpoint'[q].failed = endpoint[q].failed
Quiet(q) ==
  ~moved'[q] =>
    /\ ~moved[q]
    /\ client[q].at \in {"supply", "body"} /\ Serves(q, "supply") /\ endpoint[q].name = client[q].name =>
         kept'[q] = kept[q] /\ there'[client[q].name] = there[client[q].name]

LEMMA SameLands ==
  ASSUME NEW q \in Copies, Jobs(q), Progress(q), Streams(q), Same(q), Quiet(q)
  PROVE  Jobs(q)' /\ Progress(q)' /\ Streams(q)'
<1>1. Jobs(q)'
  BY DEF Jobs, Same, Serves
<1>2. Progress(q)'
  BY DEF Progress, Same, Serves, At
<1>3. Streams(q)'
  <2> SUFFICES ASSUME ~moved'[q] PROVE Streams(q)'
    BY DEF Streams
  <2> DEFINE content == told[q][client[q].name]
  <2>1. ~moved[q]
    BY DEF Quiet
  <2>2. ASSUME client[q].at \in {"supply", "body"}, Reading(q, content, Len(down[q]) - 1)
        PROVE  Reading(q, content, Len(down[q]) - 1)'
    BY <2>2 DEF Reading, Quiet, Same, Serves
  <2>3. ASSUME client[q].at \in {"supply", "body"}, Reading(q, content, Len(client[q].body) + Len(down[q]))
        PROVE  Reading(q, content, Len(client[q].body) + Len(down[q]))'
    BY <2>3 DEF Reading, Quiet, Same, Serves
  <2>4. At(q, "supply")' /\ down'[q] # <<>> /\ down'[q][1].type = "response" =>
          Carries(content, <<>>, down[q], 1)' /\ Reading(q, content, Len(down[q]) - 1)'
    <3>1. SUFFICES ASSUME At(q, "supply")', down'[q] # <<>>, down'[q][1].type = "response"
                   PROVE  Carries(content, <<>>, down[q], 1)' /\ Reading(q, content, Len(down[q]) - 1)'
      OBVIOUS
    <3>2. client[q].at = "supply" /\ At(q, "supply") /\ down[q] # <<>> /\ down[q][1].type = "response"
      BY <3>1 DEF At, Same
    <3>3. Carries(content, <<>>, down[q], 1) /\ Reading(q, content, Len(down[q]) - 1)
      BY <2>1, <3>2 DEF Streams
    <3>4. Carries(content, <<>>, down[q], 1)'
      <4>1. content' = content /\ down'[q] = down[q]
        BY DEF Same
      <4> HIDE DEF content
      <4> QED
        BY <3>3, <4>1 DEF Carries
    <3> QED
      BY <2>2, <3>2, <3>3, <3>4
  <2>5. At(q, "body")' =>
          /\ Carries(content, client[q].body, down[q], 0)'
          /\ Reading(q, content, Len(client[q].body) + Len(down[q]))'
    <3>1. SUFFICES ASSUME At(q, "body")'
                   PROVE  /\ Carries(content, client[q].body, down[q], 0)'
                          /\ Reading(q, content, Len(client[q].body) + Len(down[q]))'
      OBVIOUS
    <3>2. client[q].at = "body" /\ At(q, "body")
      BY <3>1 DEF At, Same
    <3>3. /\ Carries(content, client[q].body, down[q], 0)
          /\ Reading(q, content, Len(client[q].body) + Len(down[q]))
      BY <2>1, <3>2 DEF Streams
    <3>4. Carries(content, client[q].body, down[q], 0)'
      <4>1. content' = content /\ down'[q] = down[q] /\ client'[q] = client[q]
        BY DEF Same
      <4> HIDE DEF content
      <4> QED
        BY <3>3, <4>1 DEF Carries
    <3> QED
      BY <2>3, <3>2, <3>3, <3>4
  <2> QED
    BY <2>4, <2>5 DEF Streams
<1> QED
  BY <1>1, <1>2, <1>3

LEMMA OneLands ==
  ASSUME LandInv, NEW p \in Copies, StepInv', FilesTyped', StageTyped', BodiesTyped', ToldTyped',
         \A q \in Copies \ {p} : Same(q) /\ Quiet(q),
         Jobs(p)' /\ Progress(p)' /\ Streams(p)'
  PROVE  LandInv'
<1>1. ASSUME NEW q \in Copies PROVE Jobs(q)' /\ Progress(q)' /\ Streams(q)'
  BY SameLands DEF LandInv
<1> QED
  BY <1>1 DEF LandInv

\* A command that has ended is held to nothing.
LEMMA EndedLands ==
  ASSUME LandInv, NEW p \in Copies, client'[p].at \in Ended,
         endpoint'[p].at = endpoint[p].at, endpoint'[p].todo = endpoint[p].todo,
         up'[p] = up[p], job' = job, told'[p] = told[p]
  PROVE  Jobs(p)' /\ Progress(p)' /\ Streams(p)'
<1>1. Jobs(p) /\ Progress(p)
  BY DEF LandInv
<1>2. Jobs(p)'
  BY <1>1 DEF Jobs, Ended, Serves
<1>3. Progress(p)'
  BY <1>1 DEF Progress, Ended, Serves, At
<1>4. Streams(p)'
  BY DEF Streams, Ended, At
<1> QED
  BY <1>2, <1>3, <1>4

\* Bodies only ever grow by a chunk, or begin again.
Grows(new, old) == new = <<>> \/ new = old \/ \E x : new = Append(old, x)

LEMMA Growing ==
  ASSUME NEW old, IsSeq(old), NEW new, Grows(new, old)
  PROVE  IsSeq(new)
BY EmptyIs, Appended DEF Grows

LEMMA ClientGrows ==
  ASSUME LandInv, NEW p \in Copies, CommandStep(p) \/ EndpointStep(p) \/ Cut(p)
  PROVE  client' = client \/ \E c : Turn(p, c) /\ Grows(c.body, client[p].body)
<1> DEFINE Turns == \E c : Turn(p, c) /\ Grows(c.body, client[p].body)
<1>1. DOMAIN client[p] = {"at", "todo", "name", "size", "body"}
  BY Setting DEF LandInv
<1>2. ASSUME NEW c, Turn(p, c), Grows(c.body, client[p].body) PROVE Turns
  BY <1>2
<1> SUFFICES client' = client \/ Turns
  OBVIOUS
<1> HIDE DEF Turns
<1>3. ASSUME NEW at, Turn(p, Client(at)) PROVE Turns
  <2>1. Client(at).body = <<>>
    BY DEF Client
  <2> QED
    BY <1>2, <1>3, <2>1 DEF Grows
<1>4. ASSUME NEW at, Give(p, at) PROVE Turns
  BY <1>3, <1>4 DEF Give
<1>5. ASSUME NEW todo, Turn(p, [Client("next") EXCEPT !.todo = todo]) PROVE Turns
  <2>1. [Client("next") EXCEPT !.todo = todo].body = <<>>
    BY DEF Client
  <2> QED
    BY <1>2, <1>5, <2>1 DEF Grows
<1>6. ASSUME NEW x, Turn(p, [client[p] EXCEPT !.body = Append(client[p].body, x)]) PROVE Turns
  <2>1. [client[p] EXCEPT !.body = Append(client[p].body, x)].body = Append(client[p].body, x)
    BY <1>1
  <2> QED
    BY <1>2, <1>6, <2>1 DEF Grows
<1>7. CASE OpenCopy(p)
  BY <1>3, <1>7 DEF OpenCopy
<1>8. CASE StartScan(p)
  BY <1>3, <1>8 DEF StartScan
<1>9. CASE TakeMissing(p) \/ TakeListing(p) \/ TakePut(p)
  BY <1>4, <1>5, <1>9 DEF TakeMissing, TakeListing, TakePut
<1>10. CASE TakeResults(p) \/ Lose(p)
  BY <1>4, <1>10 DEF TakeResults, Lose
<1>11. CASE NextPut(p)
  <2>1. ASSUME NEW digest, NEW n,
               Turn(p, [client[p] EXCEPT !.at = "send", !.name = digest, !.size = n, !.body = <<>>])
        PROVE  Turns
    <3>1. [client[p] EXCEPT !.at = "send", !.name = digest, !.size = n, !.body = <<>>].body = <<>>
      BY <1>1
    <3> QED
      BY <1>2, <2>1, <3>1 DEF Grows
  <2> QED
    BY <1>3, <1>4, <1>11, <2>1 DEF NextPut
<1>12. CASE NextSupply(p)
  <2>1. ASSUME NEW f, Turn(p, [client[p] EXCEPT !.at = "supply", !.name = f]) PROVE Turns
    <3>1. [client[p] EXCEPT !.at = "supply", !.name = f].body = client[p].body
      BY <1>1
    <3> QED
      BY <1>2, <2>1, <3>1 DEF Grows
  <2> QED
    BY <1>4, <1>12, <2>1 DEF NextSupply
<1>13. CASE SendChunk(p)
  <2>1. ASSUME Turn(p, [client[p] EXCEPT !.at = "put"]) PROVE Turns
    <3>1. [client[p] EXCEPT !.at = "put"].body = client[p].body
      BY <1>1
    <3> QED
      BY <1>2, <2>1, <3>1 DEF Grows
  <2> QED
    BY <1>4, <1>6, <1>13, <2>1 DEF SendChunk
<1>14. CASE TakeSupply(p)
  <2>1. ASSUME NEW n, Turn(p, [client[p] EXCEPT !.at = "body", !.size = n, !.body = <<>>]) PROVE Turns
    <3>1. [client[p] EXCEPT !.at = "body", !.size = n, !.body = <<>>].body = <<>>
      BY <1>1
    <3> QED
      BY <1>2, <2>1, <3>1 DEF Grows
  <2> QED
    BY <1>14, <2>1 DEF TakeSupply
<1>15. CASE TakeChunk(p)
  BY <1>4, <1>5, <1>6, <1>15 DEF TakeChunk
<1>16. CASE EndpointStep(p)
  BY <1>16 DEF EndpointStep, AnswerQuery, AnswerScan, BeginPut, ReceiveChunk, ReceiveEof,
     BeginTransition, CreateFile, EndTransition, BeginSupply, SupplyChunk, StreamEnds, OnlyEndpoint
<1>17. CASE Cut(p)
  BY <1>3, <1>17 DEF Cut
<1> QED
  BY <1>7, <1>8, <1>9, <1>10, <1>11, <1>12, <1>13, <1>14, <1>15, <1>16, <1>17 DEF CommandStep

LEMMA EndpointGrows ==
  ASSUME LandInv, NEW p \in Copies, CommandStep(p) \/ EndpointStep(p) \/ Cut(p)
  PROVE  \/ endpoint' = endpoint
         \/ \E e : Become(p, e) /\ Grows(e.body, endpoint[p].body)
         \/ endpoint' = [CollectStale EXCEPT ![p] = Endpoint("ready")]
<1> DEFINE Becomes == \E e : Become(p, e) /\ Grows(e.body, endpoint[p].body)
<1>1. DOMAIN endpoint[p] = {"at", "name", "size", "body", "put", "todo", "failed"}
  BY Setting DEF LandInv
<1>2. ASSUME NEW e, Become(p, e), Grows(e.body, endpoint[p].body) PROVE Becomes
  BY <1>2
<1> SUFFICES \/ endpoint' = endpoint \/ Becomes
             \/ endpoint' = [CollectStale EXCEPT ![p] = Endpoint("ready")]
  OBVIOUS
<1> HIDE DEF Becomes
<1>3. ASSUME NEW e, Become(p, e), e.body = <<>> PROVE Becomes
  BY <1>2, <1>3 DEF Grows
<1>4. \A at : /\ Endpoint(at).body = <<>>
              /\ \A name : [Endpoint(at) EXCEPT !.name = name].body = <<>>
              /\ \A todo : [Endpoint(at) EXCEPT !.todo = todo].body = <<>>
              /\ \A name, size, put : [Endpoint(at) EXCEPT !.name = name, !.size = size, !.put = put].body = <<>>
  BY DEF Endpoint
<1>5. ASSUME NEW x, Become(p, [endpoint[p] EXCEPT !.body = Append(endpoint[p].body, x)]) PROVE Becomes
  <2>1. [endpoint[p] EXCEPT !.body = Append(endpoint[p].body, x)].body = Append(endpoint[p].body, x)
    BY <1>1
  <2> QED
    BY <1>2, <1>5, <2>1 DEF Grows
<1>6. CASE OpenCopy(p)
  BY <1>6 DEF OpenCopy
<1>7. CASE \/ StartScan(p) \/ TakeMissing(p) \/ TakeListing(p) \/ TakePut(p) \/ TakeResults(p)
           \/ Lose(p) \/ NextPut(p) \/ NextSupply(p) \/ SendChunk(p) \/ TakeSupply(p) \/ TakeChunk(p)
  BY <1>7 DEF StartScan, TakeMissing, TakeListing, TakePut, TakeResults, Lose,
     NextPut, NextSupply, SendChunk, TakeSupply, TakeChunk, OnlyClient
<1>8. CASE AnswerQuery(p) \/ AnswerScan(p)
  BY <1>8 DEF AnswerQuery, AnswerScan
<1>9. CASE BeginPut(p)
  <2>1. \A name, size : [Endpoint("body") EXCEPT !.name = name, !.size = size, !.put = "whole"].body = <<>>
    BY <1>4
  <2> QED
    BY <1>3, <1>9, <2>1 DEF BeginPut
<1>10. CASE ReceiveEof(p) \/ EndTransition(p) \/ StreamEnds(p)
  <2>1. Become(p, Endpoint("ready")) \/ Become(p, Endpoint("gone"))
    BY <1>10 DEF ReceiveEof, EndTransition, StreamEnds
  <2> QED
    BY <1>3, <1>4, <2>1
<1>11. CASE BeginTransition(p)
  BY <1>3, <1>4, <1>11 DEF BeginTransition
<1>12. CASE BeginSupply(p)
  BY <1>3, <1>4, <1>12 DEF BeginSupply
<1>13. CASE ReceiveChunk(p)
  <2>1. ASSUME Drain(p) PROVE Becomes
    <3>1. [endpoint[p] EXCEPT !.put = "failed"].body = endpoint[p].body
      BY <1>1
    <3> QED
      BY <1>2, <2>1, <3>1 DEF Drain, Grows
  <2> QED
    BY <1>5, <1>13, <2>1 DEF ReceiveChunk
<1>14. CASE CreateFile(p)
  <2>1. PICK f : LET rest == [endpoint[p] EXCEPT !.todo = endpoint[p].todo \ {f}]
                 IN Become(p, rest) \/ Become(p, [rest EXCEPT !.failed = TRUE])
    BY <1>14 DEF CreateFile
  <2> DEFINE rest == [endpoint[p] EXCEPT !.todo = endpoint[p].todo \ {f}]
  <2>2. rest.body = endpoint[p].body /\ [rest EXCEPT !.failed = TRUE].body = endpoint[p].body
    BY <1>1
  <2> QED
    BY <1>2, <2>1, <2>2 DEF Grows
<1>15. CASE SupplyChunk(p)
  <2>1. CASE Become(p, Endpoint("gone")) \/ Become(p, Endpoint("ready"))
    BY <1>3, <1>4, <2>1
  <2>2. CASE \E x : Become(p, [endpoint[p] EXCEPT !.body = Append(endpoint[p].body, x)])
    BY <1>5, <2>2
  <2> QED
    BY <1>15, <2>1, <2>2 DEF SupplyChunk
<1>16. CASE Cut(p)
  BY <1>3, <1>4, <1>16 DEF Cut
<1> QED
  BY <1>6, <1>7, <1>8, <1>9, <1>10, <1>11, <1>12, <1>13, <1>14, <1>15, <1>16 DEF CommandStep, EndpointStep

LEMMA BodiesStep ==
  ASSUME LandInv, [CopyNext]_copyVars
  PROVE  BodiesTyped'
<1>1. BodiesTyped /\ Shapes
  BY DEF LandInv, StepInv
<1>2. ASSUME NEW p \in Copies, CommandStep(p) \/ EndpointStep(p) \/ Cut(p)
      PROVE  BodiesTyped'
  <2>1. ASSUME NEW q \in Copies PROVE IsSeq(client'[q].body)
    <3>1. CASE client' = client
      BY <1>1, <3>1 DEF BodiesTyped
    <3>2. CASE \E c : Turn(p, c) /\ Grows(c.body, client[p].body)
      <4>1. PICK c : Turn(p, c) /\ Grows(c.body, client[p].body)
        BY <3>2
      <4>2. IsSeq(c.body)
        BY <1>1, <1>2, <4>1, Growing DEF BodiesTyped
      <4> QED
        BY <1>1, <1>2, <4>1, <4>2 DEF BodiesTyped, Turn, Shapes
    <3> QED
      BY <1>2, <3>1, <3>2, ClientGrows
  <2>2. ASSUME NEW q \in Copies PROVE IsSeq(endpoint'[q].body)
    <3>1. CASE endpoint' = endpoint
      BY <1>1, <3>1 DEF BodiesTyped
    <3>2. CASE \E e : Become(p, e) /\ Grows(e.body, endpoint[p].body)
      <4>1. PICK e : Become(p, e) /\ Grows(e.body, endpoint[p].body)
        BY <3>2
      <4>2. IsSeq(e.body)
        BY <1>1, <1>2, <4>1, Growing DEF BodiesTyped
      <4> QED
        BY <1>1, <1>2, <4>1, <4>2 DEF BodiesTyped, Become, Shapes
    <3>3. CASE endpoint' = [CollectStale EXCEPT ![p] = Endpoint("ready")]
      <4>1. CollectStale[q].body = endpoint[q].body
        BY <1>1 DEF CollectStale, Shapes
      <4>2. endpoint'[q] = IF q = p THEN Endpoint("ready") ELSE CollectStale[q]
        BY <3>3 DEF CollectStale
      <4>3. Endpoint("ready").body = <<>>
        BY DEF Endpoint
      <4> QED
        BY <1>1, <4>1, <4>2, <4>3, EmptyIs DEF BodiesTyped
    <3> QED
      BY <1>2, <3>1, <3>2, <3>3, EndpointGrows
  <2> QED
    BY <2>1, <2>2 DEF BodiesTyped
<1>3. CASE Edit \/ UNCHANGED copyVars
  BY <1>1, <1>3 DEF Edit, copyVars, BodiesTyped
<1> QED
  BY <1>2, <1>3 DEF CopyNext
\* What the steps do to what is shared: the files and the staging directory.
LEMMA FilesStep ==
  ASSUME LandInv, [CopyNext]_copyVars
  PROVE  FilesTyped'
<1>1. FilesTyped /\ StageTyped
  BY DEF LandInv
<1>2. CASE here' = here /\ there' = there
  BY <1>1, <1>2 DEF FilesTyped
<1>3. ASSUME NEW f, NEW content, here' = [here EXCEPT ![f] = content], there' = there
      PROVE  FilesTyped'
  BY <1>1, <1>3 DEF FilesTyped
<1>4. ASSUME NEW f, NEW content, content = NoFile \/ IsSeq(content),
             there' = [there EXCEPT ![f] = content], here' = here
      PROVE  FilesTyped'
  BY <1>1, <1>4 DEF FilesTyped
<1>5. ASSUME NEW p \in Copies, CommandStep(p) PROVE FilesTyped'
  <2>1. CASE TakeChunk(p)
    BY <1>2, <1>3, <2>1 DEF TakeChunk, Aside, OnlyClient
  <2>2. CASE ~TakeChunk(p)
    BY <1>2, <1>5, <2>2 DEF CommandStep, OpenCopy, StartScan, TakeMissing, TakeListing, TakePut,
       TakeResults, Lose, NextPut, NextSupply, SendChunk, TakeSupply, OnlyClient
  <2> QED
    BY <2>1, <2>2
<1>6. ASSUME NEW p \in Copies, EndpointStep(p) PROVE FilesTyped'
  <2>1. CASE CreateFile(p)
    <3>1. PICK f : \/ /\ told[p][f] \in DOMAIN stage
                      /\ there' = [there EXCEPT ![f] = stage[told[p][f]]]
                   \/ there' = there
      BY <2>1 DEF CreateFile
    <3>2. here' = here
      BY <2>1 DEF CreateFile, OnlyEndpoint
    <3>3. \A digest \in DOMAIN stage : IsSeq(stage[digest])
      BY <1>1 DEF StageTyped
    <3> QED
      BY <1>2, <1>4, <3>1, <3>2, <3>3
  <2>2. CASE ~CreateFile(p)
    BY <1>2, <1>6, <2>2 DEF EndpointStep, AnswerQuery, AnswerScan, BeginPut, ReceiveChunk, ReceiveEof,
       BeginTransition, EndTransition, BeginSupply, SupplyChunk, StreamEnds, OnlyEndpoint
  <2> QED
    BY <2>1, <2>2
<1>7. ASSUME NEW p \in Copies, Cut(p) PROVE FilesTyped'
  BY <1>2, <1>7 DEF Cut
<1>8. CASE Edit
  <2>1. \A content \in Contents \union {NoFile} : content = NoFile \/ IsSeq(content)
    BY CopyAssumption, SeqIs DEF CopyAssumption
  <2> QED
    BY <1>3, <1>4, <1>8, <2>1 DEF Edit
<1>9. CASE UNCHANGED copyVars
  BY <1>2, <1>9 DEF copyVars
<1> QED
  BY <1>5, <1>6, <1>7, <1>8, <1>9 DEF CopyNext

LEMMA StageStep ==
  ASSUME LandInv, [CopyNext]_copyVars
  PROVE  StageTyped'
<1>1. StageTyped /\ BodiesTyped
  BY DEF LandInv
<1>2. CASE stage' = stage
  BY <1>1, <1>2 DEF StageTyped
<1>3. ASSUME NEW p \in Copies, NEW name, Keep(name, endpoint[p].body) PROVE StageTyped'
  <2>1. IsSeq(endpoint[p].body)
    BY <1>1 DEF BodiesTyped
  <2>2. CASE endpoint[p].body = name
    BY <1>1, <1>3, <2>1, <2>2 DEF Keep, StageTyped
  <2>3. CASE endpoint[p].body # name
    BY <1>2, <1>3, <2>3 DEF Keep
  <2> QED
    BY <2>2, <2>3
<1>4. ASSUME NEW p \in Copies, CommandStep(p) PROVE StageTyped'
  BY <1>2, <1>4 DEF CommandStep, OpenCopy, StartScan, TakeMissing, TakeListing, TakePut, TakeChunk,
     TakeResults, Lose, NextPut, NextSupply, SendChunk, TakeSupply, OnlyClient
<1>5. ASSUME NEW p \in Copies, EndpointStep(p) PROVE StageTyped'
  <2>1. CASE CreateFile(p)
    <3>1. \/ stage' = stage
          \/ \E digest : stage' = Restrict(stage, DOMAIN stage \ {digest})
      BY <2>1 DEF CreateFile
    <3>2. ASSUME NEW digest, stage' = Restrict(stage, DOMAIN stage \ {digest}) PROVE StageTyped'
      BY <1>1, <3>2 DEF StageTyped, Restrict
    <3> QED
      BY <1>2, <3>1, <3>2
  <2>2. CASE ReceiveEof(p)
    BY <1>2, <1>3, <2>2 DEF ReceiveEof
  <2>3. CASE StreamEnds(p)
    BY <1>2, <1>3, <2>3 DEF StreamEnds
  <2>4. CASE ~CreateFile(p) /\ ~ReceiveEof(p) /\ ~StreamEnds(p)
    BY <1>2, <1>5, <2>4 DEF EndpointStep, AnswerQuery, AnswerScan, BeginPut, ReceiveChunk,
       BeginTransition, EndTransition, BeginSupply, SupplyChunk
  <2> QED
    BY <2>1, <2>2, <2>3, <2>4
<1>6. ASSUME NEW p \in Copies, Cut(p) PROVE StageTyped'
  BY <1>2, <1>6 DEF Cut
<1>7. CASE Edit
  BY <1>2, <1>7 DEF Edit
<1>8. CASE UNCHANGED copyVars
  BY <1>2, <1>8 DEF copyVars
<1> QED
  BY <1>4, <1>5, <1>6, <1>7, <1>8 DEF CopyNext

\* What a step of one copy may do to the job, the scan it works from and the
\* bookkeeping of what has landed, moved and is held open.
LEMMA StepEffects ==
  ASSUME NEW p \in Copies, CommandStep(p) \/ EndpointStep(p) \/ Cut(p)
  PROVE  /\ job' = job
         /\ landed' = landed \/ \E files : landed' = [landed EXCEPT ![p] = files]
         /\ moved' = moved \/ (\E f : Moves(f)) \/ moved' = [moved EXCEPT ![p] = FALSE]
         /\ \/ kept' = kept \/ Reopen(p)
            \/ \E f, content : Unname(OpenHere, f, content) \/ Unname(OpenThere, f, content)
         /\ \/ told' = told
            \/ job[p] = "push" /\ told' = [told EXCEPT ![p] = ScanOf(here)]
            \/ told' = [told EXCEPT ![p] = ScanOf(there)]
<1>1. CASE StartScan(p)
  BY <1>1 DEF StartScan, OnlyClient
<1>2. CASE TakeChunk(p)
  <2>1. job' = job /\ moved' = moved /\ told' = told
    BY <1>2 DEF TakeChunk, OnlyClient
  <2>2. landed' = landed \/ \E files : landed' = [landed EXCEPT ![p] = files]
    BY <1>2 DEF TakeChunk, Aside
  <2>3. kept' = kept \/ \E f, content : Unname(OpenHere, f, content)
    BY <1>2 DEF TakeChunk
  <2> QED
    BY <2>1, <2>2, <2>3
<1>3. CASE NextPut(p)
  BY <1>3 DEF NextPut, OnlyClient
<1>4. CASE OpenCopy(p) \/ TakeMissing(p) \/ TakeListing(p)
  BY <1>4 DEF OpenCopy, TakeMissing, TakeListing, OnlyClient
<1>5. CASE NextSupply(p) \/ SendChunk(p) \/ TakePut(p)
  BY <1>5 DEF NextSupply, SendChunk, TakePut, OnlyClient
<1>6. CASE TakeResults(p) \/ TakeSupply(p) \/ Lose(p)
  BY <1>6 DEF TakeResults, TakeSupply, Lose, OnlyClient
<1>7. CASE AnswerScan(p)
  BY <1>7 DEF AnswerScan
<1>8. CASE CreateFile(p)
  <2>1. job' = job /\ told' = told
    BY <1>8 DEF CreateFile, OnlyEndpoint
  <2>2. landed' = landed \/ \E files : landed' = [landed EXCEPT ![p] = files]
    BY <1>8 DEF CreateFile
  <2>3. /\ moved' = moved \/ \E f : Moves(f)
        /\ kept' = kept \/ \E f, content : Unname(OpenThere, f, content)
    BY <1>8 DEF CreateFile
  <2> QED
    BY <2>1, <2>2, <2>3
<1>9. CASE BeginSupply(p)
  BY <1>9 DEF BeginSupply, OnlyEndpoint
<1>10. CASE AnswerQuery(p) \/ BeginPut(p) \/ ReceiveChunk(p) \/ ReceiveEof(p)
  BY <1>10 DEF AnswerQuery, BeginPut, ReceiveChunk, ReceiveEof, OnlyEndpoint
<1>11. CASE BeginTransition(p) \/ EndTransition(p) \/ SupplyChunk(p) \/ StreamEnds(p)
  BY <1>11 DEF BeginTransition, EndTransition, SupplyChunk, StreamEnds, OnlyEndpoint
<1>12. CASE Cut(p)
  BY <1>12 DEF Cut
<1> QED
  BY <1>1, <1>2, <1>3, <1>4, <1>5, <1>6, <1>7, <1>8, <1>9, <1>10, <1>11, <1>12
     DEF CommandStep, EndpointStep

\* Others change none of it, but for a file that somebody holds open.
LEMMA EditEffects ==
  ASSUME Edit
  PROVE  /\ job' = job /\ landed' = landed /\ told' = told
         /\ moved' = moved \/ \E f : Moves(f)
         /\ \/ kept' = kept
            \/ \E f, content : Unname(OpenHere, f, content) \/ Unname(OpenThere, f, content)
<1>1. job' = job /\ landed' = landed /\ told' = told
  BY DEF Edit
<1>2. PICK f \in Files, content \in Contents \union {NoFile} :
        \/ /\ UNCHANGED <<there, moved>>
           /\ IF content = NoFile THEN Unname(OpenHere, f, here[f]) ELSE UNCHANGED kept
        \/ /\ Moves(f)
           /\ IF content = NoFile THEN Unname(OpenThere, f, there[f]) ELSE UNCHANGED kept
  BY DEF Edit
<1> QED
  BY <1>1, <1>2

LEMMA ToldStep ==
  ASSUME LandInv, [CopyNext]_copyVars
  PROVE  ToldTyped'
<1>1. /\ job \in [Copies -> {"push", "pull", "none"}]
      /\ DOMAIN told = Copies /\ DOMAIN landed = Copies /\ DOMAIN moved = Copies /\ DOMAIN kept = Copies
      /\ \A p \in Copies : /\ DOMAIN told[p] \subseteq Files
                           /\ job[p] = "pull" => \A f \in DOMAIN told[p] : IsSeq(told[p][f])
  BY DEF LandInv, ToldTyped
<1>0. \/ \E p \in Copies : CommandStep(p) \/ EndpointStep(p) \/ Cut(p)
      \/ Edit
      \/ UNCHANGED <<job, told, landed, moved, kept>>
  BY DEF CopyNext, copyVars
<1>2. job' = job
  BY <1>0, StepEffects, EditEffects
<1>3. DOMAIN landed' = Copies
  <2>1. landed' = landed \/ \E p \in Copies : \E files : landed' = [landed EXCEPT ![p] = files]
    BY <1>0, StepEffects, EditEffects
  <2> QED
    BY <1>1, <2>1
<1>4. DOMAIN moved' = Copies
  <2>1. \/ moved' = moved \/ (\E f : Moves(f)) \/ \E p \in Copies : moved' = [moved EXCEPT ![p] = FALSE]
    BY <1>0, StepEffects, EditEffects
  <2> QED
    BY <1>1, <2>1 DEF Moves
<1>5. DOMAIN kept' = Copies
  <2>1. \/ kept' = kept \/ \E p \in Copies : Reopen(p)
        \/ \E f, content : Unname(OpenHere, f, content) \/ Unname(OpenThere, f, content)
    BY <1>0, StepEffects, EditEffects
  <2> QED
    BY <1>1, <2>1 DEF Reopen, Unname
<1>7. \/ told' = told
      \/ \E p \in Copies : \/ job[p] = "push" /\ told' = [told EXCEPT ![p] = ScanOf(here)]
                           \/ told' = [told EXCEPT ![p] = ScanOf(there)]
  BY <1>0, StepEffects, EditEffects
<1>8. \A files : DOMAIN ScanOf(files) \subseteq Files
  BY DEF ScanOf, Present
<1>9. \A f \in DOMAIN ScanOf(there) : IsSeq(ScanOf(there)[f])
  BY DEF ScanOf, Present, LandInv, FilesTyped
<1>10. /\ DOMAIN told' = Copies
       /\ \A p \in Copies : /\ DOMAIN told'[p] \subseteq Files
                            /\ job[p] = "pull" => \A f \in DOMAIN told'[p] : IsSeq(told'[p][f])
  <2>1. CASE told' = told
    BY <1>1, <2>1
  <2>2. ASSUME NEW p \in Copies, NEW scan, told' = [told EXCEPT ![p] = scan], DOMAIN scan \subseteq Files,
               job[p] = "push" \/ \A f \in DOMAIN scan : IsSeq(scan[f])
        PROVE  <1>10!1 /\ <1>10!2
    BY <1>1, <2>2
  <2> QED
    BY <1>7, <1>8, <1>9, <2>1, <2>2
<1> QED
  BY <1>1, <1>2, <1>3, <1>4, <1>5, <1>10 DEF ToldTyped

\* What a step of p leaves to another copy.
LEMMA OthersStep ==
  ASSUME LandInv, NEW p \in Copies, CommandStep(p) \/ EndpointStep(p) \/ Cut(p),
         NEW q \in Copies \ {p}
  PROVE  Same(q) /\ Quiet(q)
<1>1. Shapes /\ ToldTyped /\ FilesTyped /\ Jobs(q)
  BY DEF LandInv, StepInv
<1>2. client'[q] = client[q]
  BY <1>1, ClientGrows DEF Turn, Shapes
<1>3. /\ endpoint'[q].at = endpoint[q].at /\ endpoint'[q].name = endpoint[q].name
      /\ endpoint'[q].body = endpoint[q].body /\ endpoint'[q].todo = endpoint[q].todo
      /\ endpoint'[q].failed = endpoint[q].failed
  <2>1. CASE endpoint' = endpoint \/ \E e : Become(p, e)
    BY <1>1, <2>1 DEF Become, Shapes
  <2>2. CASE endpoint' = [CollectStale EXCEPT ![p] = Endpoint("ready")]
    <3>1. endpoint'[q] = CollectStale[q]
      BY <2>2
    <3>2. DOMAIN endpoint[q] = {"at", "name", "size", "body", "put", "todo", "failed"}
      BY <1>1 DEF Shapes
    <3>3. CollectStale[q] = endpoint[q] \/ CollectStale[q] = [endpoint[q] EXCEPT !.put = "collected"]
      BY DEF CollectStale
    <3> QED
      BY <3>1, <3>2, <3>3
  <2> QED
    BY <2>1, <2>2, EndpointGrows
<1>4. up'[q] = up[q]
  <2>1. up' = up \/ \E u : up' = [up EXCEPT ![p] = u]
    BY DEF Cut, CommandStep, OpenCopy, StartScan, TakeMissing, TakeListing, TakePut, TakeChunk, Give,
       TakeResults, Lose, NextPut, NextSupply, SendChunk, TakeSupply, WriteUp, ReadUp,
       EndpointStep, AnswerQuery, AnswerScan, BeginPut, ReceiveChunk, ReceiveEof,
       BeginTransition, CreateFile, EndTransition, BeginSupply, SupplyChunk, StreamEnds
  <2> QED
    BY <1>1, <2>1 DEF Shapes
<1>5. down'[q] = down[q]
  <2>1. down' = down \/ \E d : down' = [down EXCEPT ![p] = d]
    BY DEF Cut, CommandStep, OpenCopy, StartScan, TakeMissing, TakeListing, TakePut, TakeChunk,
       TakeResults, Lose, NextPut, NextSupply, SendChunk, TakeSupply, WriteDown, ReadDown,
       EndpointStep, AnswerQuery, AnswerScan, BeginPut, ReceiveChunk, ReceiveEof, Refuse, Drain,
       BeginTransition, CreateFile, EndTransition, BeginSupply, SupplyChunk, StreamEnds
  <2> QED
    BY <1>1, <2>1 DEF Shapes
<1>6. told'[q] = told[q]
  <2>1. told' = told \/ \E scan : told' = [told EXCEPT ![p] = scan]
    BY DEF Cut, CommandStep, OpenCopy, StartScan, TakeMissing, TakeListing, TakePut, TakeChunk,
       TakeResults, Lose, NextPut, NextSupply, SendChunk, TakeSupply,
       EndpointStep, AnswerQuery, AnswerScan, BeginPut, ReceiveChunk, ReceiveEof,
       BeginTransition, CreateFile, EndTransition, BeginSupply, SupplyChunk, StreamEnds, OnlyEndpoint
  <2> QED
    BY <1>1, <2>1 DEF ToldTyped
<1>7. landed'[q] = landed[q] /\ job'[q] = job[q]
  <2>1. landed' = landed \/ \E files : landed' = [landed EXCEPT ![p] = files]
    BY DEF Cut, CommandStep, OpenCopy, StartScan, TakeMissing, TakeListing, TakePut, TakeChunk,
       TakeResults, Lose, NextPut, NextSupply, SendChunk, TakeSupply, Aside,
       EndpointStep, AnswerQuery, AnswerScan, BeginPut, ReceiveChunk, ReceiveEof,
       BeginTransition, CreateFile, EndTransition, BeginSupply, SupplyChunk, StreamEnds
  <2>2. job' = job
    BY DEF Cut, CommandStep, OpenCopy, StartScan, TakeMissing, TakeListing, TakePut, TakeChunk,
       TakeResults, Lose, NextPut, NextSupply, SendChunk, TakeSupply, OnlyClient,
       EndpointStep, AnswerQuery, AnswerScan, BeginPut, ReceiveChunk, ReceiveEof,
       BeginTransition, CreateFile, EndTransition, BeginSupply, SupplyChunk, StreamEnds, OnlyEndpoint
  <2> QED
    BY <1>1, <2>1, <2>2 DEF ToldTyped
<1>8. Quiet(q)
  <2>1. CASE there' = there /\ kept' = kept /\ moved' = moved
    BY <2>1 DEF Quiet
  <2>2. CASE TakeChunk(p)
    <3>1. there' = there /\ moved' = moved
      BY <2>2 DEF TakeChunk, OnlyClient
    <3>2. kept' = kept \/ \E f, content : Unname(OpenHere, f, content)
      BY <2>2 DEF TakeChunk
    <3>3. client[q].at \in {"supply", "body"} => kept'[q] = kept[q]
      BY <3>2 DEF Unname, OpenHere, At
    <3> QED
      BY <3>1, <3>3 DEF Quiet
  <2>3. CASE CreateFile(p)
    <3>1. CASE there' = there /\ kept' = kept /\ moved' = moved
      BY <2>1, <3>1
    <3>2. ASSUME NEW f, NEW content, there' = [there EXCEPT ![f] = content], Moves(f),
                 Unname(OpenThere, f, there[f])
          PROVE  Quiet(q)
      <4>1. SUFFICES ASSUME ~moved'[q] PROVE Quiet(q)
        BY DEF Quiet
      <4>2. ~moved[q] /\ (job[q] = "pull" => client[q].name # f)
        BY <3>2, <4>1 DEF Moves
      <4>3. client[q].at \in {"supply", "body"} => client[q].name # f
        BY <1>1, <4>2 DEF Jobs
      <4>4. endpoint[q].name # f => kept'[q] = kept[q]
        BY <3>2 DEF Unname, OpenThere
      <4>5. client[q].name # f => there'[client[q].name] = there[client[q].name]
        BY <3>2
      <4> QED
        BY <4>2, <4>3, <4>4, <4>5 DEF Quiet
    <3> QED
      BY <2>3, <3>1, <3>2 DEF CreateFile
  <2>4. CASE NextPut(p)
    BY <1>1, <2>4 DEF NextPut, OnlyClient, Reopen, Quiet, ToldTyped
  <2>5. CASE BeginSupply(p)
    BY <1>1, <2>5 DEF BeginSupply, Reopen, Quiet, ToldTyped
  <2>6. CASE ~TakeChunk(p) /\ ~CreateFile(p) /\ ~NextPut(p) /\ ~BeginSupply(p)
    BY <2>1, <2>6 DEF Cut, CommandStep, OpenCopy, StartScan, TakeMissing, TakeListing, TakePut,
       TakeResults, Lose, NextSupply, SendChunk, TakeSupply, OnlyClient,
       EndpointStep, AnswerQuery, AnswerScan, BeginPut, ReceiveChunk, ReceiveEof,
       BeginTransition, EndTransition, SupplyChunk, StreamEnds
  <2> QED
    BY <2>2, <2>3, <2>4, <2>5, <2>6
<1> QED
  BY <1>2, <1>3, <1>4, <1>5, <1>6, <1>7, <1>8 DEF Same

LEMMA StepLands ==
  ASSUME LandInv, NEW p \in Copies, CommandStep(p) \/ EndpointStep(p) \/ Cut(p),
         Jobs(p)' /\ Progress(p)' /\ Streams(p)'
  PROVE  LandInv'
<1>1. CopyNext
  BY DEF CopyNext
<1>2. StepInv' /\ FilesTyped' /\ StageTyped' /\ BodiesTyped' /\ ToldTyped'
  BY <1>1, StepFits, FilesStep, StageStep, BodiesStep, ToldStep DEF LandInv
<1> QED
  BY <1>2, OthersStep, OneLands

LEMMA EditLands ==
  ASSUME LandInv, Edit
  PROVE  LandInv'
<1>1. StepInv' /\ FilesTyped' /\ StageTyped' /\ BodiesTyped' /\ ToldTyped'
  BY StepFits, FilesStep, StageStep, BodiesStep, ToldStep DEF LandInv, CopyNext
<1>2. ASSUME NEW q \in Copies PROVE Same(q) /\ Quiet(q)
  <2>1. Same(q)
    BY DEF Same, Edit
  <2>2. ToldTyped /\ FilesTyped /\ Jobs(q)
    BY DEF LandInv
  <2>3. PICK f, content : \/ /\ there' = there /\ moved' = moved
                             /\ kept' = kept \/ Unname(OpenHere, f, here[f])
                          \/ /\ there' = [there EXCEPT ![f] = content] /\ Moves(f)
                             /\ kept' = kept \/ Unname(OpenThere, f, there[f])
    BY DEF Edit
  <2>4. CASE /\ there' = there /\ moved' = moved
             /\ kept' = kept \/ Unname(OpenHere, f, here[f])
    <3>1. client[q].at \in {"supply", "body"} => kept'[q] = kept[q]
      BY <2>4 DEF Unname, OpenHere, At
    <3> QED
      BY <2>1, <2>4, <3>1 DEF Quiet
  <2>5. CASE /\ there' = [there EXCEPT ![f] = content] /\ Moves(f)
             /\ kept' = kept \/ Unname(OpenThere, f, there[f])
    <3>1. SUFFICES ASSUME ~moved'[q] PROVE Quiet(q)
      BY <2>1 DEF Quiet
    <3>2. ~moved[q] /\ (job[q] = "pull" => client[q].name # f)
      BY <2>5, <3>1 DEF Moves
    <3>3. client[q].at \in {"supply", "body"} => client[q].name # f
      BY <2>2, <3>2 DEF Jobs
    <3>4. endpoint[q].name # f => kept'[q] = kept[q]
      BY <2>5 DEF Unname, OpenThere
    <3>5. client[q].name # f => there'[client[q].name] = there[client[q].name]
      BY <2>5
    <3> QED
      BY <3>2, <3>3, <3>4, <3>5 DEF Quiet
  <2> QED
    BY <2>1, <2>3, <2>4, <2>5
<1>3. ASSUME NEW q \in Copies PROVE Jobs(q)' /\ Progress(q)' /\ Streams(q)'
  BY <1>2, SameLands DEF LandInv
<1> QED
  BY <1>1, <1>3 DEF LandInv

-----------------------------------------------------------------------------
\* A content on its way, as it is sent and taken.
LEMMA CarriesBegin ==
  ASSUME NEW content, IsSeq(content), NEW frame
  PROVE  Carries(content, <<>>, Append(<<>>, frame), 1)
<1>1. Len(content) \in Nat /\ Len(<<>>) = 0 /\ Len(Append(<<>>, frame)) = 1
  BY SeqLen, EmptyIs, Single
<1> QED
  BY <1>1 DEF Carries

LEMMA CarriesOpen ==
  ASSUME NEW content, NEW d, IsSeq(d), d # <<>>, Carries(content, <<>>, d, 1)
  PROVE  Carries(content, <<>>, Tail(d), 0)
<1> HIDE DEF Eof
<1>1. /\ Len(<<>>) = 0 /\ Len(d) \in Nat /\ Len(Tail(d)) = Len(d) - 1
      /\ \A i \in 1..(Len(d) - 1) : Tail(d)[i] = d[i + 1]
  BY SeqLen, EmptyIs, Tailed
<1>2. ASSUME NEW j \in 1..(Len(d) - 1)
      PROVE  IF Tail(d)[j] = Eof THEN Len(<<>>) + (j - 0) = Len(content) + 1
             ELSE /\ Len(<<>>) + (j - 0) <= Len(content)
                  /\ Tail(d)[j].size = content[Len(<<>>) + (j - 0)]
  <2>1. j + 1 \in 2..Len(d) /\ Tail(d)[j] = d[j + 1]
    BY <1>1
  <2>2. IF d[j + 1] = Eof THEN Len(<<>>) + (j + 1 - 1) = Len(content) + 1
        ELSE /\ Len(<<>>) + (j + 1 - 1) <= Len(content)
             /\ d[j + 1].size = content[Len(<<>>) + (j + 1 - 1)]
    BY <2>1 DEF Carries
  <2> DEFINE n == Len(<<>>)
             i == j + 1
  <2>3. n = 0 /\ j \in Nat /\ i - 1 = j /\ j - 0 = j
    BY <1>1
  <2>4. /\ d[i] = Eof => n + (i - 1) = Len(content) + 1
        /\ d[i] # Eof => n + (i - 1) <= Len(content) /\ d[i].size = content[n + (i - 1)]
    BY <2>2
  <2>5. Tail(d)[j] = d[i]
    BY <2>1
  <2> HIDE DEF i, n
  <2>6. n + (i - 1) = n + (j - 0)
    BY <2>3
  <2>7. IF Tail(d)[j] = Eof THEN n + (j - 0) = Len(content) + 1
        ELSE n + (j - 0) <= Len(content) /\ Tail(d)[j].size = content[n + (j - 0)]
    BY <2>4, <2>5, <2>6
  <2> QED
    BY <2>7 DEF n
<1>3. (0 + 1)..Len(Tail(d)) = 1..(Len(d) - 1)
  BY <1>1
<1> QED
  BY <1>2, <1>3 DEF Carries

LEMMA CarriesTaken ==
  ASSUME NEW content, NEW body, IsSeq(body), NEW d, IsSeq(d), d # <<>>, d[1] # Eof,
         Carries(content, body, d, 0), Len(content) \in Nat
  PROVE  Carries(content, Append(body, d[1].size), Tail(d), 0)
<1> HIDE DEF Eof
<1> DEFINE new == Append(body, d[1].size)
           m == Len(body)
           n == Len(d)
           l == Len(content)
<1>1. /\ m \in Nat /\ n \in Nat /\ n >= 1 /\ l \in Nat
      /\ Len(new) = m + 1 /\ new[m + 1] = d[1].size
      /\ \A i \in 1..m : new[i] = body[i]
      /\ Len(Tail(d)) = n - 1 /\ \A i \in 1..(n - 1) : Tail(d)[i] = d[i + 1]
  BY SeqLen, Appended, Tailed
<1>2. /\ m <= l /\ \A i \in 1..m : body[i] = content[i]
      /\ \A j \in 1..n : /\ d[j] = Eof => m + j = l + 1
                         /\ d[j] # Eof => m + j <= l /\ d[j].size = content[m + j]
  <2>1. /\ m <= l /\ \A i \in 1..m : body[i] = content[i]
        /\ \A j \in (0 + 1)..n : /\ d[j] = Eof => m + (j - 0) = l + 1
                                 /\ d[j] # Eof => m + (j - 0) <= l /\ d[j].size = content[m + (j - 0)]
    BY DEF Carries
  <2>2. 0 + 1 = 1 /\ \A j \in Int : j - 0 = j
    OBVIOUS
  <2> HIDE DEF m, n, l
  <2> QED
    BY <1>1, <2>1, <2>2
<1> HIDE DEF m, n, l, new
<1>3. m + 1 <= l /\ d[1].size = content[m + 1]
  BY <1>1, <1>2
<1>4. \A i \in 1..(m + 1) : new[i] = content[i]
  BY <1>1, <1>2, <1>3
<1>5. ASSUME NEW j \in 1..(n - 1)
      PROVE  /\ Tail(d)[j] = Eof => (m + 1) + j = l + 1
             /\ Tail(d)[j] # Eof => (m + 1) + j <= l /\ Tail(d)[j].size = content[(m + 1) + j]
  <2> DEFINE i == j + 1
  <2>1. i \in 1..n /\ Tail(d)[j] = d[i] /\ m + i = (m + 1) + j
    BY <1>1
  <2> HIDE DEF i
  <2> QED
    BY <1>2, <2>1
<1>6. /\ Len(new) <= l /\ \A i \in 1..Len(new) : new[i] = content[i]
      /\ \A j \in (0 + 1)..Len(Tail(d)) :
           IF Tail(d)[j] = Eof THEN Len(new) + (j - 0) = l + 1
           ELSE Len(new) + (j - 0) <= l /\ Tail(d)[j].size = content[Len(new) + (j - 0)]
  <2>1. 0 + 1 = 1 /\ \A j \in Int : j - 0 = j
    OBVIOUS
  <2>2. \A j \in 1..(n - 1) : (m + 1) + (j - 0) = (m + 1) + j
    BY <1>1
  <2> QED
    BY <1>1, <1>3, <1>4, <1>5, <2>1, <2>2
<1> QED
  BY <1>6 DEF Carries, new, l

LEMMA CarriesSent ==
  ASSUME NEW content, NEW arrived, NEW d, IsSeq(d), NEW k \in {0, 1}, Carries(content, arrived, d, k),
         Len(content) \in Nat, Len(arrived) \in Nat,
         NEW frame,
         \/ frame = Eof /\ Len(arrived) + (Len(d) + 1 - k) = Len(content) + 1
         \/ /\ frame # Eof /\ Len(arrived) + (Len(d) + 1 - k) <= Len(content)
            /\ frame.size = content[Len(arrived) + (Len(d) + 1 - k)]
  PROVE  Carries(content, arrived, Append(d, frame), k)
<1> HIDE DEF Eof
<1> DEFINE new == Append(d, frame)
           n == Len(d)
<1>1. n \in Nat /\ Len(new) = n + 1 /\ new[n + 1] = frame /\ \A i \in 1..n : new[i] = d[i]
  BY SeqLen, Appended
<1>2. ASSUME NEW j \in (k + 1)..n
      PROVE  IF new[j] = Eof THEN Len(arrived) + (j - k) = Len(content) + 1
             ELSE Len(arrived) + (j - k) <= Len(content) /\ new[j].size = content[Len(arrived) + (j - k)]
  <2>1. new[j] = d[j]
    BY <1>1
  <2>2. IF d[j] = Eof THEN Len(arrived) + (j - k) = Len(content) + 1
        ELSE Len(arrived) + (j - k) <= Len(content) /\ d[j].size = content[Len(arrived) + (j - k)]
    BY DEF Carries
  <2> HIDE DEF new, n
  <2> QED
    BY <2>1, <2>2
<1>3. IF new[n + 1] = Eof THEN Len(arrived) + (n + 1 - k) = Len(content) + 1
      ELSE /\ Len(arrived) + (n + 1 - k) <= Len(content)
           /\ new[n + 1].size = content[Len(arrived) + (n + 1 - k)]
  <2> HIDE DEF new
  <2> QED
    BY <1>1
<1>4. Len(arrived) <= Len(content) /\ \A i \in 1..Len(arrived) : arrived[i] = content[i]
  BY DEF Carries
<1> HIDE DEF new, n
<1>5. \A j \in (k + 1)..Len(new) : j \in (k + 1)..n \/ j = n + 1
  BY <1>1
<1>6. \A j \in (k + 1)..Len(new) :
        IF new[j] = Eof THEN Len(arrived) + (j - k) = Len(content) + 1
        ELSE Len(arrived) + (j - k) <= Len(content) /\ new[j].size = content[Len(arrived) + (j - k)]
  <2> SUFFICES ASSUME NEW j \in (k + 1)..Len(new)
               PROVE  IF new[j] = Eof THEN Len(arrived) + (j - k) = Len(content) + 1
                      ELSE /\ Len(arrived) + (j - k) <= Len(content)
                           /\ new[j].size = content[Len(arrived) + (j - k)]
    OBVIOUS
  <2>1. CASE j \in (k + 1)..n
    BY <1>2, <2>1
  <2>2. CASE j = n + 1
    BY <1>1, <1>3, <2>2
  <2> QED
    BY <1>5, <2>1, <2>2
<1> QED
  BY <1>4, <1>6 DEF Carries, new

LEMMA CarriesWhole ==
  ASSUME NEW content, IsSeq(content), NEW body, IsSeq(body), NEW d, IsSeq(d), d # <<>>, d[1] = Eof,
         Carries(content, body, d, 0)
  PROVE  body = content
<1> HIDE DEF Eof
<1>1. /\ Len(content) \in Nat /\ Len(body) \in Nat /\ Len(d) \in Nat /\ Len(d) >= 1
      /\ \A i \in 1..Len(body) : body[i] = content[i]
  BY SeqLen DEF Carries
<1>2. 1 \in (0 + 1)..Len(d)
  BY <1>1
<1>3. Len(body) + (1 - 0) = Len(content) + 1
  BY <1>2 DEF Carries
<1>4. Len(body) = Len(content)
  BY <1>1, <1>3
<1> QED
  BY <1>1, <1>4, SameSeq

-----------------------------------------------------------------------------
\* What each step makes of what its own copy has landed and has on its way.
LEMMA LandSetting ==
  ASSUME LandInv, NEW p \in Copies
  PROVE  /\ StepInv /\ Jobs(p) /\ Progress(p) /\ Streams(p)
         /\ IsSeq(client[p].body) /\ IsSeq(endpoint[p].body)
         /\ DOMAIN client = Copies /\ DOMAIN endpoint = Copies /\ DOMAIN up = Copies /\ DOMAIN down = Copies
         /\ DOMAIN told = Copies /\ DOMAIN landed = Copies /\ DOMAIN moved = Copies /\ DOMAIN kept = Copies
         /\ IsSeq(up[p]) /\ IsSeq(down[p])
         /\ UpFits(client[p].at, endpoint[p].at, up[p])
         /\ DownFits(client[p].at, endpoint[p].at, up[p], down[p])
BY DEF LandInv, BodiesTyped, ToldTyped, StepInv, Shapes, Fits

\* A command that gives up, and an endpoint that is gone.
LEMMA GiveLands ==
  ASSUME LandInv, NEW p \in Copies, CommandStep(p), NEW at \in Ended, Turn(p, Client(at)), up' = up,
         endpoint' = endpoint, job' = job, told' = told
  PROVE  LandInv'
<1>1. client'[p].at = at
  BY LandSetting, Clients DEF Turn
<1> QED
  BY <1>1, EndedLands, StepLands

LEMMA GoneLands ==
  ASSUME LandInv, NEW p \in Copies, EndpointStep(p) \/ Cut(p), Become(p, Endpoint("gone")),
         client' = client, down' = down, told' = told, landed' = landed, job' = job, moved' = moved
  PROVE  LandInv'
<1>1. endpoint'[p].at = "gone"
  BY LandSetting, Endpoints DEF Become
<1>2. Jobs(p) /\ Progress(p) /\ Streams(p)
  BY LandSetting
<1>3. Jobs(p)'
  BY <1>1, <1>2 DEF Jobs, Serves
<1>4. Progress(p)'
  BY <1>1, <1>2 DEF Progress, Serves, At
<1>5. Streams(p)'
  BY <1>1, <1>2 DEF Streams, Serves, At, Reading, Carries
<1> QED
  BY <1>3, <1>4, <1>5, StepLands

LEMMA OpenLands ==
  ASSUME LandInv, NEW p \in Copies, OpenCopy(p)
  PROVE  LandInv'
<1>1. CASE Turn(p, Client("failed")) /\ UNCHANGED endpoint
  BY <1>1, GiveLands DEF OpenCopy, CommandStep, Ended
<1>2. CASE Turn(p, Client("scan")) /\ endpoint' = [CollectStale EXCEPT ![p] = Endpoint("ready")]
  <2>1. client'[p].at = "scan" /\ endpoint'[p].at = "ready"
    BY <1>2, LandSetting, Clients, Endpoints DEF Turn, CollectStale
  <2>2. up' = up /\ landed' = landed /\ up[p] = <<>> /\ landed[p] = {}
    BY LandSetting DEF OpenCopy, At, DownFits, Progress
  <2>3. Jobs(p)' /\ Progress(p)' /\ Streams(p)'
    BY <2>1, <2>2 DEF Jobs, Progress, Streams, Serves, At
  <2> QED
    BY <2>3, StepLands DEF CommandStep
<1> QED
  BY <1>1, <1>2 DEF OpenCopy

LEMMA ScanLands ==
  ASSUME LandInv, NEW p \in Copies, StartScan(p)
  PROVE  LandInv'
<1>1. /\ client[p].at = "scan" /\ up[p] = <<>> /\ down[p] = <<>> /\ endpoint[p].at \in {"ready", "gone"}
      /\ landed[p] = {}
  BY LandSetting DEF StartScan, At, DownFits, Progress
<1>2. endpoint' = endpoint /\ landed' = landed /\ job' = job /\ down' = down
  BY DEF StartScan, OnlyClient
<1>3. CASE Turn(p, Client("next")) /\ up' = up /\ job[p] = "push"
  <2>1. client'[p].at = "next" /\ up'[p] = <<>>
    BY <1>1, <1>3, LandSetting, Clients DEF Turn
  <2>2. Jobs(p)' /\ Progress(p)' /\ Streams(p)'
    BY <1>1, <1>2, <1>3, <2>1 DEF Jobs, Progress, Streams, Serves, At
  <2> QED
    BY <2>2, StepLands DEF CommandStep
<1>4. ASSUME NEW at, NEW frame, Turn(p, Client(at)), WriteUp(p, frame),
             \/ at = "query" /\ frame.kind = "query" /\ job[p] = "push"
             \/ at = "listing" /\ frame.kind = "scan" /\ job[p] = "pull"
      PROVE  LandInv'
  <2>1. client'[p].at = at /\ up'[p] = Append(<<>>, frame)
    BY <1>1, <1>4, LandSetting, Clients DEF Turn, WriteUp
  <2>2. up'[p][1] = frame
    BY <2>1, Single
  <2>3. Jobs(p)'
    BY <1>1, <1>2, <1>4, <2>1, <2>2 DEF Jobs, Serves
  <2>4. Progress(p)' /\ Streams(p)'
    BY <1>1, <1>2, <1>4, <2>1 DEF Progress, Streams, Serves, At
  <2> QED
    BY <2>3, <2>4, StepLands DEF CommandStep
<1>5. \A kind, names : Request(kind, NoFile, 0, names).kind = kind
  BY Kinds
<1> QED
  BY <1>3, <1>4, <1>5 DEF StartScan

LEMMA MissingLands ==
  ASSUME LandInv, NEW p \in Copies, TakeMissing(p) \/ TakePut(p)
  PROVE  LandInv'
<1>1. /\ client[p].at \in {"query", "put"} /\ down[p] # <<>> /\ up[p] = <<>> /\ landed[p] = {}
      /\ job[p] = "push" /\ endpoint[p].at \in {"ready", "gone"}
  BY LandSetting DEF TakeMissing, TakePut, Answered, At, DownFits, Progress, Jobs
<1>2. endpoint' = endpoint /\ landed' = landed /\ job' = job /\ told' = told /\ up' = up
  BY DEF TakeMissing, TakePut, OnlyClient, Give
<1>3. CASE Give(p, "failed")
  BY <1>2, <1>3, GiveLands DEF CommandStep, Ended, Give
<1>4. ASSUME NEW todo, Turn(p, [Client("next") EXCEPT !.todo = todo]) PROVE LandInv'
  <2>1. client'[p].at = "next"
    BY <1>4, LandSetting, Clients DEF Turn
  <2>2. Jobs(p)' /\ Progress(p)' /\ Streams(p)'
    BY <1>1, <1>2, <2>1 DEF Jobs, Progress, Streams, Serves, At
  <2> QED
    BY <2>2, StepLands DEF CommandStep
<1> QED
  BY <1>3, <1>4 DEF TakeMissing, TakePut

LEMMA ListingLands ==
  ASSUME LandInv, NEW p \in Copies, TakeListing(p)
  PROVE  LandInv'
<1>1. /\ client[p].at = "listing" /\ down[p] # <<>> /\ up[p] = <<>> /\ landed[p] = {}
      /\ job[p] = "pull" /\ endpoint[p].at \in {"ready", "gone"}
  BY LandSetting DEF TakeListing, Answered, At, DownFits, Progress, Jobs
<1>2. endpoint' = endpoint /\ landed' = landed /\ job' = job /\ told' = told /\ up' = up
  BY DEF TakeListing, OnlyClient, Give
<1>3. CASE Give(p, "failed")
  BY <1>2, <1>3, GiveLands DEF CommandStep, Ended, Give
<1>4. CASE Turn(p, [Client("next") EXCEPT !.todo = DOMAIN told[p]])
  <2>1. client'[p].at = "next" /\ client'[p].todo = DOMAIN told[p]
    BY <1>4, LandSetting DEF Turn, Client
  <2>2. Jobs(p)' /\ Progress(p)' /\ Streams(p)'
    BY <1>1, <1>2, <2>1 DEF Jobs, Progress, Streams, Serves, At
  <2> QED
    BY <2>2, StepLands DEF CommandStep
<1> QED
  BY <1>3, <1>4 DEF TakeListing

LEMMA NextPutLands ==
  ASSUME LandInv, NEW p \in Copies, NextPut(p)
  PROVE  LandInv'
<1>1. /\ client[p].at = "next" /\ up[p] = <<>> /\ down[p] = <<>> /\ endpoint[p].at \in {"ready", "gone"}
      /\ landed[p] = {} /\ job[p] = "push"
  BY LandSetting DEF NextPut, At, DownFits, Progress
<1>2. endpoint' = endpoint /\ landed' = landed /\ job' = job /\ told' = told /\ down' = down
  BY DEF NextPut, OnlyClient
<1>3. CASE Give(p, "failed")
  BY <1>2, <1>3, GiveLands DEF CommandStep, Ended, Give
<1>4. ASSUME NEW c, NEW frame, Turn(p, c), WriteUp(p, frame),
             \/ c.at = "send" /\ frame.kind = "put"
             \/ c.at = "results" /\ frame.kind = "transition"
      PROVE  LandInv'
  <2>1. client'[p] = c /\ up'[p] = Append(<<>>, frame)
    BY <1>1, <1>4, LandSetting DEF Turn, WriteUp
  <2>2. up'[p][1] = frame
    BY <2>1, Single
  <2>3. Jobs(p)'
    BY <1>1, <1>2, <1>4, <2>1, <2>2 DEF Jobs, Serves
  <2>4. Progress(p)' /\ Streams(p)'
    BY <1>1, <1>2, <1>4, <2>1 DEF Progress, Streams, Serves, At
  <2> QED
    BY <2>3, <2>4, StepLands DEF CommandStep
<1>5. ASSUME NEW digest, NEW n, WriteUp(p, Request("put", digest, n, {})),
             Turn(p, [client[p] EXCEPT !.at = "send", !.name = digest, !.size = n, !.body = <<>>])
      PROVE  LandInv'
  <2> DEFINE c == [client[p] EXCEPT !.at = "send", !.name = digest, !.size = n, !.body = <<>>]
             frame == Request("put", digest, n, {})
  <2>1. Turn(p, c) /\ WriteUp(p, frame) /\ c.at = "send" /\ frame.kind = "put"
    BY <1>5, LandSetting, Setting, Kinds
  <2> HIDE DEF c, frame
  <2> QED
    BY <1>4, <2>1
<1>6. CASE WriteUp(p, Request("transition", NoFile, 0, {})) /\ Turn(p, Client("results"))
  <2>1. Client("results").at = "results" /\ Request("transition", NoFile, 0, {}).kind = "transition"
    BY Clients, Kinds
  <2> QED
    BY <1>4, <1>6, <2>1
<1> QED
  BY <1>3, <1>5, <1>6 DEF NextPut

LEMMA NextSupplyLands ==
  ASSUME LandInv, NEW p \in Copies, NextSupply(p)
  PROVE  LandInv'
<1>1. /\ client[p].at = "next" /\ up[p] = <<>> /\ down[p] = <<>> /\ endpoint[p].at \in {"ready", "gone"}
      /\ job[p] = "pull"
      /\ client[p].todo = DOMAIN told[p] \ landed[p] /\ landed[p] \subseteq DOMAIN told[p]
  BY LandSetting DEF NextSupply, At, DownFits, Progress
<1>2. endpoint' = endpoint /\ landed' = landed /\ job' = job /\ told' = told /\ down' = down
  BY DEF NextSupply, OnlyClient
<1>3. CASE Give(p, "done")
  BY <1>2, <1>3, GiveLands DEF CommandStep, Ended, Give
<1>4. ASSUME NEW f \in client[p].todo, WriteUp(p, Request("supply", f, 0, {})),
             Turn(p, [client[p] EXCEPT !.at = "supply", !.name = f])
      PROVE  LandInv'
  <2> DEFINE frame == Request("supply", f, 0, {})
  <2>1. frame.kind = "supply" /\ frame.name = f
    BY DEF Request, Frame
  <2> HIDE DEF frame
  <2>2. up'[p] = Append(<<>>, frame)
    BY <1>1, <1>4, LandSetting DEF WriteUp, frame
  <2>3. up'[p][1] = frame
    BY <2>2, Single
  <2>4. client'[p].at = "supply" /\ client'[p].name = f /\ client'[p].todo = client[p].todo
    BY <1>4, LandSetting, Setting DEF Turn
  <2>5. Jobs(p)'
    BY <1>1, <1>2, <2>1, <2>3, <2>4 DEF Jobs, Serves
  <2>6. Progress(p)'
    BY <1>1, <1>2, <2>1, <2>3, <2>4 DEF Progress, Serves, At
  <2>7. Streams(p)'
    BY <1>1, <1>2, <2>4 DEF Streams, At
  <2> QED
    BY <2>5, <2>6, <2>7, StepLands DEF CommandStep
<1> QED
  BY <1>3, <1>4 DEF NextSupply

LEMMA SendLands ==
  ASSUME LandInv, NEW p \in Copies, SendChunk(p)
  PROVE  LandInv'
<1>1. /\ client[p].at = "send" /\ landed[p] = {} /\ job[p] = "push"
      /\ endpoint[p].at = "ready" => up[p] # <<>>
      /\ endpoint[p].at \notin {"apply", "supply"}
      /\ Serves(p, "ready") /\ up[p] # <<>> => up[p][1].kind = "put"
  BY LandSetting DEF SendChunk, At, DownFits, UpFits, Ended, Asked, Progress, Jobs, Serves
<1>2. endpoint' = endpoint /\ landed' = landed /\ job' = job /\ told' = told /\ down' = down
  BY DEF SendChunk, OnlyClient
<1>3. CASE Give(p, "failed")
  BY <1>2, <1>3, GiveLands DEF CommandStep, Ended, Give
<1>4. ASSUME NEW c, NEW frame, WriteUp(p, frame), Turn(p, c), c.at \in {"send", "put"}
      PROVE  LandInv'
  <2>1. client'[p] = c /\ up'[p] = Append(up[p], frame)
    BY <1>4, LandSetting DEF Turn, WriteUp
  <2>2. up[p] # <<>> => up'[p][1] = up[p][1]
    <3>1. up[p] # <<>> => 1 \in 1..Len(up[p])
      BY LandSetting, SeqLen
    <3> QED
      BY <2>1, <3>1, LandSetting, Appended
  <2>3. Jobs(p)'
    BY <1>1, <1>2, <1>4, <2>1, <2>2 DEF Jobs, Serves
  <2>4. Progress(p)' /\ Streams(p)'
    BY <1>1, <1>2, <1>4, <2>1 DEF Progress, Streams, Serves, At
  <2> QED
    BY <2>3, <2>4, StepLands DEF CommandStep
<1>5. ASSUME NEW x, WriteUp(p, Chunk(x)), Turn(p, [client[p] EXCEPT !.body = Append(client[p].body, x)])
      PROVE  LandInv'
  <2> DEFINE c == [client[p] EXCEPT !.body = Append(client[p].body, x)]
  <2>1. Turn(p, c) /\ c.at = "send"
    BY <1>1, <1>5, Setting, LandSetting
  <2> HIDE DEF c
  <2> QED
    BY <1>4, <1>5, <2>1
<1>6. CASE WriteUp(p, Eof) /\ Turn(p, [client[p] EXCEPT !.at = "put"])
  <2> DEFINE c == [client[p] EXCEPT !.at = "put"]
  <2>1. Turn(p, c) /\ c.at = "put"
    BY <1>6, Setting, LandSetting
  <2> HIDE DEF c
  <2> QED
    BY <1>4, <1>6, <2>1
<1> QED
  BY <1>3, <1>5, <1>6 DEF SendChunk

LEMMA EndLands ==
  ASSUME LandInv, NEW p \in Copies, TakeResults(p) \/ Lose(p)
  PROVE  LandInv'
<1>1. endpoint' = endpoint /\ job' = job /\ told' = told
  BY DEF TakeResults, Lose, OnlyClient
<1>2. \E at \in Ended : Give(p, at)
  BY DEF TakeResults, Lose, Ended
<1> QED
  BY <1>1, <1>2, GiveLands DEF Give, CommandStep

LEMMA TakeSupplyLands ==
  ASSUME LandInv, NEW p \in Copies, TakeSupply(p)
  PROVE  LandInv'
<1>1. /\ client[p].at = "supply" /\ down[p] # <<>> /\ job[p] = "pull"
      /\ client[p].todo = DOMAIN told[p] \ landed[p] /\ landed[p] \subseteq DOMAIN told[p]
      /\ client[p].name \in client[p].todo
      /\ up[p] = <<>>
  BY LandSetting DEF TakeSupply, At, Answered, DownFits, Progress, Jobs
<1>2. /\ endpoint' = endpoint /\ landed' = landed /\ job' = job /\ told' = told /\ up' = up
      /\ moved' = moved /\ kept' = kept /\ there' = there
  BY DEF TakeSupply, OnlyClient
<1>3. down[p][1].type = "response"
  <2>1. Head(down[p]) = down[p][1] /\ Head(down[p]).kind = "supply"
    BY Setting, LandSetting DEF TakeSupply, Answered
  <2>2. Answer(down[p][1])
    BY <1>1, LandSetting DEF DownFits
  <2> QED
    BY <2>1, <2>2 DEF Answer, Refusal, Frame
<1>4. /\ client'[p].at = "body" /\ client'[p].name = client[p].name /\ client'[p].todo = client[p].todo
      /\ client'[p].body = <<>> /\ down'[p] = Tail(down[p])
  BY LandSetting, Setting DEF TakeSupply, Turn, ReadDown
<1>5. Jobs(p)'
  BY <1>1, <1>2, <1>4, LandSetting DEF Jobs, Serves
<1>6. Progress(p)'
  BY <1>1, <1>2, <1>4, LandSetting DEF Progress, Serves, At
<1>7. Streams(p)'
  <2> SUFFICES ASSUME ~moved'[p] PROVE Streams(p)'
    BY DEF Streams
  <2> DEFINE content == told[p][client[p].name]
  <2>1. Carries(content, <<>>, down[p], 1) /\ Reading(p, content, Len(down[p]) - 1)
    BY <1>1, <1>2, <1>3, LandSetting DEF Streams, At
  <2>2. Carries(content, <<>>, Tail(down[p]), 0)
    BY <1>1, <2>1, CarriesOpen, LandSetting
  <2>3. Len(<<>>) + Len(Tail(down[p])) = Len(down[p]) - 1
    <3>1. Len(Tail(down[p])) = Len(down[p]) - 1 /\ Len(down[p]) \in Nat
      BY <1>1, LandSetting, Tailed, SeqLen
    <3> QED
      BY <3>1, EmptyIs
  <2>4. Reading(p, content, Len(client[p].body) + Len(down[p]))'
    BY <1>2, <1>4, <2>1, <2>3 DEF Reading, Serves
  <2>5. Carries(content, client[p].body, down[p], 0)'
    BY <1>2, <1>4, <2>2 DEF Carries
  <2> QED
    BY <1>4, <2>4, <2>5 DEF Streams, At
<1> QED
  BY <1>5, <1>6, <1>7, StepLands DEF CommandStep

LEMMA TakeChunkLands ==
  ASSUME LandInv, NEW p \in Copies, TakeChunk(p)
  PROVE  LandInv'
<1> HIDE DEF Eof
<1>1. /\ client[p].at = "body" /\ down[p] # <<>> /\ job[p] = "pull" /\ up[p] = <<>>
      /\ client[p].todo = DOMAIN told[p] \ landed[p] /\ landed[p] \subseteq DOMAIN told[p]
      /\ client[p].name \in client[p].todo
      /\ Head(down[p]) = down[p][1] /\ down'[p] = Tail(down[p])
      /\ endpoint[p].at # "apply"
  BY LandSetting, Setting DEF TakeChunk, At, DownFits, UpFits, Ended, Progress, Jobs, ReadDown
<1>2. /\ endpoint' = endpoint /\ job' = job /\ told' = told /\ moved' = moved /\ there' = there
  BY DEF TakeChunk, OnlyClient
<1>3. CASE Head(down[p]) = Eof
  <2>1. /\ landed'[p] = landed[p] \union {client[p].name} /\ up' = up
        /\ Turn(p, [Client("next") EXCEPT !.todo = client[p].todo \ {client[p].name}])
    BY <1>3, LandSetting DEF TakeChunk
  <2>2. client'[p].at = "next" /\ client'[p].todo = client[p].todo \ {client[p].name}
    BY <2>1, LandSetting DEF Turn, Client
  <2>3. Jobs(p)'
    BY <1>1, <1>2, <2>1, <2>2 DEF Jobs, Serves
  <2>4. Progress(p)'
    BY <1>1, <1>2, <2>1, <2>2 DEF Progress, Serves, At
  <2>5. Streams(p)'
    BY <2>2 DEF Streams, At
  <2> QED
    BY <2>3, <2>4, <2>5, StepLands DEF CommandStep
<1>4. CASE Head(down[p]) # Eof
  <2>1. kept' = kept /\ landed' = landed /\ up' = up
    BY <1>4 DEF TakeChunk, Aside, Give
  <2>2. CASE Give(p, "failed")
    BY <1>2, <2>1, <2>2, GiveLands DEF CommandStep, Ended, Give
  <2>3. CASE Turn(p, [client[p] EXCEPT !.body = Append(client[p].body, Head(down[p]).size)])
    <3>1. /\ client'[p].at = "body" /\ client'[p].name = client[p].name /\ client'[p].todo = client[p].todo
          /\ client'[p].body = Append(client[p].body, down[p][1].size)
      BY <1>1, <2>3, LandSetting, Setting DEF Turn
    <3>2. Jobs(p)'
      BY <1>1, <1>2, <2>1, <3>1 DEF Jobs, Serves
    <3>3. Progress(p)'
      BY <1>1, <1>2, <2>1, <3>1 DEF Progress, Serves, At
    <3>4. Streams(p)'
      <4> SUFFICES ASSUME ~moved'[p] PROVE Streams(p)'
        BY DEF Streams
      <4> DEFINE content == told[p][client[p].name]
      <4>1. /\ Carries(content, client[p].body, down[p], 0)
            /\ Reading(p, content, Len(client[p].body) + Len(down[p]))
        BY <1>1, <1>2, LandSetting DEF Streams, At
      <4>2. IsSeq(content)
        BY <1>1 DEF LandInv, ToldTyped
      <4>3. Carries(content, Append(client[p].body, down[p][1].size), Tail(down[p]), 0)
        <5>1. Len(content) \in Nat /\ down[p][1] # Eof
          BY <1>1, <1>4, <4>2, SeqLen
        <5>2. IsSeq(client[p].body) /\ IsSeq(down[p]) /\ down[p] # <<>>
          BY <1>1, LandSetting
        <5> HIDE DEF content
        <5> QED
          BY <4>1, <5>1, <5>2, CarriesTaken
      <4>4. Len(Append(client[p].body, down[p][1].size)) + Len(Tail(down[p]))
              = Len(client[p].body) + Len(down[p])
        <5> DEFINE chunk == down[p][1].size
        <5>1. IsSeq(client[p].body) /\ IsSeq(down[p]) /\ down[p] # <<>>
          BY <1>1, LandSetting
        <5> HIDE DEF chunk
        <5>2. Len(Tail(down[p])) = Len(down[p]) - 1 /\ Len(down[p]) \in Nat
          BY <5>1, Tailed, SeqLen
        <5>3. Len(client[p].body) \in Nat /\ Len(Append(client[p].body, chunk)) = Len(client[p].body) + 1
          BY <5>1, Appended, SeqLen
        <5> DEFINE a == Len(Append(client[p].body, chunk))
                   b == Len(Tail(down[p]))
                   m == Len(client[p].body)
                   n == Len(down[p])
        <5>4. m \in Nat /\ n \in Nat /\ a = m + 1 /\ b = n - 1
          BY <5>2, <5>3
        <5> HIDE DEF a, b, m, n
        <5>5. a + b = m + n
          BY <5>4
        <5> QED
          BY <5>5 DEF chunk, a, b, m, n
      <4>5. Reading(p, content, Len(client[p].body) + Len(down[p]))'
        <5>1. /\ client'[p].name = client[p].name /\ content' = content
              /\ endpoint' = endpoint /\ kept' = kept /\ there' = there
              /\ Len(client[p].body)' + Len(down[p])' = Len(client[p].body) + Len(down[p])
          BY <1>1, <1>2, <2>1, <3>1, <4>4
        <5> HIDE DEF content
        <5> QED
          BY <4>1, <5>1 DEF Reading, Serves
      <4>6. Carries(content, client[p].body, down[p], 0)'
        <5>1. client'[p].body = Append(client[p].body, down[p][1].size) /\ down'[p] = Tail(down[p])
              /\ content' = content
          BY <1>1, <1>2, <3>1
        <5> HIDE DEF content
        <5> QED
          BY <4>3, <5>1 DEF Carries
      <4> QED
        BY <3>1, <4>5, <4>6 DEF Streams, At
    <3> QED
      BY <3>2, <3>3, <3>4, StepLands DEF CommandStep
  <2> QED
    BY <1>4, <2>2, <2>3 DEF TakeChunk
<1> QED
  BY <1>3, <1>4

LEMMA CutLands ==
  ASSUME LandInv, NEW p \in Copies, Cut(p)
  PROVE  LandInv'
<1>1. job' = job /\ told' = told /\ landed' = landed /\ moved' = moved
  BY DEF Cut
<1>2. CASE Become(p, Endpoint("gone")) /\ UNCHANGED <<client, down>>
  BY <1>1, <1>2, GoneLands
<1>3. CASE /\ Turn(p, Client("failed")) /\ endpoint' = endpoint
           /\ up' \in {[up EXCEPT ![p] = SubSeq(@, 1, n)] : n \in 0..Len(up[p])}
  <2>1. client'[p].at = "failed"
    BY <1>3, LandSetting, Clients DEF Turn
  <2>2. PICK n \in 0..Len(up[p]) : up' = [up EXCEPT ![p] = SubSeq(up[p], 1, n)]
    BY <1>3
  <2>3. up'[p] = SubSeq(up[p], 1, n)
    BY <2>2, LandSetting
  <2>4. /\ IsSeq(up'[p]) /\ Len(up'[p]) = n /\ Len(up[p]) \in Nat
        /\ \A i \in 1..n : up'[p][i] = up[p][i]
    BY <2>3, LandSetting, Shortened, SeqLen
  <2>5. up'[p] # <<>> => n # 0
    BY <2>4, SeqLen
  <2>6. up'[p] # <<>> => up[p] # <<>> /\ up'[p][1] = up[p][1]
    <3>1. up[p] = <<>> => Len(up[p]) = 0
      BY EmptyIs
    <3> QED
      BY <2>4, <2>5, <3>1
  <2>7. Jobs(p)'
    BY <1>1, <1>3, <2>1, <2>6, LandSetting DEF Jobs, Serves
  <2>8. Progress(p)'
    BY <1>1, <1>3, <2>1, LandSetting DEF Progress, Serves, At
  <2>9. Streams(p)'
    BY <2>1 DEF Streams, At
  <2> QED
    BY <2>7, <2>8, <2>9, StepLands
<1> QED
  BY <1>2, <1>3 DEF Cut

\* Of the commands that have not ended, those that wait for what the endpoint does.
LEMMA ReadyLands ==
  ASSUME LandInv, NEW p \in Copies, Serves(p, "ready"), up[p] # <<>>
  PROVE  /\ Head(up[p]) = up[p][1]
         /\ client[p].at \in Ended \/ (Asked(client[p].at, up[p][1].kind) /\ down[p] = <<>>)
         /\ up[p][1].kind # "put" => Tail(up[p]) = <<>>
<1>1. Fits(client[p].at, "ready", up[p], down[p])
  BY LandSetting, Setting DEF Serves
<1> QED
  BY <1>1, Requested

LEMMA AnswerLands ==
  ASSUME LandInv, NEW p \in Copies, AnswerQuery(p) \/ AnswerScan(p)
  PROVE  LandInv'
<1>1. Serves(p, "ready") /\ up[p] # <<>> /\ Head(up[p]).kind \in {"query", "scan"}
  BY DEF AnswerQuery, AnswerScan, Arrives
<1>2. client[p].at \in Ended \union {"query", "listing"} /\ Tail(up[p]) = <<>>
  BY <1>1, ReadyLands DEF Asked
<1>3. /\ client' = client /\ job' = job /\ landed' = landed /\ endpoint' = endpoint /\ up'[p] = <<>>
  BY <1>2, LandSetting DEF AnswerQuery, AnswerScan, OnlyEndpoint, ReadUp
<1>4. endpoint[p].at = "ready"
  BY <1>1 DEF Serves
<1>5. Jobs(p)' /\ Progress(p)' /\ Streams(p)'
  BY <1>2, <1>3, <1>4, LandSetting DEF Jobs, Progress, Streams, Serves, At, Ended
<1> QED
  BY <1>5, StepLands DEF EndpointStep

LEMMA PutLands ==
  ASSUME LandInv, NEW p \in Copies, BeginPut(p) \/ ReceiveChunk(p) \/ ReceiveEof(p)
  PROVE  LandInv'
<1>1. client[p].at \in Ended \union {"send", "put"}
  <2>1. CASE BeginPut(p)
    BY <2>1, ReadyLands DEF BeginPut, Arrives, Asked
  <2>2. CASE ReceiveChunk(p) \/ ReceiveEof(p)
    BY <2>2, LandSetting DEF ReceiveChunk, ReceiveEof, Serves, UpFits
  <2> QED
    BY <2>1, <2>2
<1>2. client' = client /\ job' = job /\ landed' = landed /\ told' = told
  BY DEF BeginPut, ReceiveChunk, ReceiveEof, OnlyEndpoint
<1>3. endpoint'[p].at = "body" \/ (endpoint'[p].at = "ready" /\ up'[p] = <<>>)
  <2>1. CASE BeginPut(p)
    <3>1. \A name, size : [Endpoint("body") EXCEPT !.name = name, !.size = size, !.put = "whole"].at = "body"
      BY DEF Endpoint
    <3> QED
      BY <2>1, <3>1, LandSetting DEF BeginPut, Become
  <2>2. CASE ReceiveChunk(p)
    <3>1. endpoint[p].at = "body" /\ DOMAIN endpoint[p] = {"at", "name", "size", "body", "put", "todo", "failed"}
      BY <2>2, LandSetting, Setting DEF ReceiveChunk, Serves
    <3>2. /\ [endpoint[p] EXCEPT !.put = "failed"].at = "body"
          /\ \A body : [endpoint[p] EXCEPT !.body = body].at = "body"
      BY <3>1
    <3>3. PICK e : Become(p, e) /\ e.at = "body"
      BY <2>2, <3>2 DEF ReceiveChunk, Drain
    <3> QED
      BY <3>3, LandSetting DEF Become
  <2>3. CASE ReceiveEof(p)
    <3>1. endpoint'[p].at = "ready" /\ up'[p] = Tail(up[p])
      BY <2>3, LandSetting, Endpoints DEF ReceiveEof, Become, ReadUp
    <3>2. up[p] # <<>> /\ up[p][1] = Eof /\ Body(up[p], 1)
      BY <2>3, LandSetting, Setting DEF ReceiveEof, UpFits, Serves
    <3>3. Len(up[p]) = 1
      <4>1. 1 \in 1..Len(up[p])
        BY <3>2, LandSetting, SeqLen
      <4> HIDE DEF Eof
      <4> QED
        BY <3>2, <4>1 DEF Body
    <3> QED
      BY <3>1, <3>3, LandSetting, OnlyOne
  <2> QED
    BY <2>1, <2>2, <2>3
<1>4. Jobs(p)' /\ Progress(p)' /\ Streams(p)'
  BY <1>1, <1>2, <1>3, LandSetting DEF Jobs, Progress, Streams, Serves, At, Ended
<1> QED
  BY <1>4, StepLands DEF EndpointStep

LEMMA BeginTransitionLands ==
  ASSUME LandInv, NEW p \in Copies, BeginTransition(p)
  PROVE  LandInv'
<1>1. Serves(p, "ready") /\ up[p] # <<>> /\ Head(up[p]).kind = "transition"
  BY DEF BeginTransition, Arrives
<1>2. /\ client[p].at \in Ended \/ (client[p].at = "results" /\ landed[p] = {} /\ down[p] = <<>>)
      /\ job[p] = "push"
  BY <1>1, ReadyLands, LandSetting DEF Asked, Progress, Jobs, At
<1>3. /\ client' = client /\ job' = job /\ landed' = landed /\ told' = told /\ down' = down
      /\ Become(p, [Endpoint("apply") EXCEPT !.todo = DOMAIN told[p]])
  BY DEF BeginTransition, OnlyEndpoint
<1>4. endpoint'[p].at = "apply" /\ endpoint'[p].todo = DOMAIN told[p] /\ endpoint'[p].failed = FALSE
  BY <1>3, LandSetting DEF Become, Endpoint
<1>5. Jobs(p)'
  BY <1>2, <1>3, <1>4, LandSetting DEF Jobs, Serves
<1>6. Progress(p)' /\ Streams(p)'
  BY <1>2, <1>3, <1>4 DEF Progress, Streams, Serves, At, Ended
<1> QED
  BY <1>5, <1>6, StepLands DEF EndpointStep

LEMMA CreateLands ==
  ASSUME LandInv, NEW p \in Copies, CreateFile(p)
  PROVE  LandInv'
<1>1. /\ endpoint[p].at = "apply" /\ job[p] = "push" /\ endpoint[p].todo \subseteq DOMAIN told[p]
      /\ client[p].at \in Ended \union {"results"}
      /\ client[p].at = "results" => down[p] = <<>>
      /\ client[p].at = "results" /\ ~endpoint[p].failed => landed[p] = DOMAIN told[p] \ endpoint[p].todo
  BY LandSetting DEF CreateFile, Serves, Jobs, Progress, UpFits, DownFits, At
<1>2. client' = client /\ job' = job /\ told' = told /\ up' = up /\ down' = down
  BY DEF CreateFile, OnlyEndpoint
<1>3. PICK f \in endpoint[p].todo :
        LET rest == [endpoint[p] EXCEPT !.todo = endpoint[p].todo \ {f}]
        IN \/ landed' = [landed EXCEPT ![p] = landed[p] \union {f}] /\ Become(p, rest)
           \/ landed' = landed /\ Become(p, [rest EXCEPT !.failed = TRUE])
  BY DEF CreateFile
<1>4. /\ endpoint'[p].at = "apply" /\ endpoint'[p].todo = endpoint[p].todo \ {f}
      /\ \/ endpoint'[p].failed = TRUE
         \/ endpoint'[p].failed = endpoint[p].failed /\ landed'[p] = landed[p] \union {f}
  <2>1. DOMAIN endpoint = Copies /\ DOMAIN landed = Copies
        /\ {"at", "todo", "failed"} \subseteq DOMAIN endpoint[p]
    BY LandSetting, Setting
  <2>2. CASE landed' = landed /\ Become(p, [[endpoint[p] EXCEPT !.todo = endpoint[p].todo \ {f}] EXCEPT !.failed = TRUE])
    BY <1>1, <2>1, <2>2 DEF Become
  <2>3. CASE /\ landed' = [landed EXCEPT ![p] = landed[p] \union {f}]
             /\ Become(p, [endpoint[p] EXCEPT !.todo = endpoint[p].todo \ {f}])
    BY <1>1, <2>1, <2>3 DEF Become
  <2> QED
    BY <1>3, <2>2, <2>3
<1>5. Jobs(p)'
  BY <1>1, <1>2, <1>4, LandSetting DEF Jobs, Serves
<1>6. Progress(p)'
  BY <1>1, <1>2, <1>4 DEF Progress, Serves, At, Ended
<1>7. Streams(p)'
  BY <1>1, <1>2 DEF Streams, At, Ended
<1> QED
  BY <1>5, <1>6, <1>7, StepLands DEF EndpointStep

LEMMA EndTransitionLands ==
  ASSUME LandInv, NEW p \in Copies, EndTransition(p)
  PROVE  LandInv'
<1>1. /\ endpoint[p].at = "apply" /\ endpoint[p].todo = {} /\ up[p] = <<>>
      /\ client[p].at \in Ended \union {"results"}
      /\ client[p].at = "results" => down[p] = <<>>
      /\ client[p].at = "results" /\ ~endpoint[p].failed => landed[p] = DOMAIN told[p] \ endpoint[p].todo
  BY LandSetting DEF EndTransition, Serves, Progress, UpFits, DownFits, At
<1>2. client' = client /\ job' = job /\ told' = told /\ up' = up /\ landed' = landed
  BY DEF EndTransition, OnlyEndpoint
<1>3. endpoint'[p].at = "ready"
  BY LandSetting, Endpoints DEF EndTransition, Become
<1> DEFINE frame == Response("transition", NoFile, 0, IF endpoint[p].failed THEN {NoFile} ELSE {})
<1>4. frame.names = {} => ~endpoint[p].failed
  BY DEF Response, Frame
<1>5. down'[p] = Append(down[p], frame)
  BY LandSetting DEF EndTransition, WriteDown
<1> HIDE DEF frame
<1>6. down[p] = <<>> => down'[p][1] = frame
  BY <1>5, Single
<1>7. Jobs(p)'
  BY <1>1, <1>2, <1>3, LandSetting DEF Jobs, Serves
<1>8. Progress(p)' /\ Streams(p)'
  BY <1>1, <1>2, <1>3, <1>4, <1>6 DEF Progress, Streams, Serves, At, Ended
<1> QED
  BY <1>7, <1>8, StepLands DEF EndpointStep

LEMMA BeginSupplyLands ==
  ASSUME LandInv, NEW p \in Copies, BeginSupply(p)
  PROVE  LandInv'
<1>1. Serves(p, "ready") /\ up[p] # <<>> /\ Head(up[p]).kind = "supply"
  BY DEF BeginSupply, Arrives
<1> DEFINE f == up[p][1].name
<1>2. /\ client[p].at \in Ended \/ (client[p].at = "supply" /\ down[p] = <<>> /\ f = client[p].name)
      /\ job[p] = "pull" /\ Head(up[p]) = up[p][1] /\ Tail(up[p]) = <<>>
  BY <1>1, ReadyLands, LandSetting DEF Asked, Progress, Jobs, At
<1>3. /\ client' = client /\ job' = job /\ landed' = landed /\ told' = told /\ there' = there
      /\ up'[p] = <<>>
  BY <1>2, LandSetting DEF BeginSupply, OnlyEndpoint, ReadUp
<1> DEFINE sized == Response("supply", f, Len(there[f]), {})
           serving == [Endpoint("supply") EXCEPT !.name = f]
<1>4. CASE /\ there[f] = told[p][f] /\ WriteDown(p, sized) /\ Become(p, serving)
           /\ moved' = [moved EXCEPT ![p] = FALSE] /\ Reopen(p)
  <2>1. endpoint'[p].at = "supply" /\ endpoint'[p].name = f /\ endpoint'[p].body = <<>> /\ kept'[p] = NoFile
    BY <1>4, LandSetting DEF Become, Endpoint, Reopen
  <2>2. down'[p] = Append(down[p], sized)
    BY <1>4, LandSetting DEF WriteDown
  <2> HIDE DEF sized, serving
  <2>3. Jobs(p)'
    BY <1>2, <1>3, <2>1, LandSetting DEF Jobs, Serves
  <2>4. Progress(p)'
    BY <1>2, <1>3, <2>1, LandSetting DEF Progress, Serves, At, Ended
  <2>5. Streams(p)'
    <3>1. SUFFICES ASSUME client[p].at = "supply" PROVE Streams(p)'
      BY <1>2, <1>3 DEF Streams, At, Ended
    <3> DEFINE content == told[p][client[p].name]
    <3>2. f = client[p].name /\ down'[p] = Append(<<>>, sized) /\ there[client[p].name] = content
      BY <1>2, <1>4, <2>2, <3>1 DEF Ended
    <3>3. IsSeq(content)
      <4>1. client[p].name \in DOMAIN told[p]
        BY <3>1, LandSetting DEF Progress, At
      <4> QED
        BY <1>2, <4>1 DEF LandInv, ToldTyped
    <3>4. Carries(content, <<>>, down[p], 1)'
      <4>1. Carries(content, <<>>, Append(<<>>, sized), 1)
        BY <3>3, CarriesBegin
      <4> QED
        BY <1>3, <3>2, <4>1 DEF Carries
    <3>5. Reading(p, content, Len(down[p]) - 1)'
      <4>1. Len(down'[p]) - 1 = 0 /\ Len(content) \in Nat /\ Len(<<>>) = 0
        BY <3>2, <3>3, Single, SeqLen, EmptyIs
      <4> HIDE DEF content
      <4>2. 0 <= Len(content)
        BY <4>1
      <4> QED
        BY <1>3, <2>1, <3>2, <4>1, <4>2 DEF Reading, content
    <3> QED
      BY <1>3, <3>1, <3>4, <3>5 DEF Streams, At
  <2> QED
    BY <2>3, <2>4, <2>5, StepLands DEF EndpointStep
<1>5. CASE WriteDown(p, Refusal) /\ UNCHANGED <<endpoint, kept, moved>>
  <2>1. down'[p] = Append(down[p], Refusal) /\ endpoint' = endpoint /\ endpoint[p].at = "ready"
    BY <1>1, <1>5, LandSetting DEF WriteDown, Serves
  <2>2. Refusal.type # "response"
    BY DEF Refusal, Frame
  <2>3. client[p].at = "supply" => down'[p][1] = Refusal
    BY <1>2, <2>1, Single DEF Ended
  <2>4. Jobs(p)'
    BY <1>2, <1>3, <2>1, LandSetting DEF Jobs, Serves
  <2>5. Progress(p)'
    BY <1>2, <1>3, <2>1, LandSetting DEF Progress, Serves, At, Ended
  <2>6. Streams(p)'
    BY <1>2, <1>3, <2>2, <2>3 DEF Streams, At, Ended
  <2> QED
    BY <2>4, <2>5, <2>6, StepLands DEF EndpointStep
<1> QED
  BY <1>2, <1>4, <1>5 DEF BeginSupply

LEMMA SupplyChunkLands ==
  ASSUME LandInv, NEW p \in Copies, SupplyChunk(p)
  PROVE  LandInv'
<1> HIDE DEF Eof
<1>1. endpoint[p].at = "supply" /\ client[p].at \in Ended \union {"supply", "body"} /\ up[p] = <<>>
  BY LandSetting DEF SupplyChunk, Serves, UpFits
<1>2. /\ client' = client /\ job' = job /\ landed' = landed /\ told' = told /\ there' = there
      /\ kept' = kept /\ moved' = moved /\ up' = up
  BY DEF SupplyChunk, OnlyEndpoint
<1> DEFINE e == endpoint[p]
           now == Reads(p, there[e.name])
           i == Len(e.body) + 1
           content == told[p][client[p].name]
           at == IF client[p].at = "supply" THEN 1 ELSE 0
           arrived == IF client[p].at = "supply" THEN <<>> ELSE client[p].body
<1>3. ASSUME ~moved[p], client[p].at \in {"supply", "body"}
      PROVE  /\ now = content /\ IsSeq(content) /\ IsSeq(arrived)
             /\ Carries(content, arrived, down[p], at)
             /\ Len(e.body) = Len(arrived) + (Len(down[p]) - at) /\ Len(e.body) <= Len(content)
             /\ client[p].at = "supply" => down[p] # <<>> /\ down[p][1].type = "response"
             /\ e.name = client[p].name /\ kept[p] = NoFile /\ there[client[p].name] = content
  <2>1. IsSeq(content)
    <3>1. client[p].name \in DOMAIN told[p] /\ job[p] = "pull"
      BY <1>3, LandSetting DEF Progress, Jobs, At
    <3> QED
      BY <3>1 DEF LandInv, ToldTyped
  <2>2. CASE client[p].at = "supply"
    <3>1. down[p] # <<>> /\ down[p][1].type = "response"
      BY <1>1, <2>2, LandSetting DEF DownFits, Answer
    <3>2. Carries(content, <<>>, down[p], 1) /\ Reading(p, content, Len(down[p]) - 1)
      BY <1>3, <2>2, <3>1, LandSetting DEF Streams, At
    <3>3. Len(<<>>) = 0 /\ Len(down[p]) \in Nat
      BY LandSetting, SeqLen, EmptyIs
    <3>4. /\ e.name = client[p].name /\ kept[p] = NoFile /\ there[client[p].name] = content
          /\ Len(e.body) = Len(down[p]) - 1 /\ Len(down[p]) - 1 <= Len(content)
      BY <1>1, <3>2 DEF Reading, Serves
    <3>5. now = content
      BY <3>4 DEF Reads
    <3>6. Len(<<>>) + (Len(down[p]) - 1) = Len(down[p]) - 1
      BY <3>3
    <3> QED
      BY <2>1, <2>2, <3>1, <3>2, <3>4, <3>5, <3>6, EmptyIs
  <2>3. CASE client[p].at = "body"
    <3>1. Carries(content, client[p].body, down[p], 0) /\ Reading(p, content, Len(client[p].body) + Len(down[p]))
      BY <1>3, <2>3, LandSetting DEF Streams, At
    <3>2. Len(down[p]) \in Nat /\ IsSeq(client[p].body)
      BY LandSetting, SeqLen
    <3>3. /\ e.name = client[p].name /\ kept[p] = NoFile /\ there[client[p].name] = content
          /\ Len(e.body) = Len(client[p].body) + Len(down[p])
          /\ Len(client[p].body) + Len(down[p]) <= Len(content)
      BY <1>1, <3>1 DEF Reading, Serves
    <3>4. now = content
      BY <3>3 DEF Reads
    <3>5. Len(down[p]) - 0 = Len(down[p])
      BY <3>2
    <3> QED
      BY <2>1, <2>3, <3>1, <3>2, <3>3, <3>4, <3>5
  <2> QED
    BY <1>3, <2>2, <2>3
<1>4. CASE Become(p, Endpoint("gone")) /\ UNCHANGED down
  BY <1>2, <1>4, GoneLands DEF EndpointStep
<1>5. ASSUME NEW frame, NEW new, WriteDown(p, frame), Become(p, new),
             \/ /\ frame = Eof /\ new.at = "ready" /\ i > Len(now)
             \/ /\ frame # Eof /\ frame.size = now[i] /\ i <= Len(now)
                /\ new.at = "supply" /\ new.name = e.name /\ Len(new.body) = i
      PROVE  LandInv'
  <2>1. endpoint'[p] = new /\ down'[p] = Append(down[p], frame) /\ new.at \in {"ready", "supply"}
    BY <1>5, LandSetting DEF Become, WriteDown
  <2>2. Jobs(p)'
    BY <1>1, <1>2, <2>1, LandSetting DEF Jobs, Serves
  <2>3. Progress(p)'
    BY <1>1, <1>2, <2>1, LandSetting DEF Progress, Serves, At, Ended
  <2>4. Streams(p)'
    <3>1. SUFFICES ASSUME ~moved[p], client[p].at \in {"supply", "body"} PROVE Streams(p)'
      BY <1>1, <1>2 DEF Streams, At, Ended
    <3> DEFINE m == Len(arrived)
               n == Len(down[p])
               l == Len(content)
               sent == Len(e.body)
    <3>2. /\ now = content /\ IsSeq(content) /\ IsSeq(arrived) /\ IsSeq(down[p])
          /\ Carries(content, arrived, down[p], at) /\ sent = m + (n - at) /\ sent <= l
          /\ client[p].at = "supply" => down[p] # <<>> /\ down[p][1].type = "response"
          /\ e.name = client[p].name /\ kept[p] = NoFile /\ there[client[p].name] = content
      BY <1>3, <3>1, LandSetting
    <3>3. at \in {0, 1} /\ (client[p].at = "supply" => at = 1 /\ m = 0) /\ (client[p].at = "body" => at = 0)
      BY EmptyIs
    <3>4. m \in Nat /\ n \in Nat /\ l \in Nat /\ sent \in Nat
      BY <3>2, LandSetting, SeqLen
    <3>5. Len(now) = l
      BY <3>2
    <3>6. Len(down'[p]) = n + 1 /\ \A j \in 1..n : down'[p][j] = down[p][j]
      BY <2>1, <3>2, Appended
    <3>7. i = m + (n + 1 - at) /\ i \in Nat /\ (i > l => i = l + 1)
      <4> HIDE DEF m, n, l, at, sent
      <4>1. sent + 1 = m + (n + 1 - at) /\ sent + 1 \in Nat /\ (sent + 1 > l => sent + 1 = l + 1)
        BY <3>2, <3>3, <3>4
      <4> QED
        BY <4>1 DEF sent
    <3> HIDE DEF m, n, l, at, i, sent, now, content, arrived
    <3>8. \/ frame = Eof /\ m + (n + 1 - at) = l + 1
          \/ /\ frame # Eof /\ m + (n + 1 - at) <= l /\ frame.size = content[m + (n + 1 - at)]
      BY <1>5, <3>2, <3>5, <3>7
    <3>9. Carries(content, arrived, down'[p], at)
      BY <2>1, <3>2, <3>3, <3>4, <3>8, CarriesSent DEF m, n, l
    <3>10. Serves(p, "supply")' =>
             /\ endpoint'[p].name = client[p].name /\ kept'[p] = NoFile
             /\ there'[client[p].name] = content
             /\ Len(endpoint'[p].body) = i /\ i <= l
      BY <1>2, <1>5, <2>1, <3>2, <3>5 DEF Serves
    <3>11. CASE client[p].at = "supply"
      <4>1. down'[p][1] = down[p][1] /\ down'[p] # <<>>
        <5>1. down[p] # <<>> /\ n >= 1
          BY <3>2, <3>11, SeqLen DEF n
        <5>2. 1 \in 1..n
          BY <3>4, <5>1
        <5>3. down'[p] # <<>>
          BY <2>1, <3>2, Appended
        <5> QED
          BY <3>6, <5>2, <5>3
      <4>2. Len(down'[p]) - 1 = i
        BY <3>3, <3>4, <3>6, <3>7, <3>11
      <4>3. Carries(content, <<>>, down'[p], 1)
        BY <3>3, <3>9, <3>11 DEF arrived
      <4>4. client'[p].at = "supply" /\ client' = client /\ told' = told
        BY <1>2, <3>11
      <4>5. Carries(told[p][client[p].name], <<>>, down[p], 1)'
        BY <4>3, <4>4 DEF Carries, content
      <4>6. Reading(p, told[p][client[p].name], Len(down[p]) - 1)'
        BY <3>10, <4>2, <4>4 DEF Reading, content, l
      <4> QED
        BY <4>4, <4>5, <4>6 DEF Streams, At
    <3>12. CASE client[p].at = "body"
      <4>1. m + Len(down'[p]) = i
        BY <3>3, <3>4, <3>6, <3>7, <3>12
      <4>2. Carries(content, client[p].body, down'[p], 0) /\ m = Len(client[p].body)
        BY <3>3, <3>9, <3>12 DEF arrived, m
      <4>3. client'[p].at = "body" /\ client' = client /\ told' = told
        BY <1>2, <3>12
      <4>4. Carries(told[p][client[p].name], client[p].body, down[p], 0)'
        BY <4>2, <4>3 DEF Carries, content
      <4>5. Reading(p, told[p][client[p].name], Len(client[p].body) + Len(down[p]))'
        BY <3>10, <4>1, <4>2, <4>3 DEF Reading, content, l
      <4> QED
        BY <4>3, <4>4, <4>5 DEF Streams, At
    <3> QED
      BY <3>1, <3>11, <3>12
  <2> QED
    BY <2>2, <2>3, <2>4, StepLands DEF EndpointStep
<1>6. CASE i <= Len(now) /\ WriteDown(p, Chunk(now[i])) /\ Become(p, [e EXCEPT !.body = Append(e.body, now[i])])
  <2> DEFINE frame == Chunk(now[i])
             new == [e EXCEPT !.body = Append(e.body, now[i])]
  <2>1. frame # Eof /\ frame.size = now[i]
    BY Kinds DEF Chunk, Frame
  <2>2. new.at = "supply" /\ new.name = e.name /\ new.body = Append(e.body, now[i])
    BY <1>1, LandSetting, Setting
  <2>3. Len(new.body) = i
    BY <2>2, LandSetting, Appended
  <2>4. WriteDown(p, frame) /\ Become(p, new) /\ i <= Len(now)
    BY <1>6
  <2> HIDE DEF frame, new, i, now
  <2> QED
    BY <1>5, <2>1, <2>2, <2>3, <2>4
<1>7. CASE i > Len(now) /\ WriteDown(p, Eof) /\ Become(p, Endpoint("ready"))
  BY <1>5, <1>7, Endpoints
<1> QED
  BY <1>4, <1>6, <1>7 DEF SupplyChunk

LEMMA InitLands == CopyInit => LandInv
<1> SUFFICES ASSUME CopyInit PROVE LandInv
  OBVIOUS
<1>1. PICK s \in Starts : here = s.here /\ there = s.there /\ job = s.job
  BY DEF CopyInit
<1>2. FilesTyped
  <2>1. here \in [Files -> Contents \union {NoFile}] /\ there \in [Files -> Contents \union {NoFile}]
    BY <1>1, CopyAssumption DEF CopyAssumption
  <2>2. \A content \in Contents \union {NoFile} : content = NoFile \/ IsSeq(content)
    BY CopyAssumption, SeqIs DEF CopyAssumption
  <2> QED
    BY <2>1, <2>2 DEF FilesTyped
<1>3. ToldTyped
  <2>1. job \in [Copies -> {"push", "pull", "none"}]
    BY <1>1, CopyAssumption DEF CopyAssumption
  <2> QED
    BY <2>1 DEF CopyInit, ToldTyped, NoFiles
<1>4. StageTyped /\ BodiesTyped
  BY EmptyIs DEF CopyInit, StageTyped, BodiesTyped, NoFiles, Client, Endpoint
<1>5. ASSUME NEW p \in Copies PROVE Jobs(p) /\ Progress(p) /\ Streams(p)
  <2>1. client[p].at = "dial" /\ endpoint[p].at = "gone" /\ landed[p] = {}
    BY DEF CopyInit, Client, Endpoint
  <2> QED
    BY <2>1 DEF Jobs, Progress, Streams, Serves, At
<1> QED
  BY <1>2, <1>3, <1>4, <1>5, InitFits DEF LandInv

LEMMA NextLands == LandInv /\ [CopyNext]_copyVars => LandInv'
<1> SUFFICES ASSUME LandInv, [CopyNext]_copyVars PROVE LandInv'
  OBVIOUS
<1>1. CASE UNCHANGED copyVars
  <2>1. StepInv' /\ FilesTyped' /\ StageTyped' /\ BodiesTyped' /\ ToldTyped'
    BY StepFits, FilesStep, StageStep, BodiesStep, ToldStep DEF LandInv
  <2>2. ASSUME NEW q \in Copies PROVE Same(q) /\ Quiet(q)
    BY <1>1 DEF copyVars, Same, Quiet
  <2>3. ASSUME NEW q \in Copies PROVE Jobs(q)' /\ Progress(q)' /\ Streams(q)'
    BY <2>2, SameLands DEF LandInv
  <2> QED
    BY <2>1, <2>3 DEF LandInv
<1>2. ASSUME NEW p \in Copies, CommandStep(p) PROVE LandInv'
  BY <1>2, OpenLands, ScanLands, MissingLands, ListingLands, NextPutLands, NextSupplyLands,
     SendLands, EndLands, TakeSupplyLands, TakeChunkLands DEF CommandStep
<1>3. ASSUME NEW p \in Copies, EndpointStep(p) PROVE LandInv'
  <2>1. CASE StreamEnds(p)
    BY <2>1, GoneLands DEF StreamEnds, OnlyEndpoint, EndpointStep
  <2> QED
    BY <1>3, <2>1, AnswerLands, PutLands, BeginTransitionLands, CreateLands, EndTransitionLands,
       BeginSupplyLands, SupplyChunkLands DEF EndpointStep
<1> QED
  BY <1>1, <1>2, <1>3, EditLands, CutLands DEF CopyNext

LEMMA LandInvariant == CopySpec => []LandInv
BY InitLands, NextLands, PTL DEF CopySpec

\* The steps that put a file under its name, and the step that says it is done.
LEMMA PushLands ==
  ASSUME LandInv, NEW p \in Copies, CreateFile(p)
  PROVE  job[p] = "push" /\ \A f \in landed'[p] \ landed[p] : told[p][f] = there'[f]
<1>1. job[p] = "push" /\ endpoint[p].todo \subseteq DOMAIN told[p] /\ DOMAIN told[p] \subseteq Files
  BY LandSetting DEF CreateFile, Jobs, Progress, LandInv, ToldTyped
<1>2. PICK f \in endpoint[p].todo :
        \/ /\ told[p][f] \in DOMAIN stage
           /\ there' = [there EXCEPT ![f] = stage[told[p][f]]]
           /\ landed' = [landed EXCEPT ![p] = landed[p] \union {f}]
        \/ landed' = landed
  BY DEF CreateFile
<1>3. \A digest \in DOMAIN stage : stage[digest] = digest
  BY DEF LandInv, StageTyped
<1>4. f \in DOMAIN there
  BY <1>1 DEF LandInv, FilesTyped
<1> QED
  BY <1>1, <1>2, <1>3, <1>4, LandSetting

LEMMA PullLands ==
  ASSUME LandInv, NEW p \in Copies, TakeChunk(p)
  PROVE  job[p] = "pull" /\ \A f \in landed'[p] \ landed[p] : told[p][f] = here'[f] \/ moved[p]
<1> HIDE DEF Eof
<1>1. /\ client[p].at = "body" /\ down[p] # <<>> /\ Head(down[p]) = down[p][1] /\ job[p] = "pull"
      /\ client[p].name \in DOMAIN told[p]
  BY LandSetting, Setting DEF TakeChunk, At, Jobs, Progress
<1>2. CASE Head(down[p]) # Eof
  BY <1>1, <1>2 DEF TakeChunk, Aside
<1>3. CASE Head(down[p]) = Eof
  <2> DEFINE f == client[p].name
  <2>1. /\ here' = [here EXCEPT ![f] = client[p].body]
        /\ landed' = [landed EXCEPT ![p] = landed[p] \union {f}]
    BY <1>3 DEF TakeChunk
  <2>2. f \in DOMAIN here
    BY <1>1 DEF LandInv, ToldTyped, FilesTyped
  <2>3. here'[f] = client[p].body /\ \A g \in landed'[p] \ landed[p] : g = f
    BY <2>1, <2>2, LandSetting
  <2>4. ~moved[p] => client[p].body = told[p][f]
    <3>1. SUFFICES ASSUME ~moved[p] PROVE client[p].body = told[p][f]
      OBVIOUS
    <3>2. Carries(told[p][f], client[p].body, down[p], 0)
      BY <1>1, <3>1, LandSetting DEF Streams, At
    <3>3. IsSeq(told[p][f])
      BY <1>1 DEF LandInv, ToldTyped
    <3> QED
      BY <1>1, <1>3, <3>2, <3>3, CarriesWhole, LandSetting
  <2> QED
    BY <1>1, <2>3, <2>4
<1> QED
  BY <1>2, <1>3

LEMMA DoneLands ==
  ASSUME LandInv, NEW p \in Copies, CommandStep(p), client'[p].at = "done", client[p].at # "done"
  PROVE  landed'[p] = DOMAIN told'[p]
<1>1. NextSupply(p) \/ TakeResults(p)
  <2>1. /\ \A at : Client(at).at = at
        /\ \A at, todo : [Client(at) EXCEPT !.todo = todo].at = at
    BY Clients
  <2>2. /\ DOMAIN client = Copies
        /\ DOMAIN client[p] = {"at", "todo", "name", "size", "body"}
    BY LandSetting, Setting
  <2>3. \A at : Turn(p, Client(at)) => client'[p].at = at
    BY <2>1, <2>2 DEF Turn
  <2>4. \A at, todo : Turn(p, [Client(at) EXCEPT !.todo = todo]) => client'[p].at = at
    BY <2>1, <2>2 DEF Turn
  <2>5. ~OpenCopy(p) /\ ~StartScan(p) /\ ~Lose(p)
    BY <2>3 DEF OpenCopy, StartScan, Lose, Give
  <2>6. ~TakeMissing(p) /\ ~TakeListing(p) /\ ~TakePut(p)
    BY <2>3, <2>4 DEF TakeMissing, TakeListing, TakePut, Give
  <2>7. ~NextPut(p)
    BY <2>2, <2>3 DEF NextPut, Give, Turn
  <2>8. ~SendChunk(p)
    BY <2>2, <2>3 DEF SendChunk, Give, Turn, At
  <2>9. ~TakeSupply(p)
    BY <2>2 DEF TakeSupply, Turn
  <2>10. ~TakeChunk(p)
    BY <2>2, <2>3, <2>4 DEF TakeChunk, Give, Turn, At
  <2> QED
    BY <2>5, <2>6, <2>7, <2>8, <2>9, <2>10 DEF CommandStep
<1>2. landed' = landed /\ told' = told
  BY <1>1 DEF NextSupply, TakeResults
<1>3. CASE NextSupply(p)
  <2>1. client[p].todo = {}
    <3>1. \A f : [client[p] EXCEPT !.at = "supply", !.name = f].at = "supply"
      BY LandSetting, Setting
    <3> QED
      BY <1>3, <3>1, LandSetting DEF NextSupply, Turn
  <2>2. client[p].todo = DOMAIN told[p] \ landed[p] /\ landed[p] \subseteq DOMAIN told[p]
    BY <1>3, LandSetting DEF NextSupply, Progress, At
  <2> QED
    BY <1>2, <2>1, <2>2
<1>4. CASE TakeResults(p)
  <2>1. client[p].at = "results" /\ down[p] # <<>> /\ down[p][1].kind = "transition"
    BY <1>4, LandSetting, Setting DEF TakeResults, At, Answered
  <2>2. down[p][1].names = {}
    BY <1>4, <2>1, LandSetting, Setting, Clients DEF TakeResults, Give, Turn
  <2> QED
    BY <1>2, <2>1, <2>2, LandSetting DEF Progress, At
<1> QED
  BY <1>1, <1>3, <1>4

\* What a copy puts under a name is whole and is what was announced for it
\* (Staging.Put, createFile, ReadBody), whatever others change, whatever breaks
\* and however many copies share the staging directory; and a copy that says it
\* is done has put every file it announced under its name.
THEOREM LandsAsTold == CopySpec => LandsWhole
<1>1. ASSUME LandInv, [CopyNext]_copyVars, NEW p \in Copies
      PROVE  /\ \A f \in landed'[p] \ landed[p] :
                  told[p][f] = (IF job[p] = "push" THEN there'[f] ELSE here'[f])
                    \/ (job[p] = "pull" /\ moved[p])
             /\ client'[p].at = "done" /\ ~At(p, "done") => landed'[p] = DOMAIN told'[p]
  <2>1. CASE Edit \/ UNCHANGED copyVars
    BY <2>1 DEF Edit, copyVars, At
  <2>2. ASSUME NEW q \in Copies, CommandStep(q) \/ EndpointStep(q) \/ Cut(q), q # p
        PROVE  landed'[p] = landed[p] /\ client'[p] = client[p] /\ told'[p] = told[p]
    BY <1>1, <2>2, OthersStep DEF Same
  <2>3. CASE CommandStep(p)
    <3>1. landed' = landed \/ TakeChunk(p)
      BY <2>3 DEF CommandStep, OpenCopy, StartScan, TakeMissing, TakeListing, TakePut,
         TakeResults, Lose, NextPut, NextSupply, SendChunk, TakeSupply
    <3>2. \A f \in landed'[p] \ landed[p] : job[p] = "pull" /\ (told[p][f] = here'[f] \/ moved[p])
      BY <1>1, <3>1, PullLands
    <3> QED
      BY <1>1, <2>3, <3>2, DoneLands DEF At
  <2>4. CASE EndpointStep(p)
    <3>1. landed' = landed \/ CreateFile(p)
      BY <2>4 DEF EndpointStep, AnswerQuery, AnswerScan, BeginPut, ReceiveChunk, ReceiveEof,
         BeginTransition, EndTransition, BeginSupply, SupplyChunk, StreamEnds
    <3>2. \A f \in landed'[p] \ landed[p] : job[p] = "push" /\ told[p][f] = there'[f]
      BY <1>1, <3>1, PushLands
    <3>3. client' = client
      BY <2>4 DEF EndpointStep, AnswerQuery, AnswerScan, BeginPut, ReceiveChunk, ReceiveEof,
         BeginTransition, CreateFile, EndTransition, BeginSupply, SupplyChunk, StreamEnds, OnlyEndpoint
    <3> QED
      BY <3>2, <3>3 DEF At
  <2>5. CASE Cut(p)
    <3>1. landed' = landed /\ (client' = client \/ Turn(p, Client("failed")))
      BY <2>5 DEF Cut
    <3> QED
      BY <1>1, <3>1, LandSetting, Clients DEF Turn, At
  <2> QED
    BY <1>1, <2>1, <2>2, <2>3, <2>4, <2>5 DEF CopyNext, At
<1>2. LandInv /\ [CopyNext]_copyVars =>
        [\A p \in Copies :
           /\ \A f \in landed'[p] \ landed[p] :
                told[p][f] = (IF job[p] = "push" THEN there'[f] ELSE here'[f])
                  \/ (job[p] = "pull" /\ moved[p])
           /\ client'[p].at = "done" /\ ~At(p, "done") => landed'[p] = DOMAIN told'[p]]_copyVars
  BY <1>1
<1> QED
  BY <1>2, LandInvariant, PTL DEF CopySpec, LandsWhole
=============================================================================
