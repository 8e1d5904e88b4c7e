----------------------------- MODULE RemoteProofs -----------------------------
(***************************************************************************)
(* Proofs about three of the modules of what commands do on the platform,  *)
(* for every value of their constants:                                     *)
(*                                                                         *)
(*   TerminalAttach  what the shell's exit is reported as, and that no     *)
(*                   size on its way is the one that stands for nothing;   *)
(*   SandboxShells   an attach keeps the tabs it finds, and their numbers; *)
(*   Gateway         an edit of a rule keeps what it was not told to       *)
(*                   change, what a lookup answers was so, and a command   *)
(*                   changes nothing but what its arguments name.          *)
(*                                                                         *)
(* Each has an inductive invariant of its own: nothing has arrived before  *)
(* the session is open; a layout that still has the recorded version       *)
(* extends the recorded tabs; and of the Gateway three that build on each  *)
(* other.  A rule that was read for an edit is what the Gateway holds,     *)
(* except where somebody wrote since, or it is gone for good; a listing    *)
(* has every match it passed that nothing happened to; and what a command  *)
(* has found so far is what its arguments mean, which only grows while     *)
(* others change what the Gateway holds.  SandboxCopy is in                *)
(* SandboxCopyProofs.                                                      *)
(***************************************************************************)
EXTENDS Gateway, SandboxShells, TerminalAttach, SequenceTheorems, FiniteSetTheorems,
        WellFoundedInduction, TLAPS

-----------------------------------------------------------------------------
\* A set of numbers has a least one, and a bounded one has a largest.
LEMMA LeastExists ==
  ASSUME NEW set \in SUBSET Nat, set # {}
  PROVE  \E least \in set : \A x \in set : least <= x
<1> DEFINE less == {pair \in Nat \X Nat : pair[1] < pair[2]}
<1>1. IsWellFoundedOn(less, Nat) BY NatLessThanWellFounded DEF OpToRel
<1>2. PICK least \in set : \A x \in set : <<x, least>> \notin less
  BY <1>1, WFMin
<1>3. \A x \in set : least <= x
  <2> TAKE x \in set
  <2>1. <<x, least>> \in less <=> x < least OBVIOUS
  <2> QED BY <1>2, <2>1
<1> QED BY <1>3

LEMMA MaxIsIn ==
  ASSUME NEW set \in SUBSET Nat, set # {}, NEW bound \in Nat, \A x \in set : x <= bound
  PROVE  /\ Max(set) \in set
         /\ \A x \in set : x <= Max(set)
<1> DEFINE bounds == {b \in Nat : \A x \in set : x <= b}
<1>1. PICK b \in bounds : \A c \in bounds : b <= c
  <2>1. bounds \in SUBSET Nat /\ bounds # {} OBVIOUS
  <2> QED BY <2>1, LeastExists
<1>2. b \in set
  <2> SUFFICES ASSUME b \notin set PROVE FALSE OBVIOUS
  <2>1. PICK x \in set : x <= b OBVIOUS
  <2>2. b - 1 \in bounds OBVIOUS
  <2> QED BY <1>1, <2>2
<1> QED BY <1>2 DEF Max

\* What is numbered from 1 on has a bound.
LEMMA BoundExists ==
  ASSUME NEW n \in Nat, NEW f \in [1..n -> Nat]
  PROVE  \E bound \in Nat : \A i \in 1..n : f[i] <= bound
<1> DEFINE unbounded == {k \in 0..n : \A bound \in Nat : \E i \in 1..k : f[i] > bound}
<1>1. SUFFICES ASSUME unbounded # {} PROVE FALSE
  <2>1. n \notin unbounded BY <1>1
  <2>2. PICK bound \in Nat : \A i \in 1..n : ~(f[i] > bound) BY <2>1
  <2>3. ASSUME NEW i \in 1..n PROVE f[i] <= bound
    <3>1. f[i] \in Nat /\ ~(f[i] > bound) BY <2>2
    <3> HIDE DEF unbounded
    <3> QED BY <3>1
  <2> QED BY <2>3
<1>2. PICK k \in unbounded : \A x \in unbounded : k <= x
  <2>1. unbounded \in SUBSET Nat OBVIOUS
  <2> QED BY <1>1, <2>1, LeastExists
<1>3. k # 0 /\ k \in 1..n
  <2>1. \E i \in 1..k : f[i] > 0 BY <1>2
  <2> QED BY <2>1, <1>2
<1>4. k - 1 \in 0..n /\ k - 1 \notin unbounded
  <2>1. k - 1 \in 0..n BY <1>3
  <2>2. ~(k <= k - 1) BY <1>3
  <2> HIDE DEF unbounded
  <2> QED BY <1>2, <2>1, <2>2
<1>5. PICK b \in Nat : \A i \in 1..(k - 1) : ~(f[i] > b) BY <1>4
<1>6. PICK c \in Nat : c >= b /\ c >= f[k]
  <2>1. f[k] \in Nat BY <1>3
  <2> HIDE DEF unbounded
  <2> DEFINE larger == IF f[k] > b THEN f[k] ELSE b
  <2>2. larger \in Nat /\ larger >= b /\ larger >= f[k] BY <2>1
  <2> QED BY <2>2
<1>7. PICK i \in 1..k : f[i] > c BY <1>2
<1>8. i \in 1..(k - 1) \/ i = k BY <1>3
<1>9. f[i] \in Nat BY <1>3
<1> HIDE DEF unbounded
<1> QED BY <1>5, <1>6, <1>7, <1>8, <1>9, <1>3

-----------------------------------------------------------------------------
\* TerminalAttach.

\* Nothing has arrived before the session is open.
QuietBefore == phase \notin {"open", "closed"} => inbound = <<>>
\* What waits to be emitted, or is on its way, is a size that is set.
SizesSet ==
  /\ window \in Sizes
  /\ resize \in Sizes /\ measured \in Sizes
  /\ watcher \in {"send", "drain", "retry"} => measured # Empty
  /\ wire \in Seq(Sizes \ {Empty})
TerminalInv == QuietBefore /\ SizesSet

LEMMA SizeIsSet == \A w \in Sizes : Size(w) \in Sizes \ {Empty}
BY TerminalAssumption DEF Size, Empty

LEMMA TerminalStarts == TerminalInit => TerminalInv
BY TerminalAssumption DEF TerminalInit, TerminalInv, QuietBefore, SizesSet, Empty

LEMMA TerminalKeeps == TerminalInv /\ [TerminalNext]_terminalVars => TerminalInv'
<1> SUFFICES ASSUME TerminalInv, [TerminalNext]_terminalVars PROVE TerminalInv'
  OBVIOUS
<1> USE DEF TerminalInv, QuietBefore, SizesSet, Session, Watching, Local, Open
<1>0. <<>> \in Seq(Sizes \ {Empty}) /\ \A w \in Sizes \ {Empty} : <<w>> \in Seq(Sizes \ {Empty})
  OBVIOUS
<1>1. CASE WindowChanges BY <1>1 DEF WindowChanges
<1>2. CASE Prepare BY <1>0, <1>2, SizeIsSet DEF Prepare, StartUp
<1>3. CASE Dial BY <1>0, <1>3 DEF Dial
<1>4. CASE Wake BY <1>4, SizeIsSet DEF Wake
<1>5. CASE EmitSize BY <1>5, TerminalAssumption DEF EmitSize, Emit, Empty
<1>6. CASE ForwardSize BY <1>6, TerminalAssumption DEF ForwardSize, Empty
<1>7. CASE ForwardInput BY <1>7 DEF ForwardInput
<1>8. CASE InputEnds BY <1>8 DEF InputEnds
<1>9. CASE WriteFails BY <1>9 DEF WriteFails
<1>10. CASE ReadInput BY <1>10 DEF ReadInput
<1>11. CASE ProxyTakesSize BY <1>11 DEF ProxyTakesSize
<1>12. CASE ProxySends BY <1>12 DEF ProxySends
<1>13. CASE PumpInbound BY <1>13 DEF PumpInbound, Finish
<1>14. CASE UNCHANGED terminalVars BY <1>14 DEF terminalVars
<1> QED
  BY <1>1, <1>2, <1>3, <1>4, <1>5, <1>6, <1>7, <1>8, <1>9, <1>10, <1>11, <1>12, <1>13, <1>14
  DEF TerminalNext

\* In every reachable state nothing has come from the proxy before the session is
\* open (Attach reads only after the handshake), and no size that is measured,
\* that waits or that is on the wire is the one that stands for an empty channel.
THEOREM ChannelsHoldSizes == TerminalSpec => []TerminalInv
BY TerminalStarts, TerminalKeeps, PTL DEF TerminalSpec

LEMMA ExitStep ==
  ASSUME TerminalInv, TerminalNext, result' # result, inbound # <<>>, Head(inbound) \in Reasons
  PROVE  result' = Result("shell", FALSE)
<1>1. CASE Dial BY <1>1 DEF Dial, TerminalInv, QuietBefore
<1>2. CASE PumpInbound
  <2>1. Head(inbound) # "output" /\ Head(inbound) # "unnamed" BY DEF Reasons
  <2>2. Ending(Head(inbound)) = Result("shell", FALSE) BY <2>1 DEF Ending, Result
  <2> QED BY <1>2, <2>1, <2>2 DEF PumpInbound, Finish
<1>3. ~WindowChanges /\ ~Wake /\ ~EmitSize
  BY DEF WindowChanges, Wake, EmitSize, Session
<1>4. ~Prepare /\ ~ForwardSize /\ ~ForwardInput /\ ~InputEnds /\ ~WriteFails /\ ~ReadInput
        /\ ~ProxyTakesSize /\ ~ProxySends
  BY DEF Prepare, ForwardSize, ForwardInput, InputEnds, WriteFails, ReadInput,
         ProxyTakesSize, ProxySends
<1> QED BY <1>1, <1>2, <1>3, <1>4 DEF TerminalNext

\* A shell that exits is reported with its own code and never as an error of the
\* connection, however the outbound pump ended (Attach's select on the pump's
\* error, after the exit frame).
THEOREM ExitsAreReported == TerminalSpec => ExitIsTheShells
<1>1. TerminalInv /\ [TerminalNext]_terminalVars =>
        [result' # result /\ inbound # <<>> /\ Head(inbound) \in Reasons =>
           result' = Result("shell", FALSE)]_terminalVars
  BY ExitStep
<1> QED BY <1>1, ChannelsHoldSizes, PTL DEF TerminalSpec, ExitIsTheShells

-----------------------------------------------------------------------------
\* SandboxShells.

TabIds == Attaches \union BrowserTabs
TabRecords == [id : TabIds, number : Nat, last : Nat]
Layouts == Seq(TabRecords)

ShellSteps ==
  {"ensure", "prepare", "layout", "record", "tty", "wait", "ticket", "attached", "error"}
LayoutsTyped ==
  /\ plan \in Plans
  /\ tabs \in Layouts /\ version \in Nat
  /\ step \in [Attaches -> ShellSteps]
  /\ layout \in [Attaches -> [tabs : Layouts, version : Nat]]
  /\ enters \in [Attaches -> TabIds \union {NoShell}]

\* The tabs of one layout are in another under the same numbers, and what else
\* is there is one shell under a number of its own.
ExtendsBy(old, new, id) ==
  /\ \A i \in DOMAIN old :
       i \in DOMAIN new /\ new[i].id = old[i].id /\ new[i].number = old[i].number
  /\ \A i \in DOMAIN new \ DOMAIN old :
       new[i].id = id /\ \A j \in DOMAIN new : new[j].number = new[i].number => j = i

\* A layout is of a version there was, and one of the recorded version extends
\* the recorded tabs by the shell that is entered.
LayoutsFollow ==
  \A p \in Attaches :
    /\ layout[p].version <= version
    /\ step[p] = "record" /\ layout[p].version = version =>
         ExtendsBy(tabs, layout[p].tabs, enters[p])
ShellsInv == LayoutsTyped /\ LayoutsFollow

LEMMA LayoutIsTyped ==
  ASSUME NEW ts \in Layouts
  PROVE  /\ DOMAIN ts = 1..Len(ts) /\ Len(ts) \in Nat
         /\ ts \in [1..Len(ts) -> TabRecords]
         /\ \A i \in DOMAIN ts :
              /\ ts[i] \in TabRecords
              /\ ts[i].id \in TabIds /\ ts[i].number \in Nat /\ ts[i].last \in Nat
         /\ ts # <<>> => Len(ts) > 0
<1>1. DOMAIN ts = 1..Len(ts) /\ Len(ts) \in Nat /\ ts \in [1..Len(ts) -> TabRecords]
  BY LenProperties DEF Layouts
<1>2. \A i \in DOMAIN ts : ts[i] \in TabRecords BY <1>1
<1>3. \A t \in TabRecords : t.id \in TabIds /\ t.number \in Nat /\ t.last \in Nat
  BY DEF TabRecords
<1>4. ts # <<>> => Len(ts) > 0 BY EmptySeq DEF Layouts
<1> QED BY <1>1, <1>2, <1>3, <1>4

LEMMA NextNumberIsNew ==
  ASSUME NEW ts \in Layouts
  PROVE  /\ NextNumber(ts) \in Nat
         /\ \A i \in DOMAIN ts : ts[i].number < NextNumber(ts)
<1> DEFINE f == [i \in 1..Len(ts) |-> ts[i].number]
           set == {1} \union {t.number + 1 : t \in ToSet(ts)}
<1>1. DOMAIN ts = 1..Len(ts) /\ Len(ts) \in Nat BY LayoutIsTyped
<1>2. \A i \in DOMAIN ts : ts[i].number \in Nat BY LayoutIsTyped
<1>3. f \in [1..Len(ts) -> Nat] BY <1>1, <1>2
<1>4. PICK b \in Nat : \A i \in 1..Len(ts) : f[i] <= b BY <1>1, <1>3, BoundExists
<1>5. \A t \in ToSet(ts) : t.number \in Nat /\ t.number <= b
  BY <1>1, <1>2, <1>4 DEF ToSet
<1>6. set \in SUBSET Nat /\ set # {} BY <1>5
<1>7. b + 1 \in Nat /\ \A x \in set : x <= b + 1 BY <1>5
<1>8. Max(set) \in set /\ \A x \in set : x <= Max(set)
  <2> HIDE DEF set
  <2> QED BY <1>6, <1>7, MaxIsIn
<1>9. NextNumber(ts) = Max(set) BY DEF NextNumber
<1>10. \A i \in DOMAIN ts : ts[i].number + 1 \in set BY DEF ToSet
<1>11. Max(set) \in Nat BY <1>6, <1>8
<1> HIDE DEF set
<1>12. \A i \in DOMAIN ts : ts[i].number < Max(set) BY <1>2, <1>8, <1>10, <1>11
<1> QED BY <1>9, <1>11, <1>12

\* The tab attached last is a tab.
LEMMA NewestIsThere ==
  ASSUME NEW ts \in Layouts, ts # <<>>
  PROVE  Newest(ts) \in DOMAIN ts
<1> DEFINE f == [i \in 1..Len(ts) |-> ts[i].last]
           lasts == {ts[i].last : i \in DOMAIN ts}
           newest == {i \in DOMAIN ts : ts[i].last = Max(lasts)}
<1>1. DOMAIN ts = 1..Len(ts) /\ Len(ts) \in Nat /\ 1 \in DOMAIN ts BY LayoutIsTyped
<1>2. \A i \in DOMAIN ts : ts[i].last \in Nat BY LayoutIsTyped
<1>3. f \in [1..Len(ts) -> Nat] BY <1>1, <1>2
<1>4. PICK b \in Nat : \A i \in 1..Len(ts) : f[i] <= b BY <1>1, <1>3, BoundExists
<1>5. lasts \in SUBSET Nat /\ lasts # {} /\ \A x \in lasts : x <= b BY <1>1, <1>2, <1>4
<1>6. Max(lasts) \in lasts /\ \A x \in lasts : x <= Max(lasts)
  <2> HIDE DEF lasts
  <2> QED BY <1>5, MaxIsIn
<1>7. newest \in SUBSET Nat /\ newest # {}
  <2>1. newest \in SUBSET Nat BY <1>1
  <2>2. PICK i \in DOMAIN ts : ts[i].last = Max(lasts) BY <1>6
  <2> QED BY <2>1, <2>2
<1>8. PICK i \in newest : \A j \in newest : i <= j
  <2> HIDE DEF newest
  <2> QED BY <1>7, LeastExists
<1>9. \A j \in DOMAIN ts : ts[j].last <= Max(lasts) BY <1>6
<1>10. ASSUME NEW j \in DOMAIN ts
       PROVE  ts[j].last < ts[i].last \/ (ts[j].last = ts[i].last /\ i <= j)
  <2>1. ts[i].last = Max(lasts) /\ ts[i].last \in Nat /\ ts[j].last \in Nat BY <1>2, <1>8
  <2>2. ts[j].last <= ts[i].last BY <1>9, <2>1
  <2>3. ts[j].last = ts[i].last => j \in newest BY <2>1
  <2>4. ts[j].last = ts[i].last => i <= j BY <1>8, <2>3
  <2> HIDE DEF newest, lasts
  <2> QED BY <2>1, <2>2, <2>4
<1>11. i \in DOMAIN ts BY <1>8
<1> HIDE DEF newest, lasts, f
<1> QED BY <1>10, <1>11 DEF Newest

LEMMA StampedExtends ==
  ASSUME NEW ts \in Layouts, NEW id, version \in Nat
  PROVE  /\ Stamped(ts, id) \in Layouts
         /\ DOMAIN Stamped(ts, id) = DOMAIN ts
         /\ \A i \in DOMAIN ts : /\ Stamped(ts, id)[i].id = ts[i].id
                                 /\ Stamped(ts, id)[i].number = ts[i].number
<1>1. DOMAIN ts = 1..Len(ts) /\ Len(ts) \in Nat BY LayoutIsTyped
<1>2. \A i \in DOMAIN ts : ts[i] \in TabRecords BY LayoutIsTyped
<1>3. \A t \in TabRecords : [t EXCEPT !.last = version + 1] \in TabRecords BY DEF TabRecords
<1>5. Stamped(ts, id) \in [1..Len(ts) -> TabRecords]
  BY <1>1, <1>2, <1>3 DEF Stamped
<1>6. Stamped(ts, id) \in Layouts BY <1>1, <1>5 DEF Layouts
<1>7. DOMAIN Stamped(ts, id) = DOMAIN ts BY DEF Stamped
<1>8. ASSUME NEW i \in DOMAIN ts
      PROVE  Stamped(ts, id)[i].id = ts[i].id /\ Stamped(ts, id)[i].number = ts[i].number
  BY <1>2 DEF Stamped, TabRecords
<1> QED BY <1>6, <1>7, <1>8

LEMMA AppendedTyped ==
  ASSUME NEW ts \in Layouts, NEW id \in TabIds, NEW last \in Nat
  PROVE  LET new == Append(ts, Tab(id, NextNumber(ts), last))
         IN /\ new \in Layouts
            /\ DOMAIN new = DOMAIN ts \union {Len(ts) + 1}
            /\ Len(ts) + 1 \notin DOMAIN ts
            /\ \A i \in DOMAIN ts : new[i] = ts[i]
            /\ new[Len(ts) + 1] = Tab(id, NextNumber(ts), last)
<1>1. Tab(id, NextNumber(ts), last) \in TabRecords
  BY NextNumberIsNew DEF Tab, TabRecords
<1>2. DOMAIN ts = 1..Len(ts) /\ Len(ts) \in Nat BY LayoutIsTyped
<1> DEFINE tab == Tab(id, NextNumber(ts), last)
<1> HIDE DEF tab
<1>3. /\ Append(ts, tab) \in Layouts
      /\ Len(Append(ts, tab)) = Len(ts) + 1
      /\ \A i \in 1..Len(ts) : Append(ts, tab)[i] = ts[i]
      /\ Append(ts, tab)[Len(ts) + 1] = tab
  BY <1>1, AppendProperties DEF Layouts, tab
<1>4. DOMAIN Append(ts, tab) = 1..(Len(ts) + 1) BY <1>3, LayoutIsTyped
<1>5. /\ DOMAIN Append(ts, tab) = DOMAIN ts \union {Len(ts) + 1}
      /\ Len(ts) + 1 \notin DOMAIN ts
      /\ \A i \in DOMAIN ts : Append(ts, tab)[i] = ts[i]
  BY <1>2, <1>3, <1>4
<1> QED BY <1>3, <1>5 DEF tab

LEMMA AppendedExtends ==
  ASSUME NEW ts \in Layouts, NEW id \in TabIds, NEW last \in Nat
  PROVE  ExtendsBy(ts, Append(ts, Tab(id, NextNumber(ts), last)), id)
<1> DEFINE new == Append(ts, Tab(id, NextNumber(ts), last))
<1>1. /\ DOMAIN new = DOMAIN ts \union {Len(ts) + 1}
      /\ \A i \in DOMAIN ts : new[i] = ts[i]
      /\ new[Len(ts) + 1] = Tab(id, NextNumber(ts), last)
  BY AppendedTyped
<1>2. new[Len(ts) + 1].id = id /\ new[Len(ts) + 1].number = NextNumber(ts) BY <1>1 DEF Tab
<1>3. \A j \in DOMAIN ts : new[j].number # NextNumber(ts)
  <2> TAKE j \in DOMAIN ts
  <2>1. ts[j].number < NextNumber(ts) /\ ts[j].number \in Nat /\ NextNumber(ts) \in Nat
    BY NextNumberIsNew, LayoutIsTyped
  <2>2. new[j].number = ts[j].number BY <1>1
  <2> HIDE DEF new
  <2> QED BY <2>1, <2>2
<1> HIDE DEF new
<1>4. ExtendsBy(ts, new, id) BY <1>1, <1>2, <1>3 DEF ExtendsBy
<1> QED BY <1>4 DEF new

\* What extends a layout does so whatever is stamped, and keeps numbers apart.
LEMMA ExtendsStamped ==
  ASSUME NEW ts \in Layouts, NEW new \in Layouts, NEW id, NEW stamp, version \in Nat,
         ExtendsBy(ts, new, id)
  PROVE  ExtendsBy(ts, Stamped(new, stamp), id)
BY StampedExtends DEF ExtendsBy

LEMMA ExtendsKeeps ==
  ASSUME NEW old \in Layouts, NEW new \in Layouts, NEW id, ExtendsBy(old, new, id)
  PROVE  /\ NumbersDiffer(old) => NumbersDiffer(new)
         /\ \A t \in ToSet(old) : \E u \in ToSet(new) : u.id = t.id /\ u.number = t.number
         /\ \A u \in ToSet(new) :
              u.id = id \/ \E t \in ToSet(old) : u.id = t.id /\ u.number = t.number
<1>1. NumbersDiffer(old) => NumbersDiffer(new) BY DEF ExtendsBy, NumbersDiffer
<1>2. \A t \in ToSet(old) : \E u \in ToSet(new) : u.id = t.id /\ u.number = t.number
  BY DEF ExtendsBy, ToSet
<1>3. \A u \in ToSet(new) :
        u.id = id \/ \E t \in ToSet(old) : u.id = t.id /\ u.number = t.number
  BY DEF ExtendsBy, ToSet
<1> QED BY <1>1, <1>2, <1>3

\* A tab is taken away: the others keep their numbers.
LEMMA RemovedTyped ==
  ASSUME NEW ts \in Layouts, NEW k \in DOMAIN ts
  PROVE  /\ RemoveAt(ts, k) \in Layouts
         /\ NumbersDiffer(ts) => NumbersDiffer(RemoveAt(ts, k))
<1> DEFINE left == SubSeq(ts, 1, k - 1)
           right == SubSeq(ts, k + 1, Len(ts))
           new == RemoveAt(ts, k)
<1>1. DOMAIN ts = 1..Len(ts) /\ Len(ts) \in Nat /\ k \in 1..Len(ts) /\ k \in Nat BY LayoutIsTyped
<1>t. \A i \in 1..Len(ts) : ts[i] \in TabRecords BY <1>1, LayoutIsTyped
<1>2. left \in Layouts /\ Len(left) = k - 1 /\ \A i \in 1..(k - 1) : left[i] = ts[i]
  <2>1. 1 \in Int /\ k - 1 \in Int /\ \A i \in 1..(k - 1) : ts[i] \in TabRecords BY <1>1, <1>t
  <2>2. /\ left \in Seq(TabRecords)
        /\ Len(left) = IF 1 <= k - 1 THEN k - 1 - 1 + 1 ELSE 0
        /\ \A i \in 1..(k - 1 - 1 + 1) : left[i] = ts[1 + i - 1]
    BY <2>1, SubSeqProperties
  <2>3. k - 1 - 1 + 1 = k - 1 /\ \A i \in Int : 1 + i - 1 = i BY <1>1
  <2> HIDE DEF left
  <2> QED BY <1>1, <2>2, <2>3 DEF Layouts
<1>3. /\ right \in Layouts /\ Len(right) = Len(ts) - k
      /\ \A i \in 1..(Len(ts) - k) : right[i] = ts[k + i]
  <2>1. /\ k + 1 \in Int /\ Len(ts) \in Int
        /\ \A i \in (k + 1)..Len(ts) : ts[i] \in TabRecords
    BY <1>1, <1>t
  <2>2. /\ right \in Seq(TabRecords)
        /\ Len(right) = IF k + 1 <= Len(ts) THEN Len(ts) - (k + 1) + 1 ELSE 0
        /\ \A i \in 1..(Len(ts) - (k + 1) + 1) : right[i] = ts[(k + 1) + i - 1]
    BY <2>1, SubSeqProperties
  <2>3. Len(ts) - (k + 1) + 1 = Len(ts) - k /\ \A i \in Int : (k + 1) + i - 1 = k + i BY <1>1
  <2> HIDE DEF right
  <2>4. right \in Layouts BY <2>2 DEF Layouts
  <2>5. Len(right) = Len(ts) - k BY <1>1, <2>2
  <2>6. ASSUME NEW i \in 1..(Len(ts) - k) PROVE right[i] = ts[k + i]
    <3>1. i \in Int /\ i \in 1..(Len(ts) - (k + 1) + 1) BY <1>1, <2>3
    <3> QED BY <2>2, <2>3, <3>1
  <2> QED BY <2>4, <2>5, <2>6
<1> HIDE DEF left, right
<1>4. new = left \o right BY DEF RemoveAt, left, right
<1>5. /\ new \in Layouts /\ Len(new) = Len(ts) - 1
      /\ \A i \in 1..(Len(ts) - 1) : new[i] = IF i <= k - 1 THEN left[i] ELSE right[i - (k - 1)]
  <2>1. /\ left \o right \in Seq(TabRecords)
        /\ Len(left \o right) = Len(left) + Len(right)
        /\ \A i \in 1..(Len(left) + Len(right)) :
             (left \o right)[i] = IF i <= Len(left) THEN left[i] ELSE right[i - Len(left)]
    BY <1>2, <1>3, ConcatProperties DEF Layouts
  <2>2. Len(left) + Len(right) = Len(ts) - 1 BY <1>1, <1>2, <1>3
  <2> HIDE DEF new
  <2> QED BY <1>2, <1>4, <2>1, <2>2 DEF Layouts
<1> HIDE DEF new
<1>d. DOMAIN new = 1..(Len(ts) - 1) BY <1>5, LayoutIsTyped
<1>6. \A i \in 1..(Len(ts) - 1) : new[i] = IF i < k THEN ts[i] ELSE ts[i + 1]
  <2> TAKE i \in 1..(Len(ts) - 1)
  <2>1. CASE i < k
    <3>1. i \in 1..(k - 1) /\ i <= k - 1 BY <1>1, <2>1
    <3> QED BY <1>2, <1>5, <2>1, <3>1
  <2>2. CASE i >= k
    <3>1. /\ i - (k - 1) \in 1..(Len(ts) - k) /\ k + (i - (k - 1)) = i + 1
          /\ ~(i <= k - 1) /\ ~(i < k)
      BY <1>1, <2>2
    <3>2. new[i] = right[i - (k - 1)] BY <1>5, <3>1
    <3>3. right[i - (k - 1)] = ts[k + (i - (k - 1))] BY <1>3, <3>1
    <3> QED BY <3>1, <3>2, <3>3
  <2> QED BY <1>1, <2>1, <2>2
<1> HIDE DEF new
<1>7. ASSUME NumbersDiffer(ts) PROVE NumbersDiffer(new)
  <2> SUFFICES ASSUME NEW i \in DOMAIN new, NEW j \in DOMAIN new, new[i].number = new[j].number
               PROVE  i = j
    BY DEF NumbersDiffer
  <2> DEFINE at0(x) == IF x < k THEN x ELSE x + 1
  <2>1. i \in 1..(Len(ts) - 1) /\ j \in 1..(Len(ts) - 1) BY <1>d
  <2>2. at0(i) \in DOMAIN ts /\ at0(j) \in DOMAIN ts BY <1>1, <2>1
  <2>3. new[i] = ts[at0(i)] /\ new[j] = ts[at0(j)] BY <1>6, <2>1
  <2>4. at0(i) = at0(j) BY <1>7, <2>2, <2>3 DEF NumbersDiffer
  <2> QED BY <1>1, <2>1, <2>4
<1> QED BY <1>5, <1>7 DEF new

LEMMA ShellsStart == ShellsInit => ShellsInv
<1> SUFFICES ASSUME ShellsInit PROVE ShellsInv
  OBVIOUS
<1> USE DEF ShellsInit
<1>1. <<>> \in Layouts /\ \A b \in BrowserTabs : <<Tab(b, 2, 0)>> \in Layouts
  <2>1. \A b \in BrowserTabs : Tab(b, 2, 0) \in TabRecords BY DEF Tab, TabRecords, TabIds
  <2> QED BY <2>1 DEF Layouts
<1>2. Unread \in [tabs : Layouts, version : Nat] BY <1>1 DEF Unread
<1>3. step \in [Attaches -> ShellSteps] /\ \A p \in Attaches : step[p] # "record"
  BY DEF ShellSteps
<1>4. LayoutsTyped BY <1>1, <1>2, <1>3 DEF LayoutsTyped
<1>5. LayoutsFollow BY <1>3 DEF LayoutsFollow, Unread
<1> QED BY <1>4, <1>5 DEF ShellsInv

\* Steps that leave the tabs and what is to be written of them.
LEMMA OtherStep ==
  ASSUME ShellsInv, UNCHANGED <<plan, tabs, version, layout, enters>>,
         step' \in [Attaches -> ShellSteps],
         \A p \in Attaches : step'[p] = step[p] \/ step'[p] # "record"
  PROVE  ShellsInv'
BY DEF ShellsInv, LayoutsTyped, LayoutsFollow

LEMMA GoesTo ==
  ASSUME ShellsInv, NEW p \in Attaches, NEW s \in ShellSteps, To(p, s)
  PROVE  /\ step' \in [Attaches -> ShellSteps] /\ step'[p] = s
         /\ \A q \in Attaches \ {p} : step'[q] = step[q]
BY DEF ShellsInv, LayoutsTyped, To

LEMMA EnterKeeps ==
  ASSUME ShellsInv, NEW p \in Attaches, NEW ts \in Layouts, NEW id \in TabIds,
         ExtendsBy(tabs, ts, id), Enter(p, ts, id), UNCHANGED <<plan, tabs, version>>
  PROVE  ShellsInv'
<1>1. /\ step' \in [Attaches -> ShellSteps] /\ step'[p] = "record"
      /\ \A q \in Attaches \ {p} : step'[q] = step[q]
  BY GoesTo DEF Enter, ShellSteps
<1>2. tabs \in Layouts /\ version \in Nat BY DEF ShellsInv, LayoutsTyped
<1>3. Stamped(ts, id) \in Layouts /\ ExtendsBy(tabs, Stamped(ts, id), id)
  BY <1>2, StampedExtends, ExtendsStamped
<1>4. [tabs |-> Stamped(ts, id), version |-> version] \in [tabs : Layouts, version : Nat]
  BY <1>2, <1>3
<1>5. /\ layout' \in [Attaches -> [tabs : Layouts, version : Nat]]
      /\ layout'[p] = [tabs |-> Stamped(ts, id), version |-> version]
      /\ \A q \in Attaches \ {p} : layout'[q] = layout[q]
  BY <1>4 DEF ShellsInv, LayoutsTyped, Enter
<1>6. /\ enters' \in [Attaches -> TabIds \union {NoShell}] /\ enters'[p] = id
      /\ \A q \in Attaches \ {p} : enters'[q] = enters[q]
  BY DEF ShellsInv, LayoutsTyped, Enter
<1>7. LayoutsTyped' BY <1>1, <1>5, <1>6 DEF ShellsInv, LayoutsTyped
<1>8. LayoutsFollow'
  <2> SUFFICES ASSUME NEW q \in Attaches
               PROVE  /\ layout'[q].version <= version
                      /\ step'[q] = "record" /\ layout'[q].version = version =>
                           ExtendsBy(tabs, layout'[q].tabs, enters'[q])
    BY DEF LayoutsFollow
  <2>1. CASE q = p BY <1>2, <1>3, <1>5, <1>6, <2>1
  <2>2. CASE q # p BY <1>1, <1>5, <1>6, <2>2 DEF ShellsInv, LayoutsFollow
  <2> QED BY <2>1, <2>2
<1> QED BY <1>7, <1>8 DEF ShellsInv

LEMMA ResolveKeeps ==
  ASSUME ShellsInv, NEW p \in Attaches, ResolveShell(p)
  PROVE  ShellsInv'
<1>1. tabs \in Layouts /\ version \in Nat /\ plan \in Plans BY DEF ShellsInv, LayoutsTyped
<1>2. UNCHANGED <<plan, tabs, version>> BY DEF ResolveShell, Recorded
<1>3. ExtendsBy(tabs, tabs, NoShell) /\ \A id : ExtendsBy(tabs, tabs, id) BY DEF ExtendsBy
<1>4. CASE /\ plan[p].tab \notin {"new", "last"}
           /\ \E t \in ToSet(tabs) : t.id = plan[p].tab
           /\ Enter(p, tabs, plan[p].tab)
  <2>1. plan[p].tab \in TabIds BY <1>1, <1>4, LayoutIsTyped DEF ToSet
  <2> QED BY <1>1, <1>2, <1>3, <1>4, <2>1, EnterKeeps
<1>5. CASE tabs # <<>> /\ Enter(p, tabs, tabs[Newest(tabs)].id)
  <2>1. tabs[Newest(tabs)].id \in TabIds BY <1>1, <1>5, NewestIsThere, LayoutIsTyped
  <2> QED BY <1>1, <1>2, <1>3, <1>5, <2>1, EnterKeeps
<1>6. CASE Enter(p, Append(tabs, Tab(p, NextNumber(tabs), 0)), p)
  <2>1. p \in TabIds /\ 0 \in Nat BY DEF TabIds
  <2>2. Append(tabs, Tab(p, NextNumber(tabs), 0)) \in Layouts BY <1>1, <2>1, AppendedTyped
  <2>3. ExtendsBy(tabs, Append(tabs, Tab(p, NextNumber(tabs), 0)), p)
    BY <1>1, <2>1, AppendedExtends
  <2> QED BY <1>2, <1>6, <2>1, <2>2, <2>3, EnterKeeps
<1>7. CASE To(p, "error") /\ UNCHANGED <<layout, enters>>
  <2>1. /\ step' \in [Attaches -> ShellSteps] /\ step'[p] = "error"
        /\ \A q \in Attaches \ {p} : step'[q] = step[q]
    BY <1>7, GoesTo DEF ShellSteps
  <2> QED BY <1>2, <1>7, <2>1, OtherStep
<1> QED BY <1>4, <1>5, <1>6, <1>7 DEF ResolveShell

\* A write of the layout: whoever else read it has an old version now.
LEMMA WrittenKeeps ==
  ASSUME ShellsInv, tabs' \in Layouts, version' = version + 1, UNCHANGED <<plan, enters>>,
         step' \in [Attaches -> ShellSteps],
         layout' \in [Attaches -> [tabs : Layouts, version : Nat]],
         \A p \in Attaches : layout'[p].version <= version
  PROVE  ShellsInv'
<1>1. version \in Nat /\ version' \in Nat BY DEF ShellsInv, LayoutsTyped
<1>2. LayoutsTyped' BY <1>1 DEF ShellsInv, LayoutsTyped
<1>3. \A p \in Attaches : layout'[p].version \in Nat OBVIOUS
<1>4. \A p \in Attaches : layout'[p].version <= version' /\ layout'[p].version # version'
  BY <1>1, <1>3
<1> QED BY <1>2, <1>4 DEF ShellsInv, LayoutsFollow

LEMMA RecordKeeps ==
  ASSUME ShellsInv, NEW p \in Attaches, RecordAttach(p)
  PROVE  ShellsInv'
<1>1. /\ step' \in [Attaches -> ShellSteps] /\ step'[p] = "tty"
      /\ \A q \in Attaches \ {p} : step'[q] = step[q]
  BY GoesTo DEF RecordAttach, ShellSteps
<1>2. version \in Nat /\ layout[p].tabs \in Layouts BY DEF ShellsInv, LayoutsTyped
<1>3. Unread \in [tabs : Layouts, version : Nat] BY DEF Unread, Layouts
<1>4. /\ layout' \in [Attaches -> [tabs : Layouts, version : Nat]]
      /\ layout'[p] = Unread /\ \A q \in Attaches \ {p} : layout'[q] = layout[q]
  BY <1>3 DEF RecordAttach, ShellsInv, LayoutsTyped
<1>5. \A q \in Attaches : layout'[q].version <= version
  BY <1>2, <1>4 DEF ShellsInv, LayoutsFollow, Unread
<1>6. UNCHANGED <<plan, enters>> BY DEF RecordAttach
<1>7. CASE tabs' = layout[p].tabs /\ version' = version + 1
  BY <1>1, <1>2, <1>4, <1>5, <1>6, <1>7, WrittenKeeps
<1>8. CASE UNCHANGED Recorded
  <2>1. tabs' = tabs /\ version' = version BY <1>8 DEF Recorded
  <2>2. LayoutsTyped' BY <1>1, <1>4, <1>6, <2>1 DEF ShellsInv, LayoutsTyped
  <2>3. LayoutsFollow' BY <1>1, <1>4, <1>5, <1>6, <2>1 DEF ShellsInv, LayoutsFollow
  <2> QED BY <2>2, <2>3 DEF ShellsInv
<1> QED BY <1>7, <1>8 DEF RecordAttach

LEMMA BrowseTyped ==
  ASSUME ShellsInv, Browse
  PROVE  tabs' \in Layouts /\ (NumbersDiffer(tabs) => NumbersDiffer(tabs'))
<1>1. tabs \in Layouts /\ version \in Nat /\ version + 1 \in Nat BY DEF ShellsInv, LayoutsTyped
<1>2. ASSUME NEW b \in BrowserTabs, tabs' = Append(tabs, Tab(b, NextNumber(tabs), version + 1))
      PROVE  tabs' \in Layouts /\ (NumbersDiffer(tabs) => NumbersDiffer(tabs'))
  <2>1. b \in TabIds BY DEF TabIds
  <2>2. tabs' \in Layouts BY <1>1, <1>2, <2>1, AppendedTyped
  <2>3. ExtendsBy(tabs, tabs', b) BY <1>1, <1>2, <2>1, AppendedExtends
  <2> QED BY <1>1, <2>2, <2>3, ExtendsKeeps
<1>3. ASSUME NEW i \in DOMAIN tabs, tabs' = RemoveAt(tabs, i)
      PROVE  tabs' \in Layouts /\ (NumbersDiffer(tabs) => NumbersDiffer(tabs'))
  BY <1>1, <1>3, RemovedTyped
<1>4. ASSUME NEW t \in ToSet(tabs), tabs' = Stamped(tabs, t.id)
      PROVE  tabs' \in Layouts /\ (NumbersDiffer(tabs) => NumbersDiffer(tabs'))
  <2>1. tabs' \in Layouts BY <1>1, <1>4, StampedExtends
  <2>2. ExtendsBy(tabs, tabs, NoShell) BY DEF ExtendsBy
  <2>3. ExtendsBy(tabs, tabs', NoShell) BY <1>1, <1>4, <2>2, ExtendsStamped
  <2> QED BY <1>1, <2>1, <2>3, ExtendsKeeps
<1> QED BY <1>2, <1>3, <1>4 DEF Browse

LEMMA ShellsKeep == ShellsInv /\ [ShellsNext]_shellsVars => ShellsInv'
<1> SUFFICES ASSUME ShellsInv, [ShellsNext]_shellsVars PROVE ShellsInv'
  OBVIOUS
<1>0. step \in [Attaches -> ShellSteps] BY DEF ShellsInv, LayoutsTyped
<1>1. ASSUME NEW p \in Attaches,
             NEW s \in ShellSteps, To(p, s) \/ UNCHANGED step, s # "record",
             UNCHANGED <<plan, tabs, version, layout, enters>>
      PROVE  ShellsInv'
  <2>1. CASE To(p, s)
    <3>1. /\ step' \in [Attaches -> ShellSteps] /\ step'[p] = s
          /\ \A q \in Attaches \ {p} : step'[q] = step[q]
      BY <2>1, GoesTo
    <3> QED BY <1>1, <3>1, OtherStep
  <2>2. CASE UNCHANGED step BY <1>0, <1>1, <2>2, OtherStep
  <2> QED BY <1>1, <2>1, <2>2
<1>2. ASSUME NEW p \in Attaches, EnsureRunning(p) PROVE ShellsInv'
  <2>1. To(p, "layout") \/ To(p, "error") BY <1>2 DEF EnsureRunning
  <2>2. UNCHANGED <<plan, tabs, version, layout, enters>> BY <1>2 DEF EnsureRunning, Mine, Recorded
  <2> QED BY <1>1, <2>1, <2>2 DEF ShellSteps
<1>3. ASSUME NEW p \in Attaches, LayoutUnread(p) PROVE ShellsInv'
  <2>1. To(p, "tty") /\ UNCHANGED <<plan, tabs, version, layout, enters>>
    BY <1>3 DEF LayoutUnread, Recorded
  <2> QED BY <1>1, <2>1 DEF ShellSteps
<1>4. ASSUME NEW p \in Attaches, NeedsTTY(p) PROVE ShellsInv'
  <2>1. To(p, "wait") \/ To(p, "error") BY <1>4 DEF NeedsTTY
  <2>2. UNCHANGED <<plan, tabs, version, layout, enters>> BY <1>4 DEF NeedsTTY, Mine, Recorded
  <2> QED BY <1>1, <2>1, <2>2 DEF ShellSteps
<1>5. ASSUME NEW p \in Attaches, Wait(p) PROVE ShellsInv'
  <2>1. To(p, "layout") \/ To(p, "ticket") \/ To(p, "error") \/ UNCHANGED step
    BY <1>5 DEF Wait, After
  <2>2. UNCHANGED <<plan, tabs, version, layout, enters>> BY <1>5 DEF Wait, Mine, Recorded
  <2> QED BY <1>1, <2>1, <2>2 DEF ShellSteps
<1>6. ASSUME NEW p \in Attaches, CreateSession(p) PROVE ShellsInv'
  <2>1. To(p, "attached") \/ To(p, "error") BY <1>6 DEF CreateSession
  <2>2. UNCHANGED <<plan, tabs, version, layout, enters>> BY <1>6 DEF CreateSession, Recorded
  <2> QED BY <1>1, <2>1, <2>2 DEF ShellSteps
<1>7. CASE Browse
  <2>1. tabs' \in Layouts BY <1>7, BrowseTyped
  <2>2. version' = version + 1 /\ UNCHANGED <<plan, layout, enters, step>>
    BY <1>7 DEF Browse, Mine
  <2>3. layout' \in [Attaches -> [tabs : Layouts, version : Nat]]
    BY <2>2 DEF ShellsInv, LayoutsTyped
  <2>4. \A p \in Attaches : layout'[p].version <= version
    BY <2>2 DEF ShellsInv, LayoutsFollow
  <2> QED BY <1>0, <2>1, <2>2, <2>3, <2>4, WrittenKeeps
<1>8. CASE PlatformStep
  <2>1. UNCHANGED <<plan, tabs, version, layout, enters>> /\ UNCHANGED step
    BY <1>8 DEF PlatformStep, Mine, Recorded
  <2> QED BY <1>0, <2>1, OtherStep
<1>9. CASE UNCHANGED shellsVars
  <2>1. UNCHANGED <<plan, tabs, version, layout, enters>> /\ UNCHANGED step
    BY <1>9 DEF shellsVars
  <2> QED BY <1>0, <2>1, OtherStep
<1> QED
  BY <1>2, <1>3, <1>4, <1>5, <1>6, <1>7, <1>8, <1>9, ResolveKeeps, RecordKeeps DEF ShellsNext

\* In every reachable state a layout that an attach read and changed is of a
\* version there was; if nobody wrote one since, it is the recorded tabs with at
\* most the attach's own shell added (resolveShell, recordAttach).
THEOREM LayoutsExtend == ShellsSpec => []ShellsInv
BY ShellsStart, ShellsKeep, PTL DEF ShellsSpec

LEMMA TabsStep ==
  ASSUME ShellsInv, ShellsNext
  PROVE  /\ NumbersDiffer(tabs) => NumbersDiffer(tabs')
         /\ \A p \in Attaches : tabs' # tabs /\ step[p] = "record" /\ step'[p] # "record" =>
              LET named(ts) == {<<t.id, t.number>> : t \in ToSet(ts)}
              IN /\ named(tabs) \subseteq named(tabs')
                 /\ \A t \in ToSet(tabs') : <<t.id, t.number>> \in named(tabs) \/ t.id = enters[p]
<1>1. CASE UNCHANGED tabs BY <1>1
<1>2. CASE Browse
  <2>1. UNCHANGED step BY <1>2 DEF Browse
  <2> QED BY <1>2, <2>1, BrowseTyped
<1>3. ASSUME NEW p \in Attaches, RecordAttach(p), tabs' # tabs
      PROVE  /\ step[p] = "record" /\ \A q \in Attaches \ {p} : step'[q] = step[q]
             /\ tabs' = layout[p].tabs /\ ExtendsBy(tabs, tabs', enters[p])
             /\ tabs \in Layouts /\ tabs' \in Layouts
  <2>1. /\ layout[p].version = version /\ tabs' = layout[p].tabs /\ step[p] = "record"
    BY <1>3 DEF RecordAttach, Recorded, Claimed
  <2>2. tabs \in Layouts /\ layout[p].tabs \in Layouts BY DEF ShellsInv, LayoutsTyped
  <2>3. ExtendsBy(tabs, layout[p].tabs, enters[p]) BY <2>1 DEF ShellsInv, LayoutsFollow
  <2>4. \A q \in Attaches \ {p} : step'[q] = step[q] BY <1>3, GoesTo DEF RecordAttach, ShellSteps
  <2> QED BY <2>1, <2>2, <2>3, <2>4
<1>4. ASSUME NEW p \in Attaches, RecordAttach(p), tabs' # tabs
      PROVE  /\ NumbersDiffer(tabs) => NumbersDiffer(tabs')
             /\ \A q \in Attaches : step[q] = "record" /\ step'[q] # "record" =>
                  LET named(ts) == {<<t.id, t.number>> : t \in ToSet(ts)}
                  IN /\ named(tabs) \subseteq named(tabs')
                     /\ \A t \in ToSet(tabs') :
                          <<t.id, t.number>> \in named(tabs) \/ t.id = enters[q]
  <2>1. /\ ExtendsBy(tabs, tabs', enters[p]) /\ tabs \in Layouts /\ tabs' \in Layouts
        /\ \A q \in Attaches \ {p} : step'[q] = step[q]
    BY <1>3, <1>4
  <2>2. /\ NumbersDiffer(tabs) => NumbersDiffer(tabs')
        /\ \A t \in ToSet(tabs) : \E u \in ToSet(tabs') : u.id = t.id /\ u.number = t.number
        /\ \A u \in ToSet(tabs') :
             u.id = enters[p] \/ \E t \in ToSet(tabs) : u.id = t.id /\ u.number = t.number
    BY <2>1, ExtendsKeeps
  <2>3. \A q \in Attaches : step[q] = "record" /\ step'[q] # "record" => q = p BY <2>1
  <2> QED BY <2>2, <2>3
<1>5. ASSUME NEW p \in Attaches,
             \/ EnsureRunning(p) \/ ResolveShell(p) \/ LayoutUnread(p)
             \/ NeedsTTY(p) \/ Wait(p) \/ CreateSession(p)
      PROVE  UNCHANGED tabs
  BY <1>5 DEF EnsureRunning, ResolveShell, LayoutUnread, NeedsTTY, Wait, CreateSession, Recorded
<1>6. PlatformStep => UNCHANGED tabs BY DEF PlatformStep, Recorded
<1> QED BY <1>1, <1>2, <1>4, <1>5, <1>6 DEF ShellsNext

\* An attach takes no tab away and gives nobody's number to another, and no write
\* of the layout, the browser's neither, makes two tabs of one number
\* (resolveShell numbers one more than the largest, recordAttach sends the version).
THEOREM AttachesKeepTabs == ShellsSpec => TabsKept
<1>1. ShellsInv /\ [ShellsNext]_shellsVars =>
        [/\ NumbersDiffer(tabs) => NumbersDiffer(tabs')
         /\ \A p \in Attaches : tabs' # tabs /\ step[p] = "record" /\ step'[p] # "record" =>
              LET named(ts) == {<<t.id, t.number>> : t \in ToSet(ts)}
              IN /\ named(tabs) \subseteq named(tabs')
                 /\ \A t \in ToSet(tabs') :
                      <<t.id, t.number>> \in named(tabs) \/ t.id = enters[p]]_shellsVars
  BY TabsStep
<1> QED BY <1>1, LayoutsExtend, PTL DEF ShellsSpec, TabsKept

-----------------------------------------------------------------------------
\* Gateway.

\* What the Gateway holds under an identifier has these four parts.
HasParts(r) == r \in [kind : {r.kind}, up : {r.up}, name : {r.name}, items : Markings]
ResTyped == res = [i \in Ids |-> res[i]] /\ \A i \in Ids : HasParts(res[i])
GatewayTypes ==
  /\ ResTyped
  /\ command \in Commands /\ others \in Nat
\* An identifier above the largest ever given out holds nothing.
UsedCovers ==
  /\ used \in Nat
  /\ \A i \in Ids : res[i].kind # "none" => i <= used
\* A command that goes on is at one of its steps.
AtAStep == at \in Nat /\ (outcome = "none" => at \in DOMAIN command.steps)
\* What an edit merges with was read from the rule, and is what the rule holds
\* but for what others wrote since; a rule that is gone does not come back.
ReadIsHeld ==
  outcome = "none" /\ Step.do = "edit" /\ Merges /\ Here \in Ids =>
    /\ Here <= used
    /\ copy \in Markings
    /\ res[Here].kind = "rule" =>
         \A item \in Items : copy[item] = res[Here].items[item] \/ item \in touched
GatewayInv == GatewayTypes /\ UsedCovers /\ AtAStep /\ ReadIsHeld

LEMMA IdsTyped == MaxId \in Nat /\ Ids \subseteq Nat /\ (\A i \in Ids : i <= MaxId) /\ 0 \notin Ids
BY GatewayAssumption DEF Ids

LEMMA CommandsAre ==
  ASSUME NEW c \in Commands
  PROVE  /\ c.steps \in Seq(StepRecords) /\ Len(c.steps) \in Nat \ {0}
         /\ DOMAIN c.steps = 1..Len(c.steps)
         /\ \A k \in DOMAIN c.steps : c.steps[k] \in StepRecords
         /\ WellFormed(c.steps)
<1>1. c.steps \in Seq(StepRecords) /\ c.steps # <<>> /\ WellFormed(c.steps)
  BY GatewayAssumption
<1>2. Len(c.steps) \in Nat /\ c.steps \in [1..Len(c.steps) -> StepRecords]
  BY <1>1, LenProperties
<1>3. Len(c.steps) # 0 BY <1>1, EmptySeq
<1> QED BY <1>1, <1>2, <1>3

LEMMA EditFollowsRead ==
  ASSUME NEW c \in Commands, NEW k \in DOMAIN c.steps, c.steps[k].do = "edit"
  PROVE  /\ k - 1 \in DOMAIN c.steps /\ c.steps[k - 1].do = "readrule"
         /\ c.steps[k - 1].kind = "rule" /\ c.steps[k].kind = "rule"
BY CommandsAre DEF WellFormed

LEMMA MinIsThere ==
  ASSUME NEW set \in SUBSET Nat, set # {}
  PROVE  Min(set) \in set
<1>1. PICK least \in set : \A x \in set : least <= x BY LeastExists
<1> QED BY <1>1 DEF Min

LEMMA PlainIsMarking ==
  ASSUME NEW kind, NEW up, NEW name
  PROVE  HasParts(Resource(kind, up, name)) /\ HasParts(Gone) /\ Plain \in Markings
<1>1. Plain \in Markings BY DEF Plain, Markings, Marks, HeaderMarks
<1> QED BY <1>1 DEF HasParts, Resource, Gone

\* One resource is written: the others stand, and outside of Ids nothing is held.
LEMMA Written ==
  ASSUME ResTyped, NEW i, NEW v, i \in Ids => HasParts(v), res' = [res EXCEPT ![i] = v]
  PROVE  /\ ResTyped'
         /\ i \notin Ids => res' = res
         /\ i \in Ids => res'[i] = v
         /\ \A j \in Ids : j # i => res'[j] = res[j]
<1>1. DOMAIN res = Ids BY DEF ResTyped
<1>2. i \notin Ids => res' = res BY <1>1 DEF ResTyped
<1>3. i \in Ids => res'[i] = v BY <1>1
<1>4. \A j \in Ids : j # i => res'[j] = res[j] BY <1>1
<1>5. res' = [j \in Ids |-> res'[j]] BY <1>1
<1>6. \A j \in Ids : HasParts(res'[j]) BY <1>3, <1>4 DEF ResTyped
<1> QED BY <1>2, <1>3, <1>4, <1>5, <1>6 DEF ResTyped

LEMMA PartsSet ==
  ASSUME NEW r, HasParts(r)
  PROVE  /\ \A f \in Markings : /\ HasParts([r EXCEPT !.items = f])
                                /\ [r EXCEPT !.items = f].items = f
                                /\ [r EXCEPT !.items = f].kind = r.kind
         /\ \A n : /\ HasParts([r EXCEPT !.name = n])
                   /\ [r EXCEPT !.name = n].items = r.items
                   /\ [r EXCEPT !.name = n].kind = r.kind
         /\ r.items \in Markings
BY DEF HasParts

LEMMA MarkSet ==
  ASSUME NEW f \in Markings, NEW item \in Items, NEW mark \in {"ours", "theirs"}
  PROVE  [f EXCEPT ![item] = mark] \in Markings
<1>1. mark \in Marks \ HeaderMarks BY DEF Marks, HeaderMarks
<1> QED BY <1>1 DEF Markings

LEMMA GatewayStarts == GatewayInit => GatewayInv
<1> SUFFICES ASSUME GatewayInit PROVE GatewayInv
  OBVIOUS
<1>1. res \in [Ids -> Resources] /\ command \in Commands BY GatewayAssumption DEF GatewayInit
<1>2. \A r \in Resources : HasParts(r) BY DEF Resources, HasParts
<1>3. GatewayTypes BY <1>1, <1>2 DEF GatewayInit, GatewayTypes, ResTyped
<1> DEFINE held == {i \in Ids : res[i].kind # "none"}
<1>4. {Root} \union held \in SUBSET Nat /\ {Root} \union held # {}
  <2>1. held \subseteq Nat BY IdsTyped
  <2> HIDE DEF held
  <2> QED BY <2>1 DEF Root
<1>5. \A x \in {Root} \union held : x <= MaxId BY IdsTyped DEF Root
<1>6. used = Max({Root} \union held) BY DEF GatewayInit
<1>7. used \in Nat /\ \A x \in held : x <= used
  <2> HIDE DEF held
  <2>1. /\ Max({Root} \union held) \in {Root} \union held
        /\ \A x \in {Root} \union held : x <= Max({Root} \union held)
    BY <1>4, <1>5, IdsTyped, MaxIsIn
  <2> QED BY <1>4, <1>6, <2>1
<1>8. UsedCovers BY <1>7 DEF UsedCovers
<1>9. DOMAIN command.steps = 1..Len(command.steps) /\ Len(command.steps) \in Nat \ {0}
  BY <1>1, CommandsAre
<1>10. 1 \in DOMAIN command.steps /\ 0 \notin DOMAIN command.steps BY <1>9
<1>11. AtAStep BY <1>10 DEF AtAStep, GatewayInit
<1>12. command.steps[1].do # "edit" BY <1>1, <1>10, EditFollowsRead
<1>13. ReadIsHeld BY <1>12 DEF ReadIsHeld, GatewayInit, Step
<1> QED BY <1>3, <1>8, <1>11, <1>13 DEF GatewayInv

\* The largest identifier given out only grows.
LEMMA UsedGrows ==
  ASSUME UsedCovers, used' = Max({used} \union {i \in Ids : res'[i].kind # "none"})
  PROVE  UsedCovers' /\ used <= used'
<1> DEFINE held == {i \in Ids : res'[i].kind # "none"}
           all == {used} \union held
<1>1. used \in Nat BY DEF UsedCovers
<1>2. all \in SUBSET Nat /\ all # {} BY <1>1, IdsTyped
<1>3. used + MaxId \in Nat /\ \A x \in all : x <= used + MaxId
  <2>1. \A x \in held : x <= MaxId /\ x \in Nat BY IdsTyped
  <2> HIDE DEF held
  <2> QED BY <1>1, <2>1, IdsTyped
<1>4. Max(all) \in all /\ \A x \in all : x <= Max(all)
  <2> HIDE DEF all
  <2> QED BY <1>2, <1>3, MaxIsIn
<1>5. used' = Max(all) OBVIOUS
<1>6. used \in all /\ \A i \in held : i \in all OBVIOUS
<1>7. used' \in Nat /\ used <= used' /\ \A i \in held : i <= used'
  <2> HIDE DEF all, held
  <2> QED BY <1>2, <1>4, <1>5, <1>6
<1>8. UsedCovers' BY <1>7 DEF UsedCovers
<1> QED BY <1>7, <1>8

-----------------------------------------------------------------------------
\* Where a command is after a step of it.
Ends == at' = at /\ outcome' # "none"
Stays == at' = at /\ outcome' = outcome /\ Step.do = "find"
Moves ==
  /\ outcome = "none" /\ UNCHANGED <<command, others>>
  /\ Advance \/ Ends \/ Stays

LEMMA EndsAre ==
  \A how \in {"absent", "several", "failed", "cancelled"} : End(how) => Ends
BY DEF End, Ends

LEMMA CommandMoves ==
  ASSUME CommandSteps
  PROVE  Moves
<1> USE EndsAre DEF Moves, Runs, ReadsOnly, Learn, LearnOnly
<1>1. CASE ResolveOrganization BY <1>1 DEF ResolveOrganization
<1>2. CASE TakeIdentifier BY <1>2 DEF TakeIdentifier
<1>3. CASE FindPage
  <2>1. \A all : Conclude(all) => Advance \/ Ends BY DEF Conclude
  <2>2. Advance \/ Ends \/ Stays BY <1>3, <2>1 DEF FindPage, ReadPage, Stays
  <2> QED BY <1>3, <2>2 DEF FindPage
<1>4. CASE LookUp
  <2>1. MatchOrganization => Advance \/ Ends BY DEF MatchOrganization
  <2> QED BY <1>4, <2>1 DEF LookUp
<1>5. CASE PickOrganization BY <1>5 DEF PickOrganization
<1>6. CASE StoreOrganization BY <1>6 DEF StoreOrganization
<1>7. CASE Pass BY <1>7 DEF Pass
<1>8. CASE Fail BY <1>8 DEF Fail
<1>9. CASE ReadRule BY <1>9 DEF ReadRule
<1>10. \A r : Changed(r) => (Advance \/ Ends) /\ UNCHANGED <<command, others>>
  BY DEF Changed
<1>11. \A up, name : Add(up, name) => (Advance \/ Ends) /\ UNCHANGED <<command, others>>
  BY <1>10 DEF Add
<1>12. CASE CreateResource BY <1>11, <1>12 DEF CreateResource
<1>13. CASE CreateLink BY <1>10, <1>11, <1>13 DEF CreateLink
<1>14. CASE UpdateResource BY <1>10, <1>14 DEF UpdateResource
<1>15. CASE EditRule BY <1>10, <1>15 DEF EditRule
<1>16. CASE DeleteResource BY <1>10, <1>16 DEF DeleteResource
<1>17. CASE RemoveLink BY <1>10, <1>17 DEF RemoveLink
<1> QED
  BY <1>1, <1>2, <1>3, <1>4, <1>5, <1>6, <1>7, <1>8, <1>9, <1>12, <1>13, <1>14, <1>15, <1>16,
     <1>17 DEF CommandSteps

LEMMA MovesKeepStep ==
  ASSUME GatewayInv, Moves
  PROVE  /\ AtAStep'
         /\ Step.do # "readrule" /\ outcome' = "none" => Step'.do # "edit"
         /\ Step.do = "readrule" /\ outcome' = "none" /\ Step'.do = "edit" => Step.kind = "rule"
<1>1. /\ command \in Commands /\ command' = command
      /\ at \in Nat /\ at \in DOMAIN command.steps /\ outcome = "none"
  BY DEF GatewayInv, GatewayTypes, AtAStep, Moves
<1>3. DOMAIN command.steps = 1..Len(command.steps) /\ Len(command.steps) \in Nat
  BY <1>1, CommandsAre
<1>4. CASE Advance
  <2>1. /\ at' = at + 1 /\ at' \in Nat /\ at' - 1 = at
        /\ outcome' = "none" => at' \in DOMAIN command.steps
    BY <1>1, <1>3, <1>4 DEF Advance
  <2>2. Step' = command.steps[at'] /\ Step = command.steps[at] BY <1>1 DEF Step
  <2>3. outcome' = "none" /\ Step'.do = "edit" => Step.do = "readrule" /\ Step.kind = "rule"
    BY <1>1, <2>1, <2>2, EditFollowsRead
  <2> QED BY <1>1, <2>1, <2>3 DEF AtAStep
<1>5. CASE Ends BY <1>1, <1>5 DEF Ends, AtAStep
<1>6. CASE Stays BY <1>1, <1>6 DEF Stays, AtAStep, Step
<1> QED BY <1>4, <1>5, <1>6 DEF Moves

-----------------------------------------------------------------------------
\* What a step writes.
Kept == ResTyped' /\ UsedCovers' /\ used <= used'

LEMMA NothingWritten == ASSUME GatewayInv, UNCHANGED <<res, used>> PROVE Kept
BY DEF GatewayInv, GatewayTypes, ResTyped, UsedCovers, Kept

LEMMA ChangedKeeps ==
  ASSUME GatewayInv, NEW i, NEW v, i \in Ids => HasParts(v), Changed([res EXCEPT ![i] = v])
  PROVE  Kept
<1>1. res' = [res EXCEPT ![i] = v] /\ ResTyped BY DEF Changed, GatewayInv, GatewayTypes
<1>2. ResTyped' BY <1>1, Written
<1>3. used' = Max({used} \union {j \in Ids : res'[j].kind # "none"}) BY DEF Changed
<1>4. UsedCovers' /\ used <= used' BY <1>3, UsedGrows DEF GatewayInv
<1> QED BY <1>2, <1>4 DEF Kept

LEMMA AddKeeps ==
  ASSUME GatewayInv, NEW up, NEW name, Add(up, name)
  PROVE  Kept
<1>1. HasParts(Resource(Step.kind, up, name)) BY PlainIsMarking
<1> QED BY <1>1, ChangedKeeps DEF Add

LEMMA ItemsChangedKeep ==
  ASSUME GatewayInv, NEW i, NEW f, i \in Ids => f \in Markings,
         Changed([res EXCEPT ![i].items = f])
  PROVE  Kept
<1>1. i \in Ids => HasParts(res[i]) BY DEF GatewayInv, GatewayTypes, ResTyped
<1>2. i \in Ids => HasParts([res[i] EXCEPT !.items = f]) BY <1>1, PartsSet
<1>3. [res EXCEPT ![i].items = f] = [res EXCEPT ![i] = [res[i] EXCEPT !.items = f]]
  OBVIOUS
<1> QED BY <1>2, <1>3, ChangedKeeps

LEMMA EditedItems ==
  ASSUME GatewayInv, outcome = "none", Step.do = "edit", Here \in Ids
  PROVE  /\ \A item \in Sent \ command.flags : Merges
         /\ [item \in Items |-> IF item \in Sent THEN Merged(item) ELSE res[Here].items[item]]
              \in Markings
<1>1. ASSUME NEW item \in Sent \ command.flags PROVE Merges
  <2>1. PICK part \in {Matcher, Effect} : item \in part /\ part \intersect command.flags # {}
    <3> DEFINE parts == {part \in {Matcher, Effect} : part \intersect command.flags # {}}
    <3>0. item \in (UNION parts) \union (command.flags \intersect {"about"}) /\ item \notin command.flags
      BY <1>1 DEF Sent
    <3>1. item \in UNION parts
      <4> HIDE DEF parts
      <4> QED BY <3>0
    <3>2. PICK part \in parts : item \in part
      <4> HIDE DEF parts
      <4> QED BY <3>1
    <3> QED BY <3>2
  <2>2. part \subseteq Matcher \union Effect BY <2>1
  <2> QED BY <2>1, <2>2 DEF Merges
<1>2. res[Here].items \in Markings BY PartsSet DEF GatewayInv, GatewayTypes, ResTyped
<1>3. Merges => copy \in Markings BY DEF GatewayInv, ReadIsHeld
<1>4. ASSUME NEW item \in Items
      PROVE  LET new == IF item \in Sent THEN Merged(item) ELSE res[Here].items[item]
             IN new \in Marks /\ (new \in HeaderMarks => item = "headers")
  <2>1. CASE item \in Sent /\ (item \in command.flags \/ item = "private")
    BY <2>1 DEF Merged, Marks, HeaderMarks
  <2>2. CASE item \in Sent /\ item \notin command.flags /\ item # "private"
    <3>1. copy[item] \in Marks /\ (copy[item] \in HeaderMarks => item = "headers")
      BY <1>1, <1>3, <2>2 DEF Markings
    <3>2. Merged(item) = ReadBack(copy[item]) BY <2>2 DEF Merged
    <3>3. ReadBack(copy[item]) \in Marks /\ (ReadBack(copy[item]) \in HeaderMarks => item = "headers")
      BY <3>1 DEF ReadBack, Marks, HeaderMarks
    <3> QED BY <2>2, <3>2, <3>3
  <2>3. CASE item \notin Sent BY <1>2, <2>3 DEF Markings
  <2> QED BY <2>1, <2>2, <2>3
<1>5. [item \in Items |-> IF item \in Sent THEN Merged(item) ELSE res[Here].items[item]]
        \in Markings
  BY <1>4 DEF Markings
<1> QED BY <1>1, <1>5

LEMMA CommandKeeps ==
  ASSUME GatewayInv, CommandSteps
  PROVE  Kept
<1>0. /\ \A i \in Ids : HasParts(res[i]) /\ res[i].items \in Markings
      /\ Held \subseteq Ids /\ Ids \subseteq Nat
  BY PartsSet, IdsTyped DEF GatewayInv, GatewayTypes, ResTyped, Held
<1>1. \/ ResolveOrganization \/ TakeIdentifier \/ FindPage \/ LookUp \/ PickOrganization
      \/ StoreOrganization \/ Pass \/ Fail \/ ReadRule
      => UNCHANGED <<res, used>>
  BY DEF ResolveOrganization, TakeIdentifier, FindPage, LookUp, PickOrganization,
         StoreOrganization, Pass, Fail, ReadRule, ReadsOnly
<1>2. CASE CreateResource BY <1>2, AddKeeps DEF CreateResource
<1>3. CASE CreateLink
  <2>1. CASE Add(Place(Step.under), Place(Step.arg)) BY <2>1, AddKeeps
  <2>2. CASE /\ Pairs(Step.kind, Place(Step.under), Place(Step.arg)) # {}
             /\ Changed([res EXCEPT ![Min(Pairs(Step.kind, Place(Step.under), Place(Step.arg)))]
                                       .items["about"] = "ours"])
    <3> DEFINE i == Min(Pairs(Step.kind, Place(Step.under), Place(Step.arg)))
    <3>1. Pairs(Step.kind, Place(Step.under), Place(Step.arg)) \in SUBSET Ids
      BY <1>0 DEF Pairs, Kin
    <3>2. i \in Ids BY <1>0, <2>2, <3>1, MinIsThere
    <3> HIDE DEF i
    <3>3. res[i].items \in Markings BY <1>0, <3>2
    <3>4. [res[i].items EXCEPT !["about"] = "ours"] \in Markings
      BY <3>3, MarkSet DEF Items
    <3>5. Changed([res EXCEPT ![i].items["about"] = "ours"]) BY <2>2 DEF i
    <3>6. [res EXCEPT ![i].items["about"] = "ours"]
            = [res EXCEPT ![i].items = [res[i].items EXCEPT !["about"] = "ours"]]
      OBVIOUS
    <3>7. Changed([res EXCEPT ![i].items = [res[i].items EXCEPT !["about"] = "ours"]])
      BY <3>5, <3>6
    <3> QED BY <3>4, <3>7, ItemsChangedKeep
  <2> QED BY <1>3, <2>1, <2>2 DEF CreateLink
<1>4. CASE UpdateResource
  <2> DEFINE f == [item \in Items |-> IF item \in command.flags THEN "ours" ELSE res[Here].items[item]]
  <2>1. Here \in Ids => f \in Markings
    <3> SUFFICES ASSUME Here \in Ids PROVE f \in Markings
      OBVIOUS
    <3>1. res[Here].items \in Markings BY <1>0
    <3> QED BY <3>1 DEF Markings, Marks, HeaderMarks
  <2>2. Changed([res EXCEPT ![Here].items = f]) BY <1>4 DEF UpdateResource
  <2> HIDE DEF f
  <2> QED BY <2>1, <2>2, ItemsChangedKeep
<1>5. CASE EditRule
  <2> DEFINE f == [item \in Items |-> IF item \in Sent THEN Merged(item) ELSE res[Here].items[item]]
  <2>1. Here \in Ids => f \in Markings BY <1>5, EditedItems DEF EditRule, Runs
  <2>2. Changed([res EXCEPT ![Here].items = f]) BY <1>5 DEF EditRule
  <2> HIDE DEF f
  <2> QED BY <2>1, <2>2, ItemsChangedKeep
<1>6. CASE DeleteResource BY <1>6, PlainIsMarking, ChangedKeeps DEF DeleteResource
<1>7. CASE RemoveLink BY <1>7, PlainIsMarking, ChangedKeeps DEF RemoveLink
<1> QED BY <1>1, <1>2, <1>3, <1>4, <1>5, <1>6, <1>7, NothingWritten DEF CommandSteps

-----------------------------------------------------------------------------
\* What others write under the command's feet.

\* The rule that was read is where it was read, or nothing is any more.
Undisturbed ==
  /\ UNCHANGED <<command, at, found, copy, outcome>> /\ others' \in Nat /\ others' # others
  /\ Kept
  /\ \A i \in Ids : i <= used /\ res'[i].kind = "rule" =>
       /\ res[i].kind = "rule"
       /\ \A item \in Items :
            \/ res'[i].items[item] = res[i].items[item] /\ (item \in touched => item \in touched')
            \/ item \in touched'

LEMMA OthersWritten ==
  ASSUME GatewayInv, NEW i \in Ids, NEW v, HasParts(v), NEW ids,
         ByOthers([res EXCEPT ![i] = v], ids)
  PROVE  /\ UNCHANGED <<command, at, found, copy, outcome>> /\ others' \in Nat /\ others' # others
         /\ Kept
         /\ res'[i] = v /\ \A j \in Ids : j # i => res'[j] = res[j]
<1>1. res' = [res EXCEPT ![i] = v] /\ ResTyped BY DEF ByOthers, GatewayInv, GatewayTypes
<1>2. ResTyped' /\ res'[i] = v /\ \A j \in Ids : j # i => res'[j] = res[j] BY <1>1, Written
<1>3. used' = Max({used} \union {j \in Ids : res'[j].kind # "none"}) BY DEF ByOthers
<1>4. UsedCovers' /\ used <= used' BY <1>3, UsedGrows DEF GatewayInv
<1>5. others \in Nat /\ others' = others + 1 BY DEF ByOthers, GatewayInv, GatewayTypes
<1>6. UNCHANGED <<command, at, found, copy, outcome>> BY DEF ByOthers
<1> QED BY <1>2, <1>4, <1>5, <1>6 DEF Kept

LEMMA OthersDisturbNot ==
  ASSUME GatewayInv, OthersCreate \/ OthersRename \/ OthersDelete \/ OthersWrite
  PROVE  Undisturbed
<1>0. /\ \A i \in Ids : HasParts(res[i]) /\ res[i].items \in Markings
      /\ Held \subseteq Ids /\ Ids \subseteq Nat /\ used \in Nat
  BY PartsSet, IdsTyped DEF GatewayInv, GatewayTypes, ResTyped, Held, UsedCovers
<1>1. CASE OthersCreate
  <2>1. New \in Ids /\ UNCHANGED touched BY <1>1 DEF OthersCreate
  <2>2. PICK i \in Held, n \in Names :
          ByOthers([res EXCEPT ![New] = Resource(res[i].kind, res[i].up, n)], {New})
    BY <1>1 DEF OthersCreate
  <2>3. HasParts(Resource(res[i].kind, res[i].up, n)) BY PlainIsMarking
  <2>4. /\ UNCHANGED <<command, at, found, copy, outcome>> /\ others' \in Nat /\ others' # others
        /\ Kept /\ \A j \in Ids : j # New => res'[j] = res[j]
    BY <2>1, <2>2, <2>3, OthersWritten
  <2>5. \A j \in Ids : j <= used => j # New BY <1>0 DEF New
  <2> QED BY <2>1, <2>4, <2>5 DEF Undisturbed
<1>2. CASE OthersRename
  <2>1. PICK i \in Held, n \in Names : ByOthers([res EXCEPT ![i].name = n], {i})
    BY <1>2 DEF OthersRename
  <2>2. [res EXCEPT ![i].name = n] = [res EXCEPT ![i] = [res[i] EXCEPT !.name = n]] OBVIOUS
  <2> DEFINE v == [res[i] EXCEPT !.name = n]
  <2>3. HasParts(v) /\ v.items = res[i].items /\ v.kind = res[i].kind
    BY <1>0, PartsSet
  <2>4. ByOthers([res EXCEPT ![i] = v], {i}) BY <2>1, <2>2
  <2> HIDE DEF v
  <2>5. /\ UNCHANGED <<command, at, found, copy, outcome>> /\ others' \in Nat /\ others' # others
        /\ Kept /\ res'[i] = v /\ \A j \in Ids : j # i => res'[j] = res[j]
    BY <1>0, <2>3, <2>4, OthersWritten
  <2>6. UNCHANGED touched BY <1>2 DEF OthersRename
  <2> QED BY <2>3, <2>5, <2>6 DEF Undisturbed
<1>3. CASE OthersDelete
  <2>1. PICK i \in Held : ByOthers([res EXCEPT ![i] = Gone], {i}) BY <1>3 DEF OthersDelete
  <2>2. HasParts(Gone) /\ Gone.kind # "rule" BY PlainIsMarking DEF Gone, Resource
  <2>3. /\ UNCHANGED <<command, at, found, copy, outcome>> /\ others' \in Nat /\ others' # others
        /\ Kept /\ res'[i] = Gone /\ \A j \in Ids : j # i => res'[j] = res[j]
    BY <1>0, <2>1, <2>2, OthersWritten
  <2>4. UNCHANGED touched BY <1>3 DEF OthersDelete
  <2> QED BY <2>2, <2>3, <2>4 DEF Undisturbed
<1>4. CASE OthersWrite
  <2>1. PICK i \in Held, written \in Items :
          /\ res[i].kind = "rule"
          /\ ByOthers([res EXCEPT ![i].items[written] = "theirs"], {})
          /\ touched' = touched \union {written}
    BY <1>4 DEF OthersWrite
  <2> DEFINE f == [res[i].items EXCEPT ![written] = "theirs"]
             v == [res[i] EXCEPT !.items = f]
  <2>2. [res EXCEPT ![i].items[written] = "theirs"] = [res EXCEPT ![i] = v] OBVIOUS
  <2>3. f \in Markings /\ \A item \in Items : item # written => f[item] = res[i].items[item]
    <3>1. res[i].items \in Markings BY <1>0
    <3> QED BY <3>1, MarkSet DEF Markings
  <2> HIDE DEF f
  <2>4. HasParts(v) /\ v.items = f BY <1>0, <2>3, PartsSet
  <2>5. ByOthers([res EXCEPT ![i] = v], {}) BY <2>1, <2>2
  <2> HIDE DEF v
  <2>6. /\ UNCHANGED <<command, at, found, copy, outcome>> /\ others' \in Nat /\ others' # others
        /\ Kept /\ res'[i] = v /\ \A j \in Ids : j # i => res'[j] = res[j]
    BY <1>0, <2>4, <2>5, OthersWritten
  <2> QED BY <2>1, <2>3, <2>4, <2>6 DEF Undisturbed
<1> QED BY <1>1, <1>2, <1>3, <1>4

-----------------------------------------------------------------------------
LEMMA CommandKeepsRead ==
  ASSUME GatewayInv, CommandSteps
  PROVE  ReadIsHeld'
<1>1. Moves BY CommandMoves
<1>2. /\ Step.do # "readrule" /\ outcome' = "none" => Step'.do # "edit"
      /\ Step.do = "readrule" /\ outcome' = "none" /\ Step'.do = "edit" => Step.kind = "rule"
  BY <1>1, MovesKeepStep
<1>3. CASE Step.do # "readrule" BY <1>2, <1>3 DEF ReadIsHeld
<1>4. CASE Step.do = "readrule" /\ ReadRule
  <2> SUFFICES ASSUME outcome' = "none", Step'.do = "edit", Merges', Here' \in Ids
               PROVE  /\ Here' <= used'
                      /\ copy' \in Markings
                      /\ \A item \in Items : copy'[item] = res'[Here'].items[item]
    BY DEF ReadIsHeld
  <2>1. Step.kind = "rule" BY <1>2, <1>4
  <2>2. UNCHANGED <<res, used, command, found>> BY <1>4 DEF ReadRule, ReadsOnly
  <2>3. Here' = Here /\ Merges BY <2>2 DEF Here, Merges
  <2>4. res[Here].kind = "rule" /\ copy' = res[Here].items
    BY <1>4, <2>1, <2>3 DEF ReadRule
  <2>5. Here <= used BY <2>3, <2>4 DEF GatewayInv, UsedCovers
  <2>6. res[Here].items \in Markings
    BY <2>3, PartsSet DEF GatewayInv, GatewayTypes, ResTyped
  <2> QED BY <2>2, <2>3, <2>4, <2>5, <2>6
<1>5. CASE Step.do = "readrule" /\ Fail BY <1>5 DEF Fail, End, ReadIsHeld
<1>6. Step.do = "readrule" => ReadRule \/ Fail
  BY DEF CommandSteps, Runs, ResolveOrganization, TakeIdentifier, FindPage, LookUp,
         PickOrganization, StoreOrganization, Pass, CreateResource, CreateLink, UpdateResource,
         EditRule, DeleteResource, RemoveLink
<1> QED BY <1>3, <1>4, <1>5, <1>6

LEMMA OthersKeepRead ==
  ASSUME GatewayInv, Undisturbed
  PROVE  ReadIsHeld'
<1>1. UNCHANGED <<command, at, found, copy, outcome>> BY DEF Undisturbed
<1>2. Step' = Step /\ Here' = Here /\ (Merges' = Merges) BY <1>1 DEF Step, Here, Merges
<1> SUFFICES ASSUME outcome = "none", Step.do = "edit", Merges, Here \in Ids
             PROVE  /\ Here <= used'
                    /\ copy \in Markings
                    /\ res'[Here].kind = "rule" =>
                         \A item \in Items : copy[item] = res'[Here].items[item] \/ item \in touched'
  BY <1>1, <1>2 DEF ReadIsHeld
<1>3. /\ Here <= used /\ copy \in Markings
      /\ res[Here].kind = "rule" =>
           \A item \in Items : copy[item] = res[Here].items[item] \/ item \in touched
  BY DEF GatewayInv, ReadIsHeld
<1>4. used \in Nat /\ used' \in Nat /\ used <= used' /\ Here \in Nat
  BY IdsTyped DEF GatewayInv, UsedCovers, Undisturbed, Kept
<1>5. Here <= used' BY <1>3, <1>4
<1>6. res'[Here].kind = "rule" =>
        \A item \in Items : copy[item] = res'[Here].items[item] \/ item \in touched'
  BY <1>3 DEF Undisturbed
<1> QED BY <1>3, <1>5, <1>6

LEMMA GatewayKeeps == GatewayInv /\ [GatewayNext]_gatewayVars => GatewayInv'
<1> SUFFICES ASSUME GatewayInv, [GatewayNext]_gatewayVars PROVE GatewayInv'
  OBVIOUS
<1>1. CASE CommandSteps
  <2>1. Moves BY <1>1, CommandMoves
  <2>2. Kept BY <1>1, CommandKeeps
  <2>3. GatewayTypes' BY <2>1, <2>2 DEF Moves, Kept, GatewayInv, GatewayTypes
  <2>4. AtAStep' BY <2>1, MovesKeepStep
  <2>5. ReadIsHeld' BY <1>1, CommandKeepsRead
  <2> QED BY <2>2, <2>3, <2>4, <2>5 DEF Kept, GatewayInv
<1>2. CASE OthersCreate \/ OthersRename \/ OthersDelete \/ OthersWrite
  <2>1. Undisturbed BY <1>2, OthersDisturbNot
  <2>2. ResTyped' /\ UsedCovers' BY <2>1 DEF Undisturbed, Kept
  <2>3. GatewayTypes' BY <2>1, <2>2 DEF Undisturbed, GatewayInv, GatewayTypes
  <2>4. AtAStep' BY <2>1 DEF Undisturbed, GatewayInv, AtAStep
  <2>5. ReadIsHeld' BY <2>1, OthersKeepRead
  <2> QED BY <2>2, <2>3, <2>4, <2>5 DEF GatewayInv
<1>3. CASE UNCHANGED gatewayVars
  <2> USE <1>3 DEF gatewayVars
  <2>1. GatewayTypes' BY DEF GatewayInv, GatewayTypes, ResTyped
  <2>2. UsedCovers' BY DEF GatewayInv, UsedCovers
  <2>3. AtAStep' BY DEF GatewayInv, AtAStep
  <2>4. ReadIsHeld' BY DEF GatewayInv, ReadIsHeld, Step, Here, Merges
  <2> QED BY <2>1, <2>2, <2>3, <2>4 DEF GatewayInv
<1> QED BY <1>1, <1>2, <1>3 DEF GatewayNext

\* In every reachable state nothing is held under an identifier that was not given
\* out, and when an edit of a rule is about to be sent, what it is merged with is
\* what the rule holds but for what others wrote since it was read (newEgressRuleUpdateCmd
\* gets the rule and then updates it, and no version goes with either).
THEOREM EditsAreOfWhatWasRead == GatewaySpec => []GatewayInv
BY GatewayStarts, GatewayKeeps, PTL DEF GatewaySpec

LEMMA EditStep ==
  ASSUME GatewayInv, GatewayNext, Runs({"edit"}), res' # res, others' = others,
         NEW item \in Items \ command.flags
  PROVE  \/ res'[Here].items[item] = res[Here].items[item]
         \/ /\ item \in Sent
            /\ \/ item \in touched
               \/ copy[item] \in {"basic", "bearer", "lookalike", "untidy"}
               \/ item = "private"
<1>1. outcome = "none" /\ Step.do = "edit" BY DEF Runs
<1>2. EditRule
  <2>1. CommandSteps
    BY OthersDisturbNot DEF GatewayNext, Undisturbed
  <2>2. ~ReadRule /\ ~Fail
    BY <1>1 DEF ReadRule, Fail, Runs, ReadsOnly
  <2> QED
    BY <1>1, <2>1, <2>2 DEF CommandSteps, Runs, ResolveOrganization, TakeIdentifier, FindPage,
         LookUp, PickOrganization, StoreOrganization, Pass, CreateResource, CreateLink,
         UpdateResource, DeleteResource, RemoveLink
<1> DEFINE f == [x \in Items |-> IF x \in Sent THEN Merged(x) ELSE res[Here].items[x]]
<1>3. res' = [res EXCEPT ![Here].items = f] /\ res[Here].kind = Step.kind
  BY <1>2 DEF EditRule, Changed
<1>4. res' = [res EXCEPT ![Here] = [res[Here] EXCEPT !.items = f]] BY <1>3
<1>5. f[item] = IF item \in Sent THEN Merged(item) ELSE res[Here].items[item] OBVIOUS
<1>6. Here \in Ids /\ res'[Here] = [res[Here] EXCEPT !.items = f]
  <2>1. DOMAIN res = Ids /\ ResTyped BY DEF GatewayInv, GatewayTypes, ResTyped
  <2> HIDE DEF f
  <2>2. Here \in Ids BY <1>4, <2>1 DEF ResTyped
  <2> QED BY <1>4, <2>1, <2>2
<1>7. f \in Markings BY <1>1, <1>6, EditedItems
<1>8. HasParts(res[Here]) BY <1>6 DEF GatewayInv, GatewayTypes, ResTyped
<1> HIDE DEF f
<1>9. res'[Here].items = f BY <1>6, <1>7, <1>8, PartsSet
<1>10. CASE item \notin Sent BY <1>5, <1>9, <1>10
<1>11. CASE item \in Sent
  <2>1. Merges BY <1>1, <1>6, <1>11, EditedItems
  <2>2. res[Here].kind = "rule"
    <3>1. command \in Commands /\ at \in DOMAIN command.steps
      BY <1>1 DEF GatewayInv, GatewayTypes, AtAStep
    <3> QED BY <1>1, <1>3, <3>1, EditFollowsRead DEF Step
  <2>3. copy \in Markings /\ (copy[item] = res[Here].items[item] \/ item \in touched)
    BY <1>1, <1>6, <2>1, <2>2 DEF GatewayInv, ReadIsHeld
  <2> SUFFICES ASSUME copy[item] \notin {"basic", "bearer", "lookalike", "untidy"}, item # "private"
               PROVE  res'[Here].items[item] = res[Here].items[item] \/ item \in touched
    BY <1>11
  <2>4. f[item] = ReadBack(copy[item]) BY <1>5, <1>11 DEF Merged
  <2>5. ReadBack(copy[item]) = copy[item] BY DEF ReadBack
  <2> QED BY <1>9, <2>3, <2>4, <2>5
<1> QED BY <1>10, <1>11

\* An edit of a rule leaves what no flag names as it was, unless somebody wrote it
\* between the read and the write.  What is sent along with a flag loses nothing
\* but the private resource, the user name or Bearer scheme of a value in the
\* clear, such a value that reads like another form of argument, and blanks and
\* lower case (buildMergedEgressMatcher, buildMergedEgressEffect,
\* egressHeaderArgsFromProto): whatever else two parts of a rule hold is kept.
THEOREM EditsKeepTheRest == GatewaySpec => EditsKeepRest
<1>1. GatewayInv /\ [GatewayNext]_gatewayVars =>
        [Runs({"edit"}) /\ res' # res /\ others' = others =>
           \A item \in Items \ command.flags :
             \/ res'[Here].items[item] = res[Here].items[item]
             \/ /\ item \in Sent
                /\ \/ item \in touched
                   \/ copy[item] \in {"basic", "bearer", "lookalike", "untidy"}
                   \/ item = "private"]_gatewayVars
  BY EditStep
<1> QED BY <1>1, EditsAreOfWhatWasRead, PTL DEF GatewaySpec, EditsKeepRest
-----------------------------------------------------------------------------
\* What a lookup answers.

\* Whatever the Gateway holds was true at some moment.
FactsHold == FactsOf(res) \subseteq facts /\ \A f \in facts : f.id \in Ids
\* What a listing has shown was of the kind and in the place it looked at.
Shown(i) ==
  \E f \in facts : f.id = i /\ f.kind = Step.kind /\ Place(Step.under) \in {Root, f.up}
\* Between two pages, the command has every match it passed that nothing happened to.
Paging ==
  /\ cursor \in Nat
  /\ outcome = "none" /\ cursor # 0 =>
       /\ Step.do = "find" /\ Step.how \notin FirstPage \union {"organization"} /\ ~ByServer
       /\ \A i \in steady \intersect Candidates : i <= cursor /\ Matches(i) => i \in hits
       /\ \A i \in hits : Shown(i)
AnswersInv == GatewayInv /\ FactsHold /\ Paging

LEMMA StepIs ==
  ASSUME GatewayInv, outcome = "none"
  PROVE  /\ Step.do = "org" =>
              Step.kind = "org" /\ Step.under = 0 /\ Step.arg = 0 /\ Step.how \in {"chosen", "prompt"}
         /\ Step.how = "organization" => Step.kind = "org" /\ Step.under = 0
         /\ Step.how = "sandbox" => Step.kind = "sandbox"
<1>1. command \in Commands /\ at \in DOMAIN command.steps
  BY DEF GatewayInv, GatewayTypes, AtAStep
<1>2. Step = command.steps[at] BY DEF Step
<1> QED BY <1>1, <1>2, CommandsAre DEF WellFormed

LEMMA IdsFinite == \A S \in SUBSET Ids : IsFiniteSet(S)
<1>1. IsFiniteSet(Ids) BY IdsTyped, FS_Interval DEF Ids
<1> QED BY <1>1, FS_Subset

LEMMA CandidatesAre ==
  /\ Candidates \subseteq Ids /\ Candidates \subseteq Held /\ Held \subseteq Ids
  /\ \A i \in Candidates :
       i \in Ids /\ res[i].kind = Step.kind /\ Place(Step.under) \in {Root, res[i].up}
BY DEF Candidates, Kin, Held

LEMMA FactsOfHeld == \A i \in Held : Fact(res, i) \in FactsOf(res)
BY DEF Held, FactsOf

LEMMA HeldIsShown ==
  ASSUME FactsHold, NEW i \in Held, res[i].kind = Step.kind, Place(Step.under) \in {Root, res[i].up}
  PROVE  Shown(i)
<1>1. Fact(res, i) \in facts BY FactsOfHeld DEF FactsHold
<1>2. /\ Fact(res, i).id = i /\ Fact(res, i).kind = res[i].kind
      /\ Fact(res, i).up = res[i].up
  BY DEF Fact
<1> QED BY <1>1, <1>2 DEF Shown

-----------------------------------------------------------------------------
\* A page is a piece of what is listed: nothing is between it and the cursor, it
\* is empty only when nothing is left, and it is everything when that is little.
LEMMA PageIsAPiece ==
  ASSUME NEW c \in Nat
  PROVE  /\ PageAfter(c) \subseteq Candidates
         /\ \A p \in PageAfter(c), i \in Candidates : c < i /\ i <= p => i \in PageAfter(c)
         /\ (\E i \in Candidates : i > c) => PageAfter(c) # {}
         /\ Cardinality(Candidates) <= PageSize => \A i \in Candidates : i > c => i \in PageAfter(c)
<1> DEFINE upTo(i) == {j \in Candidates : c < j /\ j <= i}
<1>0. Candidates \subseteq Ids /\ Ids \subseteq Nat /\ PageSize \in Nat /\ PageSize >= 1
  BY CandidatesAre, IdsTyped, GatewayAssumption
<1>1. \A i : IsFiniteSet(upTo(i)) /\ Cardinality(upTo(i)) \in Nat
  <2>1. \A i : IsFiniteSet(upTo(i)) BY <1>0, IdsFinite
  <2> HIDE DEF upTo
  <2> QED BY <2>1, FS_CardinalityType
<1>2. IsFiniteSet(Candidates) /\ Cardinality(Candidates) \in Nat
  BY <1>0, IdsFinite, FS_CardinalityType
<1>3. PageAfter(c) = {i \in Candidates : i > c /\ Cardinality(upTo(i)) <= PageSize}
  BY DEF PageAfter
<1>4. ASSUME NEW p \in PageAfter(c), NEW i \in Candidates, c < i, i <= p
      PROVE  i \in PageAfter(c)
  <2>1. upTo(i) \subseteq upTo(p)
    <3>1. p \in Nat /\ i \in Nat BY <1>0, <1>3
    <3>2. ASSUME NEW j \in upTo(i) PROVE j \in upTo(p)
      <4>1. j \in Candidates /\ j \in Nat /\ c < j /\ j <= i BY <1>0, <3>2
      <4>2. j <= p BY <1>4, <3>1, <4>1
      <4> QED BY <4>1, <4>2
    <3> QED BY <3>2
  <2> HIDE DEF upTo
  <2>2. Cardinality(upTo(i)) <= Cardinality(upTo(p)) BY <1>1, <2>1, FS_Subset
  <2>3. Cardinality(upTo(p)) <= PageSize BY <1>3
  <2>4. Cardinality(upTo(i)) <= PageSize BY <1>0, <1>1, <2>2, <2>3
  <2>5. i > c BY <1>0, <1>4
  <2> QED BY <1>3, <2>4, <2>5
<1>5. ASSUME NEW some \in Candidates, some > c PROVE PageAfter(c) # {}
  <2> DEFINE after == {i \in Candidates : i > c}
  <2>1. after \in SUBSET Nat /\ after # {} BY <1>0, <1>5
  <2>2. PICK least \in after : \A x \in after : least <= x
    <3> HIDE DEF after
    <3> QED BY <2>1, LeastExists
  <2>3. upTo(least) = {least}
    <3>1. least \in Nat /\ least \in Candidates /\ c < least BY <1>0, <2>2
    <3>2. ASSUME NEW j \in upTo(least) PROVE j = least
      <4>1. j \in Nat /\ j \in after /\ j <= least BY <1>0, <3>2
      <4> HIDE DEF after, upTo
      <4> QED BY <2>2, <3>1, <4>1
    <3>3. least \in upTo(least) BY <3>1
    <3> HIDE DEF upTo
    <3> QED BY <3>2, <3>3
  <2>4. least \in Candidates /\ least > c BY <2>2
  <2> HIDE DEF upTo, after
  <2>5. Cardinality(upTo(least)) = 1 BY <2>3, FS_Singleton
  <2> QED BY <1>0, <1>3, <2>4, <2>5
<1>6. ASSUME Cardinality(Candidates) <= PageSize, NEW i \in Candidates, i > c
      PROVE  i \in PageAfter(c)
  <2>1. upTo(i) \subseteq Candidates OBVIOUS
  <2> HIDE DEF upTo
  <2>2. Cardinality(upTo(i)) <= Cardinality(Candidates) BY <1>2, <2>1, FS_Subset
  <2>3. Cardinality(upTo(i)) <= PageSize BY <1>0, <1>1, <1>2, <1>6, <2>2
  <2> QED BY <1>3, <1>6, <2>3
<1>7. PageAfter(c) \subseteq Candidates BY <1>3
<1> QED BY <1>4, <1>5, <1>6, <1>7

\* What a request adds to the matches, and what is left when none is added to.
More == \E i \in Candidates \ PageAfter(cursor) : i > cursor
LEMMA MatchedSoFar ==
  ASSUME AnswersInv, outcome = "none"
  PROVE  /\ \A i \in Matched : Shown(i)
         /\ \A i \in Since \intersect Candidates :
              (i <= cursor \/ i \in PageAfter(cursor)) /\ Matches(i) => i \in Matched
<1>1. ASSUME NEW i \in Matched PROVE Shown(i)
  <2>1. CASE cursor # 0 /\ i \in hits BY <2>1 DEF AnswersInv, Paging
  <2>2. CASE i \in PageAfter(cursor)
    <3>1. i \in Candidates BY <2>2 DEF PageAfter
    <3> QED BY <3>1, CandidatesAre, HeldIsShown DEF AnswersInv
  <2> QED BY <1>1, <2>1, <2>2 DEF Matched
<1>2. ASSUME NEW i \in Since \intersect Candidates, Matches(i),
             i <= cursor \/ i \in PageAfter(cursor)
      PROVE  i \in Matched
  <2>1. CASE i \in PageAfter(cursor) BY <1>2, <2>1 DEF Matched
  <2>2. CASE i <= cursor
    <3>1. i \in Nat /\ i # 0 /\ cursor \in Nat
      BY CandidatesAre, IdsTyped DEF AnswersInv, Paging
    <3>2. cursor # 0 BY <2>2, <3>1
    <3>3. i \in steady BY <1>2, <3>2 DEF Since
    <3> QED BY <1>2, <2>2, <3>2, <3>3 DEF AnswersInv, Paging, Matched
  <2> QED BY <1>2, <2>1, <2>2
<1> QED BY <1>1, <1>2

\* A lookup that has seen every page, or the only one, has every steady match.
LEMMA MatchedAtTheEnd ==
  ASSUME AnswersInv, outcome = "none",
         ~More \/ (Step.how \in FirstPage /\ Cardinality(Candidates) <= PageSize)
  PROVE  \A i \in Since \intersect Candidates : Matches(i) => i \in Matched
<1> SUFFICES ASSUME NEW i \in Since \intersect Candidates, Matches(i)
             PROVE  i \in Matched
  OBVIOUS
<1>1. i \in Nat /\ i # 0 /\ cursor \in Nat
  BY CandidatesAre, IdsTyped DEF AnswersInv, Paging
<1>2. i <= cursor \/ i \in PageAfter(cursor)
  <2>1. CASE ~More BY <1>1, <2>1 DEF More
  <2>2. CASE Step.how \in FirstPage /\ Cardinality(Candidates) <= PageSize
    <3>1. i > cursor \/ i <= cursor BY <1>1
    <3> QED BY <1>1, <2>2, <3>1, PageIsAPiece
  <2> QED BY <2>1, <2>2
<1> QED BY <1>2, MatchedSoFar

-----------------------------------------------------------------------------
LEMMA StepStays ==
  ASSUME UNCHANGED <<command, at, found>>
  PROVE  /\ Step' = Step /\ Reference' = Reference /\ ByServer' = ByServer
         /\ \A k : Place(k)' = Place(k)
BY DEF Step, Reference, ByServer, Place

\* Facts are only added, and each step adds what it makes true.
AddsFacts == UNCHANGED <<res, facts>> \/ facts' = facts \union FactsOf(res')

LEMMA FactsStand ==
  ASSUME FactsHold, AddsFacts
  PROVE  FactsHold' /\ facts \subseteq facts'
<1>1. CASE UNCHANGED <<res, facts>> BY <1>1 DEF FactsHold, FactsOf, Fact
<1>2. CASE facts' = facts \union FactsOf(res')
  <2>1. \A f \in FactsOf(res') : f.id \in Ids BY DEF FactsOf, Fact
  <2>2. FactsOf(res)' = FactsOf(res') BY DEF FactsOf, Fact
  <2> QED BY <1>2, <2>1, <2>2 DEF FactsHold
<1> QED BY <1>1, <1>2 DEF AddsFacts

LEMMA CommandAddsFacts ==
  ASSUME CommandSteps
  PROVE  AddsFacts
<1>1. \/ ResolveOrganization \/ TakeIdentifier \/ FindPage \/ LookUp \/ PickOrganization
      \/ StoreOrganization \/ Pass \/ Fail \/ ReadRule
      => UNCHANGED <<res, facts>>
  BY DEF ResolveOrganization, TakeIdentifier, FindPage, LookUp, PickOrganization,
         StoreOrganization, Pass, Fail, ReadRule, ReadsOnly
<1>2. \A r : Changed(r) => AddsFacts BY DEF Changed, AddsFacts
<1>3. CreateResource \/ CreateLink \/ UpdateResource \/ EditRule \/ DeleteResource \/ RemoveLink
      => AddsFacts
  BY <1>2 DEF CreateResource, CreateLink, UpdateResource, EditRule, DeleteResource, RemoveLink, Add
<1> QED BY <1>1, <1>3 DEF CommandSteps, AddsFacts

\* Only a request of a listing moves the cursor; any other lookup finds it at 0.
LEMMA OnlyPagesMoveIt ==
  ASSUME CommandSteps, ~FindPage
  PROVE  /\ outcome = "none" /\ cursor' = cursor
         /\ Step.do = "find" => outcome' # "none" \/ LookUp
<1>1. outcome = "none" BY CommandMoves DEF Moves
<1>2. \/ ResolveOrganization \/ TakeIdentifier \/ LookUp \/ PickOrganization
      \/ StoreOrganization \/ Pass \/ Fail \/ ReadRule
      => cursor' = cursor
  BY DEF ResolveOrganization, TakeIdentifier, LookUp, PickOrganization,
         StoreOrganization, Pass, Fail, ReadRule, Looking
<1>3. \A r : Changed(r) => cursor' = cursor BY DEF Changed, Looking
<1>4. CreateResource \/ CreateLink \/ UpdateResource \/ EditRule \/ DeleteResource \/ RemoveLink
      => cursor' = cursor
  BY <1>3 DEF CreateResource, CreateLink, UpdateResource, EditRule, DeleteResource, RemoveLink, Add
<1>5. cursor' = cursor BY <1>2, <1>4 DEF CommandSteps
<1>6. Step.do = "find" => Fail \/ LookUp
  BY DEF CommandSteps, Runs, ResolveOrganization, TakeIdentifier, PickOrganization,
         StoreOrganization, Pass, ReadRule, CreateResource, CreateLink, UpdateResource,
         EditRule, DeleteResource, RemoveLink
<1>7. Fail => outcome' # "none" BY DEF Fail, End
<1> QED BY <1>1, <1>5, <1>6, <1>7

LEMMA CommandKeepsPaging ==
  ASSUME AnswersInv, CommandSteps
  PROVE  Paging'
<1>0. cursor \in Nat BY DEF AnswersInv, Paging
<1>1. CASE ~FindPage
  <2>1. /\ outcome = "none" /\ cursor' = cursor
        /\ Step.do = "find" => outcome' # "none" \/ LookUp
    BY <1>1, OnlyPagesMoveIt
  <2>2. LookUp => Step.how \in FirstPage \union {"organization"} \/ ByServer
    BY DEF LookUp, Bare, FirstPage
  <2>3. cursor # 0 => outcome' # "none" BY <2>1, <2>2 DEF AnswersInv, Paging
  <2> QED BY <1>0, <2>1, <2>3 DEF Paging
<1>2. CASE FindPage /\ cursor' = 0 BY <1>2 DEF Paging
<1>3. CASE FindPage /\ cursor' # 0
  <2>1. /\ More /\ Step.how \notin FirstPage
        /\ cursor' = Max(PageAfter(cursor)) /\ hits' = Matched
        /\ UNCHANGED <<found, at, outcome>>
    BY <1>3 DEF FindPage, ReadPage, More
  <2>2. /\ outcome = "none" /\ Step.do = "find" /\ ~ByServer /\ Step.how # "organization"
        /\ steady' = Since /\ UNCHANGED <<res, command, facts>>
    BY <1>3 DEF FindPage, Runs, ReadsOnly
  <2>3. /\ Step' = Step /\ Reference' = Reference /\ ByServer' = ByServer
        /\ \A k : Place(k)' = Place(k)
    BY <2>1, <2>2, StepStays
  <2>4. Candidates' = Candidates BY <2>2, <2>3 DEF Candidates, Kin, Held
  <2>5. \A i : Matches(i)' <=> Matches(i)
    BY <2>2, <2>3 DEF Matches, Exactly, ByNameOrId, Alike
  <2>6. \A i : Shown(i) => Shown(i)' BY <2>2, <2>3 DEF Shown
  <2> DEFINE page == PageAfter(cursor)
  <2>7. page \in SUBSET Nat /\ page # {} /\ \A i \in page : i <= MaxId
    <3>1. page # {} BY <1>0, <2>1, PageIsAPiece DEF More
    <3>2. page \subseteq Ids BY <1>0, PageIsAPiece, CandidatesAre
    <3> HIDE DEF page
    <3> QED BY <3>1, <3>2, IdsTyped
  <2>8. cursor' \in page /\ cursor' \in Nat
    <3> HIDE DEF page
    <3>1. Max(page) \in page BY <2>7, IdsTyped, MaxIsIn
    <3> QED BY <2>1, <2>7, <3>1 DEF page
  <2>9. ASSUME NEW i \in Since \intersect Candidates, i <= cursor', Matches(i)
        PROVE  i \in Matched
    <3>1. i \in Nat BY CandidatesAre, IdsTyped
    <3>2. i <= cursor \/ cursor < i BY <1>0, <3>1
    <3>3. i <= cursor \/ i \in PageAfter(cursor) BY <1>0, <2>8, <2>9, <3>2, PageIsAPiece
    <3> QED BY <2>2, <2>9, <3>3, MatchedSoFar
  <2>10. \A i \in Matched : Shown(i) BY <2>2, MatchedSoFar
  <2>11. /\ Step'.do = "find" /\ Step'.how \notin FirstPage \union {"organization"} /\ ~ByServer'
    BY <2>1, <2>2, <2>3
  <2>12. \A i \in (steady \intersect Candidates)' : i <= cursor' /\ Matches(i)' => i \in hits'
    BY <2>1, <2>2, <2>4, <2>5, <2>9
  <2>13. \A i \in hits' : Shown(i)' BY <2>1, <2>6, <2>10
  <2> QED BY <2>8, <2>11, <2>12, <2>13 DEF Paging
<1> QED BY <1>1, <1>2, <1>3

-----------------------------------------------------------------------------
\* Others take what they change out of what is steady, but for a part of a rule,
\* and no lookup minds the parts of a rule.
SteadyKept ==
  /\ steady' \subseteq steady /\ AddsFacts
  /\ UNCHANGED <<chosen, command, at, found, cursor, hits, outcome>> /\ others' # others
  /\ \A i \in steady' \intersect Ids :
       /\ res'[i].kind = res[i].kind /\ res'[i].up = res[i].up /\ res'[i].name = res[i].name
       /\ res[i].kind # "rule" => res'[i].items = res[i].items

LEMMA ByOthersMoves ==
  ASSUME NEW r, NEW ids, ByOthers(r, ids)
  PROVE  /\ steady' = steady \ ids /\ AddsFacts /\ UNCHANGED <<chosen, cursor, hits>>
BY DEF ByOthers, AddsFacts

LEMMA OthersKeepSteady ==
  ASSUME GatewayInv, OthersCreate \/ OthersRename \/ OthersDelete \/ OthersWrite
  PROVE  SteadyKept
<1>0. /\ \A i \in Ids : HasParts(res[i]) /\ res[i].items \in Markings
      /\ Held \subseteq Ids /\ Ids \subseteq Nat
  BY PartsSet, IdsTyped DEF GatewayInv, GatewayTypes, ResTyped, Held
<1>1. UNCHANGED <<command, at, found, outcome>> /\ others' # others
  BY OthersDisturbNot DEF Undisturbed
<1>2. CASE OthersCreate
  <2>1. New \in Ids BY <1>2 DEF OthersCreate
  <2>2. PICK i \in Held, n \in Names :
          ByOthers([res EXCEPT ![New] = Resource(res[i].kind, res[i].up, n)], {New})
    BY <1>2 DEF OthersCreate
  <2>3. HasParts(Resource(res[i].kind, res[i].up, n)) BY PlainIsMarking
  <2>4. \A j \in Ids : j # New => res'[j] = res[j] BY <2>1, <2>2, <2>3, OthersWritten
  <2>5. steady' = steady \ {New} /\ AddsFacts /\ UNCHANGED <<chosen, cursor, hits>>
    BY <2>2, ByOthersMoves
  <2> QED BY <1>1, <2>4, <2>5 DEF SteadyKept
<1>3. CASE OthersRename
  <2>1. PICK i \in Held, n \in Names : ByOthers([res EXCEPT ![i].name = n], {i})
    BY <1>3 DEF OthersRename
  <2> DEFINE v == [res[i] EXCEPT !.name = n]
  <2>2. [res EXCEPT ![i].name = n] = [res EXCEPT ![i] = v] OBVIOUS
  <2>3. HasParts(v) BY <1>0, PartsSet
  <2>4. ByOthers([res EXCEPT ![i] = v], {i}) BY <2>1, <2>2
  <2> HIDE DEF v
  <2>5. \A j \in Ids : j # i => res'[j] = res[j] BY <1>0, <2>3, <2>4, OthersWritten
  <2>6. steady' = steady \ {i} /\ AddsFacts /\ UNCHANGED <<chosen, cursor, hits>>
    BY <2>4, ByOthersMoves
  <2> QED BY <1>1, <2>5, <2>6 DEF SteadyKept
<1>4. CASE OthersDelete
  <2>1. PICK i \in Held : ByOthers([res EXCEPT ![i] = Gone], {i}) BY <1>4 DEF OthersDelete
  <2>2. HasParts(Gone) BY PlainIsMarking
  <2>3. \A j \in Ids : j # i => res'[j] = res[j] BY <1>0, <2>1, <2>2, OthersWritten
  <2>4. steady' = steady \ {i} /\ AddsFacts /\ UNCHANGED <<chosen, cursor, hits>>
    BY <2>1, ByOthersMoves
  <2> QED BY <1>1, <2>3, <2>4 DEF SteadyKept
<1>5. CASE OthersWrite
  <2>1. PICK i \in Held, written \in Items :
          /\ res[i].kind = "rule"
          /\ ByOthers([res EXCEPT ![i].items[written] = "theirs"], {})
    BY <1>5 DEF OthersWrite
  <2> DEFINE f == [res[i].items EXCEPT ![written] = "theirs"]
             v == [res[i] EXCEPT !.items = f]
  <2>2. [res EXCEPT ![i].items[written] = "theirs"] = [res EXCEPT ![i] = v] OBVIOUS
  <2>3. f \in Markings BY <1>0, MarkSet
  <2> HIDE DEF f
  <2>4. HasParts(v) BY <1>0, <2>3, PartsSet
  <2>5. v.kind = res[i].kind /\ v.up = res[i].up /\ v.name = res[i].name
    BY <1>0 DEF HasParts
  <2>6. ByOthers([res EXCEPT ![i] = v], {}) BY <2>1, <2>2
  <2> HIDE DEF v
  <2>7. res'[i] = v /\ \A j \in Ids : j # i => res'[j] = res[j]
    BY <1>0, <2>4, <2>6, OthersWritten
  <2>8. steady' = steady /\ AddsFacts /\ UNCHANGED <<chosen, cursor, hits>>
    BY <2>6, ByOthersMoves
  <2> QED BY <1>1, <2>1, <2>5, <2>7, <2>8 DEF SteadyKept
<1> QED BY <1>2, <1>3, <1>4, <1>5

LEMMA OthersKeepPaging ==
  ASSUME AnswersInv, SteadyKept
  PROVE  Paging'
<1>1. UNCHANGED <<command, at, found, cursor, hits, outcome>> BY DEF SteadyKept
<1>2. /\ Step' = Step /\ Reference' = Reference /\ ByServer' = ByServer
      /\ \A k : Place(k)' = Place(k)
  BY <1>1, StepStays
<1>3. cursor' \in Nat BY <1>1 DEF AnswersInv, Paging
<1>4. ASSUME outcome = "none", cursor # 0,
             NEW i \in steady' \intersect Candidates', i <= cursor, Matches(i)'
      PROVE  i \in hits
  <2>1. /\ i \in Ids /\ res'[i].kind # "none" /\ res'[i].kind = Step.kind
        /\ Place(Step.under) = Root \/ res'[i].up = Place(Step.under)
        /\ Step.how = "sandbox" => res'[i].items["state"] # "terminated"
    BY <1>2, <1>4 DEF Candidates, Kin, Held
  <2>2. /\ i \in steady
        /\ res'[i].kind = res[i].kind /\ res'[i].up = res[i].up /\ res'[i].name = res[i].name
        /\ res[i].kind # "rule" => res'[i].items = res[i].items
    BY <1>4, <2>1 DEF SteadyKept
  <2>3. Step.how = "sandbox" => res[i].kind # "rule"
    BY <1>4, <2>1, <2>2, StepIs DEF AnswersInv
  <2>4. i \in Candidates BY <2>1, <2>2, <2>3 DEF Candidates, Kin, Held
  <2>5. Matches(i) BY <1>2, <1>4, <2>2 DEF Matches, Exactly, ByNameOrId, Alike
  <2> QED BY <1>4, <2>2, <2>4, <2>5 DEF AnswersInv, Paging
<1>5. facts \subseteq facts' BY FactsStand DEF SteadyKept, AnswersInv
<1>6. \A i : Shown(i) => Shown(i)' BY <1>2, <1>5 DEF Shown
<1> SUFFICES ASSUME outcome = "none", cursor # 0
             PROVE  /\ Step.do = "find" /\ Step.how \notin FirstPage \union {"organization"} /\ ~ByServer
                    /\ \A i \in steady' \intersect Candidates' : i <= cursor /\ Matches(i)' => i \in hits
                    /\ \A i \in hits : Shown(i)'
  BY <1>1, <1>2, <1>3 DEF Paging
<1> QED BY <1>4, <1>6 DEF AnswersInv, Paging

LEMMA AnswersStart == GatewayInit => AnswersInv
<1> SUFFICES ASSUME GatewayInit PROVE AnswersInv
  OBVIOUS
<1>1. FactsHold BY DEF GatewayInit, FactsHold, FactsOf, Fact
<1>2. Paging BY DEF GatewayInit, Paging
<1> QED BY <1>1, <1>2, GatewayStarts DEF AnswersInv

LEMMA AnswersKeep == AnswersInv /\ [GatewayNext]_gatewayVars => AnswersInv'
<1> SUFFICES ASSUME AnswersInv, [GatewayNext]_gatewayVars PROVE AnswersInv'
  OBVIOUS
<1>1. GatewayInv' BY GatewayKeeps DEF AnswersInv
<1>2. CASE CommandSteps
  <2>1. FactsHold' BY <1>2, CommandAddsFacts, FactsStand DEF AnswersInv
  <2>2. Paging' BY <1>2, CommandKeepsPaging
  <2> QED BY <1>1, <2>1, <2>2 DEF AnswersInv
<1>3. CASE OthersCreate \/ OthersRename \/ OthersDelete \/ OthersWrite
  <2>1. SteadyKept BY <1>3, OthersKeepSteady DEF AnswersInv
  <2>2. FactsHold' BY <2>1, FactsStand DEF AnswersInv, SteadyKept
  <2>3. Paging' BY <2>1, OthersKeepPaging
  <2> QED BY <1>1, <2>2, <2>3 DEF AnswersInv
<1>4. CASE UNCHANGED gatewayVars
  <2>1. UNCHANGED <<res, used, chosen, command, at, found, cursor, hits, outcome, facts, steady>>
    BY <1>4 DEF gatewayVars
  <2>2. FactsHold' BY <2>1, FactsStand DEF AddsFacts, AnswersInv
  <2>3. /\ Step' = Step /\ Reference' = Reference /\ ByServer' = ByServer
        /\ \A k : Place(k)' = Place(k)
    BY <2>1, StepStays
  <2>4. Candidates' = Candidates BY <2>1, <2>3 DEF Candidates, Kin, Held
  <2>5. \A i : Matches(i)' <=> Matches(i)
    BY <2>1, <2>3 DEF Matches, Exactly, ByNameOrId, Alike
  <2>6. \A i : Shown(i) => Shown(i)' BY <2>1, <2>3 DEF Shown
  <2>7. Paging' BY <2>1, <2>3, <2>4, <2>5, <2>6 DEF AnswersInv, Paging
  <2> QED BY <1>1, <2>2, <2>7 DEF AnswersInv
<1> QED BY <1>2, <1>3, <1>4 DEF GatewayNext

-----------------------------------------------------------------------------
\* How a lookup ends.
LEMMA ConcludesAs ==
  ASSUME NEW all, Conclude(all)
  PROVE  /\ outcome' = "absent" => all = {} /\ Step.how # "all"
         /\ outcome' = "several" => Unique /\ Cardinality(all) > 1
BY DEF Conclude, End, Learn, Advance

LEMMA LearnEndsWell == \A i : Learn(i) => outcome' \notin {"absent", "several"}
BY DEF Learn, Advance

\* The steps that answer at all.
LEMMA WhoAnswers ==
  ASSUME CommandSteps, Step.do \in {"find", "org"}
  PROVE  \/ ResolveOrganization /\ Step.do = "org"
         \/ FindPage \/ LookUp
         \/ outcome' = "failed" /\ at' = at
<1>1. CASE Fail BY <1>1 DEF Fail, End
<1>2. CASE ~Fail
  BY <1>2 DEF CommandSteps, Runs, ResolveOrganization, TakeIdentifier, PickOrganization,
     StoreOrganization, Pass, ReadRule, CreateResource, CreateLink, UpdateResource,
     EditRule, DeleteResource, RemoveLink
<1> QED BY <1>1, <1>2

\* More than one thing that fits is shown when a set of them is.
LEMMA FittingCovers ==
  ASSUME FactsHold, NEW set, \A i \in set : i \in Fitting
  PROVE  /\ IsFiniteSet(set) /\ Cardinality(set) \in Nat
         /\ Cardinality(set) > 1 => Cardinality(Fitting) > 1
<1>1. Fitting \subseteq Ids BY DEF Fitting, FactsHold
<1>2. IsFiniteSet(Fitting) /\ IsFiniteSet(set) BY <1>1, IdsFinite
<1>3. /\ Cardinality(Fitting) \in Nat /\ Cardinality(set) \in Nat
      /\ Cardinality(set) <= Cardinality(Fitting)
  BY <1>2, FS_CardinalityType, FS_Subset
<1> QED BY <1>2, <1>3

LEMMA ShownFits ==
  ASSUME NEW i, Shown(i), Reference = Nobody, Step.how \notin {"target", "organization", "handle"}
  PROVE  i \in Fitting
<1>1. PICK f \in facts : f.id = i /\ f.kind = Step.kind /\ Place(Step.under) \in {Root, f.up}
  BY DEF Shown
<1>2. Named(f, Reference, Step.how, {}) BY DEF Named
<1> QED BY <1>1, <1>2 DEF Fitting

LEMMA AlikeFits ==
  ASSUME FactsHold, NEW i \in Held, res[i].kind = Step.kind,
         Place(Step.under) \in {Root, res[i].up},
         Alike(i, Reference), Step.how = "organization"
  PROVE  i \in Fitting
<1> DEFINE f == Fact(res, i)
<1>1. f \in facts BY FactsOfHeld DEF FactsHold
<1>2. f.id = i /\ f.kind = res[i].kind /\ f.up = res[i].up /\ f.name = res[i].name BY DEF Fact
<1> HIDE DEF f
<1>3. Reference \in Names /\ Reference # Nobody BY GatewayAssumption DEF Alike
<1>4. Named(f, Reference, Step.how, {}) BY <1>2, <1>3 DEF Named, Alike
<1> QED BY <1>1, <1>2, <1>4 DEF Fitting

\* Of the organizations none is chosen from: not there, or which one.
LEMMA OrganizationAnswers ==
  ASSUME AnswersInv, ResolveOrganization, Step.do = "org"
  PROVE  /\ outcome' = "absent" => Fits = {}
         /\ outcome' = "several" => Cardinality(Fitting) > 1 /\ Reference \notin Kin("org", Root)
<1> DEFINE all == Kin("org", Root)
<1>1. /\ Step.kind = "org" /\ Place(Step.under) = Root /\ Reference = Nobody
      /\ Step.how \in {"chosen", "prompt"}
  BY StepIs DEF AnswersInv, ResolveOrganization, Runs, Place, Reference
<1>2. CASE Learn(Chosen) BY <1>2, LearnEndsWell
<1>3. CASE Learn(Max(all)) BY <1>3, LearnEndsWell
<1>4. CASE End(IF all = {} THEN "absent" ELSE "several") /\ Cardinality(all) # 1
  <2>1. outcome' = "absent" => all = {} BY <1>4 DEF End
  <2>2. outcome' = "several" => all # {} BY <1>4 DEF End
  <2>3. Candidates \subseteq all BY <1>1 DEF Candidates
  <2>4. all = {} => Fits = {} BY <2>3 DEF Fits
  <2>5. \A i \in all : i \in Held /\ res[i].kind = "org" BY DEF Kin
  <2>6. \A i \in all : i \in Fitting
    BY <1>1, <2>5, HeldIsShown, ShownFits DEF AnswersInv
  <2>7. Reference \notin all BY <1>1, GatewayAssumption DEF Kin, Held
  <2> HIDE DEF all
  <2>8. IsFiniteSet(all) /\ Cardinality(all) \in Nat
    BY <2>6, FittingCovers DEF AnswersInv
  <2>9. all # {} => Cardinality(all) > 1 BY <1>4, <2>8, FS_EmptySet
  <2>10. all # {} => Cardinality(Fitting) > 1
    BY <2>6, <2>9, FittingCovers DEF AnswersInv
  <2> QED BY <2>1, <2>2, <2>4, <2>7, <2>10 DEF all
<1> QED BY <1>2, <1>3, <1>4 DEF ResolveOrganization, LearnOnly

\* Of a lookup in one request.
LEMMA LookUpAnswers ==
  ASSUME AnswersInv, LookUp
  PROVE  /\ outcome' = "absent" => Fits = {}
         /\ outcome' = "several" => Cardinality(Fitting) > 1 /\ Reference \notin Kin("org", Root)
         /\ Step.how # "all"
<1>0. outcome = "none" /\ Step.do = "find" BY DEF LookUp, Runs
<1>1. CASE Bare /\ Learn(Reference) BY <1>1, LearnEndsWell DEF Bare
<1>2. CASE Step.how = "organization" /\ MatchOrganization
  <2> DEFINE all == {i \in Kin("org", Root) : Alike(i, Reference)}
  <2>1. Step.kind = "org" /\ Place(Step.under) = Root
    BY <1>0, <1>2, StepIs DEF AnswersInv, Place
  <2>2. CASE Learn(Reference) BY <1>2, <2>2, LearnEndsWell
  <2>3. CASE Learn(Max(all)) BY <1>2, <2>3, LearnEndsWell
  <2>4. CASE /\ End(IF all = {} THEN "absent" ELSE "several") /\ Cardinality(all) # 1
             /\ Reference \notin Kin("org", Root)
    <3>1. outcome' = "absent" => all = {} BY <2>4 DEF End
    <3>2. outcome' = "several" => all # {} BY <2>4 DEF End
    <3>3. Candidates \subseteq Kin("org", Root) BY <2>1 DEF Candidates
    <3>4. \A i \in Fits : i \in Kin("org", Root) /\ (i = Reference \/ Alike(i, Reference))
      BY <1>0, <1>2, <3>3 DEF Fits, ByServer
    <3>5. all = {} => Fits = {} BY <2>4, <3>4
    <3>6. \A i \in all : i \in Held /\ res[i].kind = "org" /\ Alike(i, Reference) BY DEF Kin
    <3>7. \A i \in all : i \in Fitting
      BY <1>2, <2>1, <3>6, AlikeFits DEF AnswersInv
    <3> HIDE DEF all
    <3>8. IsFiniteSet(all) /\ Cardinality(all) \in Nat
      BY <3>7, FittingCovers DEF AnswersInv
    <3>9. all # {} => Cardinality(all) > 1 BY <2>4, <3>8, FS_EmptySet
    <3>10. all # {} => Cardinality(Fitting) > 1
      BY <3>7, <3>9, FittingCovers DEF AnswersInv
    <3> QED BY <1>2, <2>4, <3>1, <3>2, <3>5, <3>10
  <2> QED BY <1>2, <2>2, <2>3, <2>4 DEF MatchOrganization, LearnOnly
<1>3. CASE ByServer /\ ~(outcome' \in {"absent", "several"})
  BY <1>3 DEF ByServer
<1>4. CASE /\ ByServer /\ End("absent")
           /\ {i \in Kin("sandbox", Place(Step.under)) : Exactly(i, Reference)} = {}
  <2>1. Step.kind = "sandbox" /\ Step.how = "sandbox"
    BY <1>0, <1>4, StepIs DEF AnswersInv, ByServer
  <2>2. \A i \in Fits : i \in Kin("sandbox", Place(Step.under)) /\ Exactly(i, Reference)
    BY <1>0, <1>4, <2>1 DEF Fits, Candidates
  <2> QED BY <1>4, <2>1, <2>2 DEF End
<1>5. ByServer => \/ End("absent") /\ {i \in Kin("sandbox", Place(Step.under)) : Exactly(i, Reference)} = {}
                  \/ ~(outcome' \in {"absent", "several"})
                  \/ Step.how = "organization" \/ Bare
  BY LearnEndsWell DEF LookUp
<1>6. ByServer => Step.how # "organization" /\ ~Bare BY DEF ByServer, Bare
<1> QED BY <1>1, <1>2, <1>3, <1>4, <1>5, <1>6 DEF LookUp

\* Of a listing, at its last page.
LEMMA PageAnswers ==
  ASSUME AnswersInv, FindPage
  PROVE  /\ outcome' = "absent" /\ InReach => Fits \intersect steady' = {}
         /\ outcome' = "several" => Cardinality(Fitting) > 1 /\ Reference \notin Kin("org", Root)
         /\ Step.how = "all" /\ at' # at => Fits \intersect steady' \subseteq hits'
<1>1. /\ outcome = "none" /\ Step.do = "find" /\ ~ByServer /\ Step.how # "organization"
      /\ steady' = Since /\ at \in Nat
  BY DEF FindPage, Runs, AnswersInv, GatewayInv, AtAStep
<1>2. \A i \in Fits : i \in Candidates /\ Matches(i) BY <1>1 DEF Fits
<1>3. CASE UNCHANGED <<found, at, outcome>> BY <1>1, <1>3
<1>4. CASE /\ Conclude(Matched) /\ hits' = Matched
           /\ ~More \/ Step.how \in FirstPage \/ (Step.how \in StopsAtMatch /\ Matched # {})
  <2>1. outcome' = "absent" => Matched = {} BY <1>4, ConcludesAs
  <2>2. outcome' = "several" => Unique /\ Cardinality(Matched) > 1 BY <1>4, ConcludesAs
  <2>3. ASSUME ~More \/ (Step.how \in FirstPage /\ Cardinality(Candidates) <= PageSize)
        PROVE  Fits \intersect steady' \subseteq Matched
    BY <1>1, <1>2, <2>3, MatchedAtTheEnd
  <2>4. ASSUME outcome' = "absent", InReach PROVE Fits \intersect steady' = {}
    BY <1>4, <2>1, <2>3, <2>4 DEF InReach
  <2>5. ASSUME outcome' = "several"
        PROVE  Cardinality(Fitting) > 1 /\ Reference \notin Kin("org", Root)
    <3>1. Reference = Nobody /\ Step.how \notin {"target", "organization", "handle"}
      BY <2>2, <2>5 DEF Unique
    <3>2. \A i \in Matched : i \in Fitting
      BY <1>1, <3>1, MatchedSoFar, ShownFits DEF AnswersInv
    <3>3. Cardinality(Fitting) > 1
      BY <2>2, <2>5, <3>2, FittingCovers DEF AnswersInv
    <3>4. Reference \notin Kin("org", Root) BY <3>1, GatewayAssumption DEF Kin, Held
    <3> QED BY <3>3, <3>4
  <2>6. ASSUME Step.how = "all" PROVE Fits \intersect steady' \subseteq hits'
    BY <1>4, <2>3, <2>6 DEF FirstPage, StopsAtMatch
  <2> QED BY <2>4, <2>5, <2>6
<1> QED BY <1>3, <1>4 DEF FindPage, ReadPage, More

LEMMA AnswersStep ==
  ASSUME AnswersInv, GatewayNext, outcome = "none", Step.do \in {"find", "org"}, others' = others
  PROVE  /\ outcome' = "absent" /\ InReach => Fits \intersect steady' = {}
         /\ outcome' = "several" => Cardinality(Fitting) > 1 /\ Reference \notin Kin("org", Root)
         /\ Step.how = "all" /\ at' # at => Fits \intersect steady' \subseteq hits'
<1>1. CommandSteps BY OthersDisturbNot DEF GatewayNext, Undisturbed, AnswersInv
<1>2. CASE ResolveOrganization /\ Step.do = "org"
  <2>1. Step.how # "all" BY <1>2, StepIs DEF AnswersInv
  <2> QED BY <1>2, <2>1, OrganizationAnswers
<1>3. CASE FindPage BY <1>3, PageAnswers
<1>4. CASE LookUp BY <1>4, LookUpAnswers
<1>5. CASE outcome' = "failed" /\ at' = at BY <1>5
<1> QED BY <1>1, <1>2, <1>3, <1>4, <1>5, WhoAnswers

\* Between two requests of a listing, whatever others do, a lookup has every match
\* it passed that nothing happened to, and every match it has was listed
\* (listEnvironments, listSandboxes and the other loops over page tokens).
THEOREM ListingsMissNothing == GatewaySpec => []AnswersInv
BY AnswersStart, AnswersKeep, PTL DEF GatewaySpec

\* A lookup says that there is none, that there are several, or that this is all of
\* them, only when that was so, for every page size and whatever others change.
THEOREM LookupsAnswerTrue == GatewaySpec => AnswersTrue
<1>1. AnswersInv /\ [GatewayNext]_gatewayVars =>
        [outcome = "none" /\ Step.do \in {"find", "org"} /\ others' = others =>
           /\ outcome' = "absent" /\ InReach => Fits \intersect steady' = {}
           /\ outcome' = "several" =>
                Cardinality(Fitting) > 1 /\ Reference \notin Kin("org", Root)
           /\ Step.how = "all" /\ at' # at => Fits \intersect steady' \subseteq hits']_gatewayVars
  BY AnswersStep
<1> QED BY <1>1, ListingsMissNothing, PTL DEF GatewaySpec, AnswersTrue

-----------------------------------------------------------------------------
\* What the arguments of a command mean.

\* The lookups of a command are numbered one by one.
LEMMA LookupsCount ==
  ASSUME NEW steps
  PROVE  /\ Lookups(steps, 0) = 0
         /\ \A k \in Nat : Lookups(steps, k) \in Nat
         /\ \A k \in Nat : Lookups(steps, k + 1) =
              IF Leaves(steps[k + 1]) THEN Lookups(steps, k) + 1 ELSE Lookups(steps, k)
<1> DEFINE L(k) == {j \in 1..k : Leaves(steps[j])}
<1>1. \A k \in Nat : IsFiniteSet(L(k))
  <2> TAKE k \in Nat
  <2>1. IsFiniteSet(1..k) BY FS_Interval
  <2> QED BY <2>1, FS_Subset
<1>2. ASSUME NEW k \in Nat
      PROVE  L(k + 1) = IF Leaves(steps[k + 1]) THEN L(k) \union {k + 1} ELSE L(k)
  <2>1. 1..(k + 1) = (1..k) \union {k + 1} OBVIOUS
  <2> QED BY <2>1
<1>3. L(0) = {} OBVIOUS
<1>4. \A k \in Nat : k + 1 \notin L(k) OBVIOUS
<1>5. \A k : Lookups(steps, k) = Cardinality(L(k)) BY DEF Lookups
<1> HIDE DEF L
<1>6. \A k \in Nat : Cardinality(L(k)) \in Nat BY <1>1, FS_CardinalityType
<1>7. \A k \in Nat : Cardinality(L(k) \union {k + 1}) = Cardinality(L(k)) + 1
  BY <1>1, <1>4, FS_AddElement
<1>8. Cardinality(L(0)) = 0 BY <1>3, FS_EmptySet
<1>9. \A k \in Nat : Cardinality(L(k + 1)) =
        IF Leaves(steps[k + 1]) THEN Cardinality(L(k)) + 1 ELSE Cardinality(L(k))
  BY <1>2, <1>7
<1> QED BY <1>5, <1>6, <1>8, <1>9

LEMMA LookupsGrow ==
  ASSUME NEW steps, NEW j \in Nat, NEW k \in Nat, j <= k
  PROVE  Lookups(steps, j) <= Lookups(steps, k)
<1> DEFINE L(n) == {i \in 1..n : Leaves(steps[i])}
<1>1. IsFiniteSet(L(k))
  <2>1. IsFiniteSet(1..k) BY FS_Interval
  <2> QED BY <2>1, FS_Subset
<1>2. L(j) \subseteq L(k) OBVIOUS
<1> HIDE DEF L
<1>3. Cardinality(L(j)) <= Cardinality(L(k)) BY <1>1, <1>2, FS_Subset
<1> QED BY <1>3 DEF Lookups, L

\* The lookup that fills a place is the one that has that number.
LEMMA LookupFillsPlace ==
  ASSUME NEW c \in Commands, NEW k \in DOMAIN c.steps, Leaves(c.steps[k])
  PROVE  /\ LookupAt(c.steps, Lookups(c.steps, k)) = c.steps[k]
         /\ Lookups(c.steps, k) = Lookups(c.steps, k - 1) + 1
         /\ Lookups(c.steps, k - 1) \in Nat
         /\ Lookups(c.steps, k) \in 1..Lookups(c.steps, Len(c.steps))
<1> DEFINE L(n) == Lookups(c.steps, n)
<1>0. Len(c.steps) \in Nat /\ DOMAIN c.steps = 1..Len(c.steps) BY CommandsAre
<1>1. \A n \in Nat : L(n) \in Nat BY LookupsCount
<1>2. \A n \in DOMAIN c.steps : Leaves(c.steps[n]) => L(n) = L(n - 1) + 1
  <2> TAKE n \in DOMAIN c.steps
  <2>1. n - 1 \in Nat /\ (n - 1) + 1 = n BY <1>0
  <2> QED BY <2>1, LookupsCount
<1>3. \A m, n \in Nat : m <= n => L(m) <= L(n) BY LookupsGrow
<1> HIDE DEF L
<1>4. \A m, n \in DOMAIN c.steps : Leaves(c.steps[n]) /\ m < n => L(m) < L(n)
  <2> SUFFICES ASSUME NEW m \in DOMAIN c.steps, NEW n \in DOMAIN c.steps,
                      Leaves(c.steps[n]), m < n
               PROVE  L(m) < L(n)
    OBVIOUS
  <2>1. m \in Nat /\ n - 1 \in Nat /\ m <= n - 1 BY <1>0
  <2>2. L(m) <= L(n - 1) /\ L(n) = L(n - 1) + 1 BY <1>2, <1>3, <2>1
  <2>3. L(m) \in Nat /\ L(n - 1) \in Nat BY <1>1, <2>1
  <2> QED BY <2>2, <2>3
<1>5. ASSUME NEW j \in DOMAIN c.steps, Leaves(c.steps[j]), L(j) = L(k) PROVE j = k
  <2>1. j \in Nat /\ k \in Nat BY <1>0
  <2>2. L(j) \in Nat BY <1>1, <2>1
  <2>3. ~(j < k) /\ ~(k < j) BY <1>4, <1>5, <2>2
  <2> QED BY <2>1, <2>3
<1>6. LookupAt(c.steps, L(k)) = c.steps[k]
  <2>1. (CHOOSE j \in DOMAIN c.steps : Leaves(c.steps[j]) /\ L(j) = L(k)) = k BY <1>5
  <2> QED BY <2>1 DEF LookupAt, L
<1>7. k \in Nat /\ k - 1 \in Nat /\ k <= Len(c.steps) BY <1>0
<1>8. L(k - 1) \in Nat /\ L(k) = L(k - 1) + 1 /\ L(k) <= L(Len(c.steps))
  BY <1>0, <1>1, <1>2, <1>3, <1>7
<1>9. L(k) \in 1..L(Len(c.steps))
  <2>1. L(Len(c.steps)) \in Nat BY <1>0, <1>1
  <2> QED BY <1>8, <2>1
<1> QED BY <1>6, <1>8, <1>9 DEF L

\* Every place has a lookup that fills it, which names places before it.
LEMMA PlaceIsFilled ==
  ASSUME NEW c \in Commands, NEW place \in 1..Lookups(c.steps, Len(c.steps))
  PROVE  LET s == LookupAt(c.steps, place)
         IN /\ s.under \in 0..(place - 1)
            /\ s.how = "target" => s.arg \in 0..(place - 1)
<1> DEFINE L(n) == Lookups(c.steps, n)
           past == {n \in Nat : L(n) >= place}
<1>0. /\ Len(c.steps) \in Nat /\ DOMAIN c.steps = 1..Len(c.steps) /\ WellFormed(c.steps)
      /\ \A k \in DOMAIN c.steps : c.steps[k] \in StepRecords
  BY CommandsAre
<1>1. \A n \in Nat : L(n) \in Nat BY LookupsCount
<1>2. L(Len(c.steps)) \in Nat /\ place \in Nat /\ 1 <= place /\ place <= L(Len(c.steps))
  <2> HIDE DEF L
  <2>1. L(Len(c.steps)) \in Nat BY <1>0, <1>1
  <2>2. place \in 1..L(Len(c.steps)) BY DEF L
  <2> QED BY <2>1, <2>2
<1>3. PICK k \in past : \A n \in past : k <= n
  <2>1. Len(c.steps) \in past
    <3> HIDE DEF L
    <3> QED BY <1>0, <1>2
  <2>2. past \in SUBSET Nat /\ past # {} BY <2>1
  <2> HIDE DEF past
  <2> QED BY <2>2, LeastExists
<1>4. L(0) = 0 BY LookupsCount
<1>5. k \in DOMAIN c.steps /\ k - 1 \in Nat
  <2>1. Len(c.steps) \in past
    <3> HIDE DEF L
    <3> QED BY <1>0, <1>2
  <2>2. k <= Len(c.steps) /\ k \in Nat /\ L(k) >= place
    <3> HIDE DEF L
    <3> QED BY <1>3, <2>1
  <2>3. k # 0
    <3> HIDE DEF L, past
    <3> QED BY <1>2, <1>4, <2>2
  <2> QED BY <1>0, <2>2, <2>3
<1>6. ~(L(k - 1) >= place)
  <2>1. k - 1 \notin past
    <3>1. ~(k <= k - 1) BY <1>5, <1>0
    <3> HIDE DEF past
    <3> QED BY <1>3, <3>1
  <2> HIDE DEF L
  <2> QED BY <1>5, <2>1
<1>7. L(k) = IF Leaves(c.steps[k]) THEN L(k - 1) + 1 ELSE L(k - 1)
  <2>1. (k - 1) + 1 = k BY <1>0, <1>5
  <2> QED BY <1>5, <2>1, LookupsCount
<1>8. Leaves(c.steps[k]) /\ L(k) = place /\ L(k - 1) = place - 1
  <2>1. L(k - 1) \in Nat /\ L(k) >= place
    <3> HIDE DEF L
    <3> QED BY <1>1, <1>3, <1>5
  <2> HIDE DEF L, past
  <2> QED BY <1>2, <1>6, <1>7, <2>1
<1>9. LookupAt(c.steps, place) = c.steps[k] BY <1>5, <1>8, LookupFillsPlace
<1>10. /\ c.steps[k].under <= L(k - 1)
       /\ c.steps[k].how = "target" => c.steps[k].arg <= L(k - 1)
  BY <1>0, <1>5 DEF WellFormed
<1>11. c.steps[k].under \in Nat /\ c.steps[k].arg \in Nat BY <1>0, <1>5 DEF StepRecords
<1> HIDE DEF L
<1>12. c.steps[k].under \in 0..(place - 1) BY <1>2, <1>8, <1>10, <1>11
<1>13. c.steps[k].how = "target" => c.steps[k].arg \in 0..(place - 1)
  BY <1>2, <1>8, <1>10, <1>11
<1> QED BY <1>9, <1>12, <1>13

\* What a lookup may find grows with the facts and with what the places before it
\* may hold, and depends on nothing else.
LEMMA MeansGrows ==
  ASSUME NEW s, NEW refs, NEW org, NEW F, NEW G, NEW f, NEW g,
         F \subseteq G, f[s.under] \subseteq g[s.under],
         s.how = "target" => f[s.arg] \subseteq g[s.arg]
  PROVE  Means(s, refs, org, F, f) \subseteq Means(s, refs, org, G, g)
<1> DEFINE ref == IF s.arg = 0 \/ s.how = "target" THEN Nobody ELSE refs[s.arg]
           target(m) == IF s.how = "target" THEN m[s.arg] ELSE {}
           fits(x, m) == /\ x.kind = s.kind
                         /\ Root \in m[s.under] \/ x.up \in m[s.under] \/ x.id = ref
                         /\ Named(x, ref, s.how, target(m))
           of(H, m) == {x.id : x \in {y \in H : fits(y, m)}}
           all(H, m) == CASE s.do = "org" -> Organizations(org, H)
                          [] s.do = "scope" -> {org}
                          [] s.do = "given" \/ (s.how \in {"handle", "nickname"} /\ ref \in Ids) -> {ref}
                          [] OTHER -> of(H, m)
<1>1. \A H, m : Means(s, refs, org, H, m) = all(H, m) BY DEF Means
<1>2. Organizations(org, F) \subseteq Organizations(org, G) BY DEF Organizations
<1>3. \A x : Named(x, ref, s.how, target(f)) => Named(x, ref, s.how, target(g)) BY DEF Named
<1>4. \A x : fits(x, f) => fits(x, g) BY <1>3
<1>5. of(F, f) \subseteq of(G, g)
  <2> HIDE DEF fits
  <2> QED BY <1>4
<1> HIDE DEF of, ref
<1>6. all(F, f) \subseteq all(G, g) BY <1>2, <1>5
<1> HIDE DEF all
<1> QED BY <1>1, <1>6

LEMMA MeansDepends ==
  ASSUME NEW s, NEW refs, NEW org, NEW F, NEW f, NEW g, f[s.under] = g[s.under],
         s.how = "target" => f[s.arg] = g[s.arg]
  PROVE  Means(s, refs, org, F, f) = Means(s, refs, org, F, g)
<1>1. Means(s, refs, org, F, f) \subseteq Means(s, refs, org, F, g) BY MeansGrows
<1>2. Means(s, refs, org, F, g) \subseteq Means(s, refs, org, F, f) BY MeansGrows
<1> QED BY <1>1, <1>2

\* The recursion over the places is sound: its equation has a solution.
LEMMA MeantEquation ==
  ASSUME NEW c \in Commands, NEW org, NEW F
  PROVE  LET last == Lookups(c.steps, Len(c.steps))
             meant == AllMeant(c, org, F)
         IN /\ meant[0] = {Root}
            /\ \A place \in 1..last :
                 meant[place] = Means(LookupAt(c.steps, place), c.refs, org, F, meant)
<1> DEFINE last == Lookups(c.steps, Len(c.steps))
           Body(m, place) == IF place = 0 THEN {Root}
                             ELSE Means(LookupAt(c.steps, place), c.refs, org, F, m)
           solved(n) == \E m : m = [place \in 0..n |-> Body(m, place)]
           unsolved == {n \in 0..last : ~solved(n)}
<1>0. last \in Nat BY LookupsCount, CommandsAre
<1>1. ASSUME NEW n \in 0..last, NEW m, NEW h, \A place \in 0..n : place # n => h[place] = m[place],
             NEW place \in 0..n
      PROVE  Body(h, place) = Body(m, place)
  <2>1. CASE place = 0 BY <2>1
  <2>2. CASE place # 0
    <3> DEFINE s == LookupAt(c.steps, place)
    <3>1. place \in 1..last BY <1>0, <2>2
    <3>2. s.under \in 0..(place - 1) /\ (s.how = "target" => s.arg \in 0..(place - 1))
      BY <3>1, PlaceIsFilled
    <3> HIDE DEF s
    <3>3. \A k \in 0..(place - 1) : k \in 0..n /\ k # n
      <4> HIDE DEF last
      <4> QED BY <1>0
    <3>4. h[s.under] = m[s.under] /\ (s.how = "target" => h[s.arg] = m[s.arg])
      BY <1>1, <3>2, <3>3
    <3>5. Means(s, c.refs, org, F, h) = Means(s, c.refs, org, F, m)
      BY <3>4, MeansDepends
    <3> QED BY <2>2, <3>5 DEF s
  <2> QED BY <2>1, <2>2
<1>2. unsolved = {}
  <2> SUFFICES ASSUME unsolved # {} PROVE FALSE
    OBVIOUS
  <2>1. PICK n \in unsolved : \A x \in unsolved : n <= x
    <3>1. unsolved \in SUBSET Nat BY <1>0
    <3> HIDE DEF unsolved
    <3> QED BY <3>1, LeastExists
  <2>2. n \in 0..last /\ n \in Nat /\ ~solved(n) BY <1>0, <2>1
  <2>3. CASE n = 0
    <3> DEFINE m == [place \in 0..0 |-> {Root}]
    <3>1. \A place \in 0..0 : Body(m, place) = {Root} OBVIOUS
    <3> HIDE DEF Body
    <3>2. m = [place \in 0..0 |-> Body(m, place)] BY <3>1
    <3> HIDE DEF m
    <3> QED BY <2>2, <2>3, <3>2
  <2>4. CASE n # 0
    <3>1. n - 1 \in 0..last /\ ~(n <= n - 1) BY <1>0, <2>2, <2>4
    <3>2. solved(n - 1)
      <4>1. n - 1 \notin unsolved
        <5> HIDE DEF unsolved
        <5> QED BY <2>1, <3>1
      <4> HIDE DEF solved
      <4> QED BY <3>1, <4>1
    <3>3. PICK m : m = [place \in 0..(n - 1) |-> Body(m, place)] BY <3>2
    <3> DEFINE h == [place \in 0..n |-> IF place = n THEN Body(m, n) ELSE m[place]]
    <3>4. \A place \in 0..n : place # n => h[place] = m[place] OBVIOUS
    <3>5. \A place \in 0..n : Body(h, place) = Body(m, place)
      <4> HIDE DEF h, Body
      <4> QED BY <1>1, <2>2, <3>4
    <3>6. \A place \in 0..n : h[place] = Body(h, place)
      <4> TAKE place \in 0..n
      <4>1. CASE place = n BY <3>5, <4>1
      <4>2. CASE place # n
        <5>1. place \in 0..(n - 1) BY <2>2, <4>2
        <5>2. m[place] = Body(m, place)
          <6> HIDE DEF Body
          <6> QED BY <3>3, <5>1
        <5> QED BY <3>4, <3>5, <4>2, <5>2
      <4> QED BY <4>1, <4>2
    <3>7. h = [place \in 0..n |-> h[place]] OBVIOUS
    <3> HIDE DEF h, Body
    <3>8. h = [place \in 0..n |-> Body(h, place)] BY <3>6, <3>7
    <3> QED BY <2>2, <3>8
  <2> QED BY <2>3, <2>4
<1>3. last \notin unsolved /\ last \in 0..last
  <2> HIDE DEF last, unsolved
  <2> QED BY <1>0, <1>2
<1>4. solved(last)
  <2> HIDE DEF solved
  <2> QED BY <1>3
<1> DEFINE meant == AllMeant(c, org, F)
<1>5. meant = CHOOSE m : m = [place \in 0..last |-> Body(m, place)] BY DEF AllMeant
<1>6. meant = [place \in 0..last |-> Body(meant, place)]
  <2> HIDE DEF Body, meant, last
  <2> QED BY <1>4, <1>5
<1>7. \A place \in 0..last : meant[place] = Body(meant, place)
  <2> HIDE DEF Body, meant, last
  <2> QED BY <1>6
<1>8. 0 \in 0..last /\ \A place \in 1..last : place \in 0..last /\ place # 0
  <2> HIDE DEF last
  <2> QED BY <1>0
<1> QED BY <1>7, <1>8

\* It grows with the facts.
LEMMA MeantGrows ==
  ASSUME NEW c \in Commands, NEW org, NEW F, NEW G, F \subseteq G,
         NEW k \in 0..Lookups(c.steps, Len(c.steps))
  PROVE  AllMeant(c, org, F)[k] \subseteq AllMeant(c, org, G)[k]
<1> DEFINE last == Lookups(c.steps, Len(c.steps))
           f == AllMeant(c, org, F)
           g == AllMeant(c, org, G)
           smaller == {n \in 0..last : ~(f[n] \subseteq g[n])}
<1>0. last \in Nat BY LookupsCount, CommandsAre
<1>1. SUFFICES ASSUME smaller # {} PROVE FALSE
  <2>1. k \in 0..last /\ (k \notin smaller => f[k] \subseteq g[k]) OBVIOUS
  <2>2. smaller = {} BY <1>1
  <2> HIDE DEF f, g, last, smaller
  <2>3. f[k] \subseteq g[k] BY <2>1, <2>2
  <2> QED BY <2>3 DEF f, g
<1>2. PICK n \in smaller : \A x \in smaller : n <= x
  <2>1. smaller \in SUBSET Nat BY <1>0
  <2> HIDE DEF smaller
  <2> QED BY <1>1, <2>1, LeastExists
<1>3. f[0] = {Root} /\ g[0] = {Root} BY MeantEquation
<1>4. n \in 0..last /\ ~(f[n] \subseteq g[n])
  <2> HIDE DEF f, g
  <2> QED BY <1>2
<1>5. n # 0 /\ n \in 1..last
  <2> HIDE DEF f, g, last
  <2> QED BY <1>0, <1>3, <1>4
<1> DEFINE s == LookupAt(c.steps, n)
<1>6. f[n] = Means(s, c.refs, org, F, f) /\ g[n] = Means(s, c.refs, org, G, g)
  BY <1>5, MeantEquation
<1>7. s.under \in 0..(n - 1) /\ (s.how = "target" => s.arg \in 0..(n - 1))
  BY <1>5, PlaceIsFilled
<1> HIDE DEF f, g, s
<1>8. \A x \in 0..(n - 1) : f[x] \subseteq g[x]
  <2> TAKE x \in 0..(n - 1)
  <2>1. x \in 0..last /\ ~(n <= x)
    <3> HIDE DEF last
    <3> QED BY <1>0, <1>4
  <2>2. x \notin smaller
    <3> HIDE DEF smaller
    <3> QED BY <1>2, <2>1
  <2> QED BY <2>1, <2>2
<1>9. Means(s, c.refs, org, F, f) \subseteq Means(s, c.refs, org, G, g)
  BY <1>7, <1>8, MeansGrows
<1> QED BY <1>4, <1>6, <1>9

-----------------------------------------------------------------------------
\* What a command has found is what its arguments mean.
LastPlace == Lookups(command.steps, Len(command.steps))
\* All that may be found: an identifier, an argument, an organization, or nothing.
Values ==
  Ids \union {Root, Nobody, command.org, chosen} \union {command.refs[a] : a \in Nat}
PlacesAreMeant ==
  outcome = "none" =>
    /\ found \in Seq(Values) /\ Len(found) = Lookups(command.steps, at - 1)
    /\ \A k \in 1..Len(found) : found[k] \in Meant[k]
    /\ cursor # 0 /\ Leaves(Step) => hits \subseteq Meant[Len(found) + 1]
MeantInv == AnswersInv /\ PlacesAreMeant

\* What a step of a well-formed command may name.
LEMMA StepNames ==
  ASSUME MeantInv, outcome = "none"
  PROVE  /\ Len(found) \in Nat /\ Step.arg \in Nat /\ Step.under \in 0..Len(found)
         /\ Step.do \in {"link", "put", "unlink"} \/ Step.how = "target" =>
              Step.arg \in 0..Len(found)
         /\ Step.do \in {"update", "edit", "delete", "store"} =>
              Len(found) > 0 /\ Len(found) = LastPlace
         /\ Step.do = "store" => at = Len(command.steps)
         /\ Step.do \in {"org", "pick"} \/ Step.how = "organization" =>
              Step.kind = "org" /\ Step.under = 0
         /\ Step.do \in {"org", "scope", "pick"} =>
              Step.arg = 0 /\ Step.how \in {"chosen", "prompt"}
         /\ Step.do = "given" => Step.how = "id"
         /\ Step.do = "find" => Step.how \in Hows
<1>1. command \in Commands /\ at \in DOMAIN command.steps /\ Step = command.steps[at]
  BY DEF MeantInv, AnswersInv, GatewayInv, GatewayTypes, AtAStep, Step
<1>2. Len(found) = Lookups(command.steps, at - 1) BY DEF MeantInv, PlacesAreMeant
<1>3. Len(found) \in Nat
  <2>1. found \in Seq(Values) BY DEF MeantInv, PlacesAreMeant
  <2> QED BY <2>1, LenProperties
<1>4. WellFormed(command.steps) /\ Step.under \in Nat /\ Step.arg \in Nat
  BY <1>1, CommandsAre DEF StepRecords
<1>5. Step.under <= Len(found) BY <1>1, <1>2, <1>4 DEF WellFormed
<1>6. Step.do \in {"link", "put", "unlink"} \/ Step.how = "target" => Step.arg <= Len(found)
  BY <1>1, <1>2, <1>4 DEF WellFormed
<1>7. Step.do \in {"update", "edit", "delete", "store"} => Len(found) > 0 /\ Len(found) = LastPlace
  BY <1>1, <1>2, <1>4 DEF WellFormed, LastPlace
<1>8. /\ Step.do = "store" => at = Len(command.steps)
      /\ Step.do \in {"org", "pick"} \/ Step.how = "organization" =>
           Step.kind = "org" /\ Step.under = 0
      /\ Step.do \in {"org", "scope", "pick"} =>
           Step.arg = 0 /\ Step.how \in {"chosen", "prompt"}
      /\ Step.do = "given" => Step.how = "id"
      /\ Step.do = "find" => Step.how \in Hows
  BY <1>1, <1>4 DEF WellFormed
<1> QED BY <1>3, <1>4, <1>5, <1>6, <1>7, <1>8

LEMMA MeantOf ==
  ASSUME MeantInv, outcome = "none"
  PROVE  /\ Meant[0] = {Root} /\ Len(found) \in 0..LastPlace
         /\ Leaves(Step) =>
              /\ Lookups(command.steps, at) = Len(found) + 1 /\ Len(found) + 1 \in 1..LastPlace
              /\ Meant[Len(found) + 1] = Means(Step, command.refs, Chosen, facts, Meant)
         /\ ~Leaves(Step) => Lookups(command.steps, at) = Len(found)
<1>1. /\ command \in Commands /\ at \in DOMAIN command.steps /\ Step = command.steps[at]
      /\ at \in Nat
  BY DEF MeantInv, AnswersInv, GatewayInv, GatewayTypes, AtAStep, Step
<1>2. Len(found) = Lookups(command.steps, at - 1) BY DEF MeantInv, PlacesAreMeant
<1>3. Len(command.steps) \in Nat /\ DOMAIN command.steps = 1..Len(command.steps)
  BY <1>1, CommandsAre
<1>4. at - 1 \in Nat /\ (at - 1) + 1 = at /\ at - 1 <= Len(command.steps) BY <1>1, <1>3
<1>5. /\ Meant[0] = {Root}
      /\ \A k \in 1..LastPlace :
           Meant[k] = Means(LookupAt(command.steps, k), command.refs, Chosen, facts, Meant)
  BY <1>1, MeantEquation DEF Meant, LastPlace
<1>6. Len(found) \in 0..LastPlace
  <2>1. Lookups(command.steps, at - 1) <= LastPlace BY <1>3, <1>4, LookupsGrow DEF LastPlace
  <2>2. Lookups(command.steps, at - 1) \in Nat /\ LastPlace \in Nat
    BY <1>3, <1>4, LookupsCount DEF LastPlace
  <2> QED BY <1>2, <2>1, <2>2
<1>7. Leaves(Step) =>
        /\ Lookups(command.steps, at) = Len(found) + 1 /\ Len(found) + 1 \in 1..LastPlace
        /\ LookupAt(command.steps, Len(found) + 1) = Step
  <2> SUFFICES ASSUME Leaves(Step)
               PROVE  /\ Lookups(command.steps, at) = Len(found) + 1
                      /\ Len(found) + 1 \in 1..LastPlace
                      /\ LookupAt(command.steps, Len(found) + 1) = Step
    OBVIOUS
  <2>1. /\ LookupAt(command.steps, Lookups(command.steps, at)) = command.steps[at]
        /\ Lookups(command.steps, at) = Lookups(command.steps, at - 1) + 1
        /\ Lookups(command.steps, at) \in 1..Lookups(command.steps, Len(command.steps))
    BY <1>1, LookupFillsPlace
  <2> QED BY <1>1, <1>2, <2>1 DEF LastPlace
<1>8. ~Leaves(Step) => Lookups(command.steps, at) = Len(found)
  BY <1>1, <1>2, <1>4, LookupsCount
<1> QED BY <1>5, <1>6, <1>7, <1>8

LEMMA PlaceIsMeant ==
  ASSUME MeantInv, outcome = "none", NEW k \in 0..Len(found)
  PROVE  Place(k) \in Meant[k]
<1>0. Len(found) \in Nat BY StepNames
<1>1. CASE k = 0 BY <1>1, MeantOf DEF Place
<1>2. CASE k # 0
  <2>1. k \in 1..Len(found) BY <1>0, <1>2
  <2> QED BY <1>2, <2>1 DEF Place, MeantInv, PlacesAreMeant
<1> QED BY <1>1, <1>2

\* The argument and the target of a lookup.
Ref == IF Step.arg = 0 \/ Step.how = "target" THEN Nobody ELSE command.refs[Step.arg]
Target == IF Step.how = "target" THEN Meant[Step.arg] ELSE {}

LEMMA HeldIsMeant ==
  ASSUME MeantInv, outcome = "none", Step.do \in {"find", "pick"}, Step.how # "all",
         ~(Step.how \in {"handle", "nickname"} /\ Ref \in Ids),
         NEW i \in Held, res[i].kind = Step.kind, Place(Step.under) \in {Root, res[i].up},
         Named(Fact(res, i), Ref, Step.how, Target)
  PROVE  i \in Meant[Len(found) + 1]
<1>1. Leaves(Step) BY DEF Leaves
<1>2. Place(Step.under) \in Meant[Step.under] BY StepNames, PlaceIsMeant
<1> DEFINE f == Fact(res, i)
<1>3. f \in facts BY FactsOfHeld DEF MeantInv, AnswersInv, FactsHold
<1>4. f.id = i /\ f.kind = Step.kind /\ f.up = res[i].up BY DEF Fact
<1> HIDE DEF f
<1>5. Root \in Meant[Step.under] \/ f.up \in Meant[Step.under] BY <1>2, <1>4
<1>6. Named(f, Ref, Step.how, Target) BY DEF f
<1>7. Means(Step, command.refs, Chosen, facts, Meant)
        = {x.id : x \in {g \in facts :
             /\ g.kind = Step.kind
             /\ Root \in Meant[Step.under] \/ g.up \in Meant[Step.under] \/ g.id = Ref
             /\ Named(g, Ref, Step.how, Target)}}
  BY DEF Means, Ref, Target
<1>8. i \in Means(Step, command.refs, Chosen, facts, Meant) BY <1>3, <1>4, <1>5, <1>6, <1>7
<1> QED BY <1>1, <1>8, MeantOf

LEMMA MatchIsMeant ==
  ASSUME MeantInv, outcome = "none", Step.do = "find", Step.how \notin {"all", "organization"},
         ~Bare, ~ByServer, NEW i \in Candidates, Matches(i)
  PROVE  i \in Meant[Len(found) + 1]
<1>1. i \in Held /\ res[i].kind = Step.kind /\ Place(Step.under) \in {Root, res[i].up}
  BY CandidatesAre
<1>2. Step.how \in Hows BY StepNames
<1>3. Step.how # "target" => Ref = Reference BY DEF Ref, Reference
<1>4. Fact(res, i).id = i /\ Fact(res, i).name = res[i].name BY DEF Fact
<1>5. ~(Step.how \in {"handle", "nickname"} /\ Ref \in Ids) BY <1>3 DEF Bare
<1>6. Named(Fact(res, i), Ref, Step.how, Target)
  <2>1. CASE Step.how = "target"
    <3>1. Place(Step.arg) \in Meant[Step.arg] BY <2>1, StepNames, PlaceIsMeant
    <3> QED BY <1>4, <2>1, <3>1 DEF Matches, Named, Target
  <2>2. CASE Step.how = "handle" BY <1>3, <1>4, <2>2 DEF Matches, Named, Alike
  <2>3. CASE Step.how \in {"name", "content", "nickname"}
    BY <1>3, <1>4, <2>3 DEF Matches, Named, Exactly
  <2>4. CASE Step.how = "nameOrId" BY <1>3, <1>4, <2>4 DEF Matches, Named, ByNameOrId
  <2>5. CASE Step.how = "nameOrSole" BY <1>3, <1>4, <2>5 DEF Matches, Named, Exactly
  <2>6. CASE Step.how = "sandbox" BY <1>3, <1>4, <2>6 DEF ByServer, Named
  <2> QED BY <1>2, <2>1, <2>2, <2>3, <2>4, <2>5, <2>6 DEF Hows
<1> QED BY <1>1, <1>5, <1>6, HeldIsMeant

LEMMA MatchedIsMeant ==
  ASSUME MeantInv, FindPage, Step.how # "all"
  PROVE  Matched \subseteq Meant[Len(found) + 1]
<1> SUFFICES ASSUME NEW i \in Matched PROVE i \in Meant[Len(found) + 1]
  OBVIOUS
<1>1. /\ outcome = "none" /\ Step.do = "find" /\ ~Bare /\ ~ByServer /\ Step.how # "organization"
  BY DEF FindPage, Runs
<1>2. CASE cursor # 0 /\ i \in hits
  BY <1>1, <1>2 DEF MeantInv, PlacesAreMeant, Leaves
<1>3. CASE i \in PageAfter(cursor) /\ Matches(i)
  <2>1. i \in Candidates BY <1>3 DEF PageAfter
  <2> QED BY <1>1, <1>3, <2>1, MatchIsMeant
<1> QED BY <1>2, <1>3 DEF Matched

-----------------------------------------------------------------------------
\* What a command learns is what its lookup may find.
Learns == Leaves(Step) /\ \E i \in Meant[Len(found) + 1] \intersect Values : Learn(i)
GoesOn ==
  \/ Ends
  \/ Stays /\ found' = found
  \/ Advance /\ found' = found /\ ~Leaves(Step)
  \/ Learns

LEMMA ReferenceIsValue ==
  ASSUME MeantInv, outcome = "none"
  PROVE  Reference \in Values /\ Chosen \in Values /\ Ids \subseteq Values
<1>1. Step.arg \in Nat BY StepNames
<1> QED BY <1>1 DEF Values, Reference, Chosen

LEMMA OnlyOneLearned ==
  ASSUME NEW set \in SUBSET Ids, Cardinality(set) = 1
  PROVE  Max(set) \in set
<1>1. set # {} BY FS_EmptySet
<1>2. set \in SUBSET Nat /\ MaxId \in Nat /\ \A x \in set : x <= MaxId BY IdsTyped
<1> QED BY <1>1, <1>2, MaxIsIn

LEMMA OrganizationsLearned ==
  ASSUME MeantInv, ResolveOrganization
  PROVE  Ends \/ Learns
<1>1. outcome = "none" /\ Step.do \in {"org", "scope"} BY DEF ResolveOrganization, Runs
<1>2. Step.arg = 0 /\ Step.how \in {"chosen", "prompt"} BY <1>1, StepNames
<1>3. Leaves(Step) BY <1>1, <1>2 DEF Leaves
<1>4. Meant[Len(found) + 1] =
        IF Step.do = "org" THEN Organizations(Chosen, facts) ELSE {Chosen}
  <2>1. Meant[Len(found) + 1] = Means(Step, command.refs, Chosen, facts, Meant)
    BY <1>1, <1>3, MeantOf
  <2> QED BY <1>1, <1>2, <2>1 DEF Means
<1>5. CASE Learn(Chosen) /\ (Chosen # Root \/ Step.do = "scope")
  <2>1. Chosen \in Meant[Len(found) + 1] BY <1>1, <1>4, <1>5 DEF Organizations
  <2> QED BY <1>1, <1>3, <1>5, <2>1, ReferenceIsValue DEF Learns
<1>6. CASE LearnOnly(Kin("org", Root)) /\ Chosen = Root /\ Step.do = "org"
  <2> DEFINE all == Kin("org", Root)
  <2>1. all \in SUBSET Ids /\ \A i \in all : i \in Held /\ res[i].kind = "org" BY DEF Kin, Held
  <2>2. all \subseteq Meant[Len(found) + 1]
    <3> SUFFICES ASSUME NEW i \in all PROVE i \in Meant[Len(found) + 1]
      OBVIOUS
    <3>1. Fact(res, i) \in facts
      BY <2>1, FactsOfHeld DEF MeantInv, AnswersInv, FactsHold
    <3>2. Fact(res, i).id = i /\ Fact(res, i).kind = "org" BY <2>1 DEF Fact
    <3> QED BY <1>4, <1>6, <3>1, <3>2 DEF Organizations
  <2> HIDE DEF all
  <2>3. CASE Cardinality(all) = 1 /\ Learn(Max(all))
    BY <1>1, <1>3, <2>1, <2>2, <2>3, OnlyOneLearned, ReferenceIsValue DEF Learns
  <2>4. CASE End(IF all = {} THEN "absent" ELSE "several") BY <2>4, EndsAre
  <2> QED BY <1>6, <2>3, <2>4 DEF LearnOnly, all
<1> QED BY <1>1, <1>5, <1>6 DEF ResolveOrganization

LEMMA IdentifierLearned ==
  ASSUME MeantInv, TakeIdentifier
  PROVE  Learns
<1>1. outcome = "none" /\ Step.do = "given" BY DEF TakeIdentifier, Runs
<1>2. Step.how = "id" BY <1>1, StepNames
<1>3. Leaves(Step) BY <1>1, <1>2 DEF Leaves
<1>4. Meant[Len(found) + 1] = Means(Step, command.refs, Chosen, facts, Meant)
  BY <1>1, <1>3, MeantOf
<1>5. Reference \in Meant[Len(found) + 1] BY <1>1, <1>2, <1>4 DEF Means, Reference
<1> QED BY <1>1, <1>3, <1>5, ReferenceIsValue DEF Learns, TakeIdentifier

LEMMA PageLearned ==
  ASSUME MeantInv, FindPage
  PROVE  GoesOn
<1>1. outcome = "none" /\ Step.do = "find" BY DEF FindPage, Runs
<1>2. CASE UNCHANGED <<found, at, outcome>> BY <1>1, <1>2 DEF GoesOn, Stays
<1>3. CASE Conclude(Matched)
  <2>1. CASE Step.how = "all" BY <1>3, <2>1 DEF Conclude, GoesOn, Leaves
  <2>2. CASE Step.how # "all" /\ Learn(Min(Matched)) /\ Matched # {}
    <3>1. Leaves(Step) BY <1>1, <2>2 DEF Leaves
    <3>2. Matched \subseteq Meant[Len(found) + 1] BY <2>2, MatchedIsMeant
    <3>3. Matched \in SUBSET Ids
      <4>1. \A i \in Matched : Shown(i) BY <1>1, MatchedSoFar DEF MeantInv
      <4> QED BY <4>1 DEF Shown, MeantInv, AnswersInv, FactsHold
    <3>4. Min(Matched) \in Matched BY <2>2, <3>3, IdsTyped, MinIsThere
    <3> QED BY <1>1, <2>2, <3>1, <3>2, <3>3, <3>4, ReferenceIsValue DEF GoesOn, Learns
  <2>3. CASE End("absent") \/ End("several") BY <2>3, EndsAre DEF GoesOn
  <2> QED BY <1>3, <2>1, <2>2, <2>3 DEF Conclude
<1> QED BY <1>2, <1>3 DEF FindPage, ReadPage

LEMMA LookUpLearned ==
  ASSUME MeantInv, LookUp
  PROVE  Ends \/ Learns
<1>1. outcome = "none" /\ Step.do = "find" BY DEF LookUp, Runs
<1>2. CASE Bare /\ Learn(Reference)
  <2>1. Step.how \in {"handle", "nickname"} /\ Reference \in Ids BY <1>2 DEF Bare
  <2>2. Leaves(Step) BY <1>1, <2>1 DEF Leaves
  <2>3. Meant[Len(found) + 1] = Means(Step, command.refs, Chosen, facts, Meant)
    BY <1>1, <2>2, MeantOf
  <2>4. Reference \in Meant[Len(found) + 1] BY <1>1, <2>1, <2>3 DEF Means, Reference
  <2> QED BY <1>1, <1>2, <2>2, <2>4, ReferenceIsValue DEF Learns
<1>3. CASE Step.how = "organization" /\ MatchOrganization
  <2>1. Step.kind = "org" /\ Place(Step.under) = Root BY <1>1, <1>3, StepNames DEF Place
  <2>2. Leaves(Step) BY <1>1, <1>3 DEF Leaves
  <2>3. Ref = Reference BY <1>3 DEF Ref, Reference
  <2>4. ASSUME NEW i \in Kin("org", Root), i = Reference \/ Alike(i, Reference)
        PROVE  i \in Meant[Len(found) + 1] /\ i \in Ids
    <3>1. i \in Held /\ res[i].kind = Step.kind /\ i \in Ids BY <2>1, <2>4 DEF Kin, Held
    <3>2. Fact(res, i).id = i /\ Fact(res, i).name = res[i].name BY DEF Fact
    <3>3. Named(Fact(res, i), Ref, Step.how, Target)
      BY <1>3, <2>3, <2>4, <3>2 DEF Named, Alike
    <3> QED BY <1>1, <1>3, <2>1, <3>1, <3>3, HeldIsMeant
  <2>5. CASE Reference \in Kin("org", Root) /\ Learn(Reference)
    BY <1>1, <2>2, <2>4, <2>5, ReferenceIsValue DEF Learns
  <2>6. CASE LearnOnly({i \in Kin("org", Root) : Alike(i, Reference)})
    <3> DEFINE all == {i \in Kin("org", Root) : Alike(i, Reference)}
    <3>1. all \in SUBSET Ids /\ all \subseteq Meant[Len(found) + 1] BY <2>4
    <3> HIDE DEF all
    <3>2. CASE Cardinality(all) = 1 /\ Learn(Max(all))
      BY <1>1, <2>2, <3>1, <3>2, OnlyOneLearned, ReferenceIsValue DEF Learns
    <3>3. CASE End(IF all = {} THEN "absent" ELSE "several") BY <3>3, EndsAre
    <3> QED BY <2>6, <3>2, <3>3 DEF LearnOnly, all
  <2> QED BY <1>3, <2>5, <2>6 DEF MatchOrganization
<1>4. CASE /\ ByServer
           /\ LET all == {i \in Kin("sandbox", Place(Step.under)) : Exactly(i, Reference)}
              IN IF all = {} THEN End("absent") /\ UNCHANGED found ELSE Learn(Min(all))
  <2> DEFINE all == {i \in Kin("sandbox", Place(Step.under)) : Exactly(i, Reference)}
  <2>1. Step.how = "sandbox" /\ Step.kind = "sandbox"
    BY <1>1, <1>4, StepIs DEF ByServer, MeantInv, AnswersInv
  <2>2. Leaves(Step) BY <1>1, <2>1 DEF Leaves
  <2>3. Ref = Reference BY <2>1 DEF Ref, Reference
  <2>4. all \in SUBSET Ids BY DEF Kin, Held
  <2>5. ASSUME NEW i \in all PROVE i \in Meant[Len(found) + 1]
    <3>1. /\ i \in Held /\ res[i].kind = Step.kind /\ Place(Step.under) \in {Root, res[i].up}
          /\ res[i].name = Reference
      BY <2>1, <2>5 DEF Kin, Held, Exactly
    <3>2. Fact(res, i).name = Ref BY <2>3, <3>1 DEF Fact
    <3>3. Named(Fact(res, i), Ref, Step.how, Target) BY <2>1, <3>2 DEF Named
    <3> QED BY <1>1, <2>1, <3>1, <3>3, HeldIsMeant
  <2>6. CASE End("absent") BY <2>6, EndsAre
  <2>7. CASE all # {} /\ Learn(Min(all))
    <3> HIDE DEF all
    <3>1. Min(all) \in all BY <2>4, <2>7, IdsTyped, MinIsThere
    <3> QED BY <1>1, <2>2, <2>4, <2>5, <2>7, <3>1, ReferenceIsValue DEF Learns
  <2> QED BY <1>4, <2>6, <2>7
<1> QED BY <1>2, <1>3, <1>4 DEF LookUp

LEMMA PickLearned ==
  ASSUME MeantInv, PickOrganization
  PROVE  Ends \/ Learns
<1>1. outcome = "none" /\ Step.do = "pick" BY DEF PickOrganization, Runs
<1>2. /\ Step.kind = "org" /\ Place(Step.under) = Root /\ Step.arg = 0
      /\ Step.how \in {"chosen", "prompt"}
  BY <1>1, StepNames DEF Place
<1>3. Leaves(Step) BY <1>1, <1>2 DEF Leaves
<1>4. Ref = Nobody BY <1>2 DEF Ref
<1>5. ASSUME NEW i \in Kin("org", Root), Learn(i) PROVE Learns
  <2>1. i \in Held /\ i \in Ids /\ res[i].kind = Step.kind BY <1>2, <1>5 DEF Kin, Held
  <2>2. Named(Fact(res, i), Ref, Step.how, Target) BY <1>2, <1>4 DEF Named
  <2>3. i \in Meant[Len(found) + 1] BY <1>1, <1>2, <2>1, <2>2, HeldIsMeant
  <2> QED BY <1>1, <1>3, <1>5, <2>1, <2>3, ReferenceIsValue DEF Learns
<1> QED BY <1>5, EndsAre DEF PickOrganization

LEMMA CommandLearns ==
  ASSUME MeantInv, CommandSteps
  PROVE  GoesOn
<1>1. CASE ResolveOrganization BY <1>1, OrganizationsLearned DEF GoesOn
<1>2. CASE TakeIdentifier BY <1>2, IdentifierLearned DEF GoesOn
<1>3. CASE FindPage BY <1>3, PageLearned
<1>4. CASE LookUp BY <1>4, LookUpLearned DEF GoesOn
<1>5. CASE PickOrganization BY <1>5, PickLearned DEF GoesOn
<1>6. CASE Fail BY <1>6, EndsAre DEF Fail, GoesOn
<1>7. CASE StoreOrganization \/ Pass \/ ReadRule
  <2>1. Step.do \in {"store", "check", "read", "glance", "readrule"}
    BY <1>7 DEF StoreOrganization, Pass, ReadRule, Runs
  <2>2. Advance /\ found' = found BY <1>7 DEF StoreOrganization, Pass, ReadRule
  <2> QED BY <2>1, <2>2 DEF GoesOn, Leaves
<1>8. CASE CreateResource \/ CreateLink \/ UpdateResource \/ EditRule \/ DeleteResource \/ RemoveLink
  <2>1. Step.do \in {"create", "link", "put", "update", "edit", "delete", "unlink", "drop"}
    BY <1>8 DEF CreateResource, CreateLink, UpdateResource, EditRule, DeleteResource,
                RemoveLink, Runs
  <2>2. \A r : Changed(r) => (Advance \/ Ends) /\ found' = found BY EndsAre DEF Changed
  <2>3. (Advance \/ Ends) /\ found' = found
    BY <1>8, <2>2 DEF CreateResource, CreateLink, UpdateResource, EditRule, DeleteResource,
                      RemoveLink, Add
  <2> QED BY <2>1, <2>3 DEF GoesOn, Leaves
<1> QED BY <1>1, <1>2, <1>3, <1>4, <1>5, <1>6, <1>7, <1>8 DEF CommandSteps

\* A command that goes on acts in the organization it began with.
LEMMA ChosenKept ==
  ASSUME MeantInv, CommandSteps, outcome' = "none"
  PROVE  chosen' = chosen /\ command' = command
<1>1. command' = command BY CommandMoves DEF Moves
<1>2. CASE StoreOrganization
  <2>1. outcome = "none" /\ Step.do = "store" BY <1>2 DEF StoreOrganization, Runs
  <2>2. at = Len(command.steps) BY <2>1, StepNames
  <2> QED BY <1>2, <2>2 DEF StoreOrganization, Advance
<1>3. CASE ~StoreOrganization
  <2>1. \A r : Changed(r) => chosen' = chosen BY DEF Changed
  <2>2. CreateResource \/ CreateLink \/ UpdateResource \/ EditRule \/ DeleteResource \/ RemoveLink
        => chosen' = chosen
    BY <2>1 DEF CreateResource, CreateLink, UpdateResource, EditRule, DeleteResource,
                RemoveLink, Add
  <2>3. \/ ResolveOrganization \/ TakeIdentifier \/ FindPage \/ LookUp \/ PickOrganization
        \/ Pass \/ Fail \/ ReadRule
        => chosen' = chosen
    BY DEF ResolveOrganization, TakeIdentifier, FindPage, LookUp, PickOrganization,
           Pass, Fail, ReadRule, ReadsOnly
  <2> QED BY <1>1, <1>3, <2>2, <2>3 DEF CommandSteps
<1> QED BY <1>1, <1>2, <1>3

\* What is meant only grows while facts are added.
LEMMA MeantStands ==
  ASSUME MeantInv, UNCHANGED <<command, chosen>>, facts \subseteq facts'
  PROVE  /\ \A k \in 0..LastPlace : Meant[k] \subseteq Meant'[k]
         /\ Values' = Values /\ Chosen' = Chosen
<1>1. command \in Commands BY DEF MeantInv, AnswersInv, GatewayInv, GatewayTypes
<1>2. Chosen' = Chosen /\ Values' = Values BY DEF Chosen, Values
<1>3. Meant = AllMeant(command, Chosen, facts) BY DEF Meant
<1>4. Meant' = AllMeant(command, Chosen, facts') BY <1>2 DEF Meant
<1>5. \A k \in 0..LastPlace :
        AllMeant(command, Chosen, facts)[k] \subseteq AllMeant(command, Chosen, facts')[k]
  BY <1>1, MeantGrows DEF LastPlace
<1> QED BY <1>2, <1>3, <1>4, <1>5

LEMMA CommandKeepsMeant ==
  ASSUME MeantInv, CommandSteps
  PROVE  PlacesAreMeant'
<1> SUFFICES ASSUME outcome' = "none" PROVE PlacesAreMeant'
  BY DEF PlacesAreMeant
<1>1. outcome = "none" /\ UNCHANGED <<command, chosen>>
  BY CommandMoves, ChosenKept DEF Moves
<1>2. facts \subseteq facts'
  BY CommandAddsFacts, FactsStand DEF MeantInv, AnswersInv
<1>3. /\ \A k \in 0..LastPlace : Meant[k] \subseteq Meant'[k]
      /\ Values' = Values /\ Chosen' = Chosen
  BY <1>1, <1>2, MeantStands
<1>4. /\ found \in Seq(Values) /\ Len(found) \in Nat /\ Len(found) = Lookups(command.steps, at - 1)
      /\ \A k \in 1..Len(found) : found[k] \in Meant[k]
  BY <1>1, StepNames DEF MeantInv, PlacesAreMeant
<1>5. LastPlace \in Nat /\ Len(found) <= LastPlace
  <2>1. Len(command.steps) \in Nat
    BY CommandsAre DEF MeantInv, AnswersInv, GatewayInv, GatewayTypes
  <2>2. LastPlace \in Nat BY <2>1, LookupsCount DEF LastPlace
  <2> QED BY <1>1, <1>4, <2>2, MeantOf
<1>6. at \in Nat BY DEF MeantInv, AnswersInv, GatewayInv, AtAStep
<1>7. \A k \in 1..Len(found) : found[k] \in Meant'[k]
  <2> TAKE k \in 1..Len(found)
  <2>1. k \in 0..LastPlace BY <1>4, <1>5
  <2> QED BY <1>3, <1>4, <2>1
<1>8. cursor' # 0 /\ Leaves(Step)' => hits' \subseteq Meant'[Len(found') + 1]
  <2> SUFFICES ASSUME cursor' # 0, Leaves(Step)' PROVE hits' \subseteq Meant'[Len(found') + 1]
    OBVIOUS
  <2>1. FindPage
    <3> SUFFICES ASSUME ~FindPage PROVE FALSE
      OBVIOUS
    <3>1. cursor' = cursor /\ (Step.do = "find" => LookUp) BY OnlyPagesMoveIt
    <3>2. LookUp => Step.how \in FirstPage \union {"organization"} \/ ByServer
      BY DEF LookUp, Bare, FirstPage
    <3> QED BY <1>1, <3>1, <3>2 DEF MeantInv, AnswersInv, Paging
  <2>2. hits' = Matched /\ UNCHANGED <<found, at, facts>>
    BY <2>1 DEF FindPage, ReadPage, ReadsOnly
  <2>3. Step' = Step BY <1>1, <2>2 DEF Step
  <2>4. Step.how # "all" BY <2>3 DEF Leaves
  <2>5. Matched \subseteq Meant[Len(found) + 1] BY <2>1, <2>4, MatchedIsMeant
  <2>6. Meant' = Meant BY <1>1, <1>3, <2>2 DEF Meant
  <2> QED BY <2>2, <2>5, <2>6
<1>9. CASE Stays /\ found' = found
  <2>1. Len(found') = Lookups(command'.steps, at' - 1) BY <1>1, <1>4, <1>9 DEF Stays
  <2> QED BY <1>3, <1>4, <1>7, <1>8, <1>9, <2>1 DEF PlacesAreMeant
<1>10. CASE Advance /\ found' = found /\ ~Leaves(Step)
  <2>1. at' - 1 = at BY <1>6, <1>10 DEF Advance
  <2>2. Len(found) = Lookups(command.steps, at) BY <1>1, <1>10, MeantOf
  <2>3. Len(found') = Lookups(command'.steps, at' - 1) BY <1>1, <1>10, <2>1, <2>2
  <2> QED BY <1>3, <1>4, <1>7, <1>8, <1>10, <2>3 DEF PlacesAreMeant
<1>11. CASE Learns
  <2>1. PICK i \in Meant[Len(found) + 1] \intersect Values : Learn(i) BY <1>11 DEF Learns
  <2>2. found' = Append(found, i) /\ at' - 1 = at BY <1>6, <2>1 DEF Learn, Advance
  <2>3. /\ Lookups(command.steps, at) = Len(found) + 1 /\ Len(found) + 1 \in 1..LastPlace
    BY <1>1, <1>11, MeantOf DEF Learns
  <2>4. /\ found' \in Seq(Values) /\ Len(found') = Len(found) + 1
        /\ found'[Len(found) + 1] = i
        /\ \A k \in 1..Len(found) : found'[k] = found[k]
    BY <1>4, <2>1, <2>2, AppendProperties
  <2>5. ASSUME NEW k \in 1..Len(found') PROVE found'[k] \in Meant'[k]
    <3>1. CASE k \in 1..Len(found) BY <1>7, <2>4, <3>1
    <3>2. CASE k = Len(found) + 1
      <4>1. k \in 0..LastPlace BY <2>3, <3>2, <1>5
      <4> QED BY <1>3, <2>1, <2>4, <3>2, <4>1
    <3> QED BY <1>4, <2>4, <2>5, <3>1, <3>2
  <2>6. Len(found') = Lookups(command'.steps, at' - 1) BY <1>1, <2>2, <2>3, <2>4
  <2> QED BY <1>3, <1>8, <2>4, <2>5, <2>6 DEF PlacesAreMeant
<1>12. CASE Ends BY <1>12 DEF Ends
<1> QED BY <1>9, <1>10, <1>11, <1>12, CommandLearns DEF GoesOn

LEMMA OthersKeepMeant ==
  ASSUME MeantInv, UNCHANGED <<chosen, command, at, found, cursor, hits, outcome>>,
         facts \subseteq facts'
  PROVE  PlacesAreMeant'
<1> SUFFICES ASSUME outcome = "none" PROVE PlacesAreMeant'
  BY DEF PlacesAreMeant
<1>1. \A k \in 0..LastPlace : Meant[k] \subseteq Meant'[k]
  BY MeantStands
<1>2. Step' = Step BY DEF Step
<1>3. /\ found \in Seq(Values) /\ Len(found) \in Nat /\ Len(found) = Lookups(command.steps, at - 1)
      /\ \A k \in 1..Len(found) : found[k] \in Meant[k]
      /\ cursor # 0 /\ Leaves(Step) => hits \subseteq Meant[Len(found) + 1]
  BY StepNames DEF MeantInv, PlacesAreMeant
<1>4. LastPlace \in Nat /\ Len(found) <= LastPlace
  <2>1. Len(command.steps) \in Nat
    BY CommandsAre DEF MeantInv, AnswersInv, GatewayInv, GatewayTypes
  <2>2. LastPlace \in Nat BY <2>1, LookupsCount DEF LastPlace
  <2> QED BY <2>2, MeantOf
<1>5. \A k \in 1..Len(found) : found[k] \in Meant'[k]
  <2> TAKE k \in 1..Len(found)
  <2>1. k \in 0..LastPlace BY <1>3, <1>4
  <2> QED BY <1>1, <1>3, <2>1
<1>6. cursor # 0 /\ Leaves(Step) => hits \subseteq Meant'[Len(found) + 1]
  <2>1. Leaves(Step) => Len(found) + 1 \in 0..LastPlace BY <1>4, MeantOf
  <2> QED BY <1>1, <1>3, <2>1
<1>7. Values' = Values BY DEF Values
<1> QED BY <1>2, <1>3, <1>5, <1>6, <1>7 DEF PlacesAreMeant

LEMMA MeantStart == GatewayInit => MeantInv
<1> SUFFICES ASSUME GatewayInit PROVE MeantInv
  OBVIOUS
<1>1. found = <<>> /\ at = 1 /\ cursor = 0 BY DEF GatewayInit
<1>2. found \in Seq(Values) /\ Len(found) = 0 BY <1>1
<1>3. Lookups(command.steps, at - 1) = 0 BY <1>1, LookupsCount
<1>4. PlacesAreMeant BY <1>1, <1>2, <1>3 DEF PlacesAreMeant
<1> QED BY <1>4, AnswersStart DEF MeantInv

LEMMA MeantKeeps == MeantInv /\ [GatewayNext]_gatewayVars => MeantInv'
<1> SUFFICES ASSUME MeantInv, [GatewayNext]_gatewayVars PROVE MeantInv'
  OBVIOUS
<1>1. AnswersInv' BY AnswersKeep DEF MeantInv
<1>2. CASE CommandSteps BY <1>1, <1>2, CommandKeepsMeant DEF MeantInv
<1>3. CASE OthersCreate \/ OthersRename \/ OthersDelete \/ OthersWrite
  <2>1. SteadyKept BY <1>3, OthersKeepSteady DEF MeantInv, AnswersInv
  <2>2. facts \subseteq facts' BY <2>1, FactsStand DEF SteadyKept, MeantInv, AnswersInv
  <2>3. PlacesAreMeant' BY <2>1, <2>2, OthersKeepMeant DEF SteadyKept
  <2> QED BY <1>1, <2>3 DEF MeantInv
<1>4. CASE UNCHANGED gatewayVars
  <2>1. PlacesAreMeant' BY <1>4, OthersKeepMeant DEF gatewayVars
  <2> QED BY <1>1, <2>1 DEF MeantInv
<1> QED BY <1>2, <1>3, <1>4 DEF GatewayNext

-----------------------------------------------------------------------------
\* What a command changes.
LEMMA HereIsMeant ==
  ASSUME MeantInv, outcome = "none", Step.do \in {"update", "edit", "delete", "store"}
  PROVE  Here \in LastMeant
<1>1. Len(found) \in Nat /\ Len(found) > 0 /\ Len(found) = LastPlace BY StepNames
<1>2. Len(found) \in 1..Len(found) BY <1>1
<1>3. found[Len(found)] \in Meant[Len(found)] BY <1>2 DEF MeantInv, PlacesAreMeant
<1> QED BY <1>1, <1>3 DEF Here, LastMeant, LastPlace

PutAsNamed(i) ==
  /\ res'[i].kind = Step.kind
  /\ \/ res'[i].up \in Meant[Step.under]
     \/ Root \in Meant[Step.under] /\ res'[i].up = res[i].up
  /\ Step.do = "create" => res'[i].name = Reference
  /\ Step.do # "create" => res'[i].name \in Meant[Step.arg]

LEMMA AddedAsNamed ==
  ASSUME MeantInv, outcome = "none", Step.do \in {"create", "link", "put"}, NEW name,
         Add(Place(Step.under), name), NEW i \in Ids, res'[i] # res[i],
         IF Step.do = "create" THEN name = Reference ELSE name = Place(Step.arg)
  PROVE  PutAsNamed(i)
<1>1. Place(Step.under) \in Meant[Step.under] BY StepNames, PlaceIsMeant
<1>2. Step.do # "create" => Place(Step.arg) \in Meant[Step.arg] BY StepNames, PlaceIsMeant
<1> DEFINE r == Resource(Step.kind, Place(Step.under), name)
<1>3. res' = [res EXCEPT ![New] = r] BY DEF Add, Changed
<1>4. ResTyped /\ HasParts(r) BY PlainIsMarking DEF MeantInv, AnswersInv, GatewayInv, GatewayTypes
<1>5. r.kind = Step.kind /\ r.up = Place(Step.under) /\ r.name = name BY DEF Resource
<1> HIDE DEF r
<1>6. i = New /\ res'[i] = r BY <1>3, <1>4, Written
<1> QED BY <1>1, <1>2, <1>5, <1>6 DEF PutAsNamed

LEMMA LinkAsNamed ==
  ASSUME MeantInv, CreateLink, NEW i \in Ids, res'[i] # res[i]
  PROVE  PutAsNamed(i)
<1>1. outcome = "none" /\ Step.do \in {"link", "put"} BY DEF CreateLink, Runs
<1>2. CASE Add(Place(Step.under), Place(Step.arg)) BY <1>1, <1>2, AddedAsNamed
<1>3. CASE /\ Pairs(Step.kind, Place(Step.under), Place(Step.arg)) # {}
           /\ Changed([res EXCEPT ![Min(Pairs(Step.kind, Place(Step.under), Place(Step.arg)))]
                                     .items["about"] = "ours"])
  <2> DEFINE same == Pairs(Step.kind, Place(Step.under), Place(Step.arg))
             j == Min(same)
             f == [res[j].items EXCEPT !["about"] = "ours"]
             v == [res[j] EXCEPT !.items = f]
  <2>1. same \in SUBSET Ids BY DEF Pairs, Kin, Held
  <2>2. j \in same
    <3> HIDE DEF same
    <3> QED BY <1>3, <2>1, IdsTyped, MinIsThere DEF same
  <2>3. /\ res[j].kind = Step.kind /\ res[j].name = Place(Step.arg)
        /\ Place(Step.under) \in {Root, res[j].up} /\ j \in Ids
    BY <2>1, <2>2 DEF Pairs, Kin
  <2> HIDE DEF same
  <2>4. res' = [res EXCEPT ![j].items["about"] = "ours"] BY <1>3 DEF Changed, same
  <2> HIDE DEF j
  <2>5. res' = [res EXCEPT ![j] = v] BY <2>4
  <2>6. ResTyped /\ HasParts(res[j]) /\ res[j].items \in Markings
    BY <2>3, PartsSet DEF MeantInv, AnswersInv, GatewayInv, GatewayTypes, ResTyped
  <2>7. f \in Markings BY <2>6, MarkSet DEF Items
  <2> HIDE DEF f
  <2>8. /\ HasParts(v) /\ v.kind = res[j].kind /\ v.up = res[j].up /\ v.name = res[j].name
    <3>1. HasParts(v) BY <2>6, <2>7, PartsSet
    <3>2. v.kind = res[j].kind /\ v.up = res[j].up /\ v.name = res[j].name
      BY <2>6 DEF HasParts
    <3> QED BY <3>1, <3>2
  <2> HIDE DEF v
  <2>9. i = j /\ res'[i] = v BY <2>3, <2>5, <2>6, <2>8, Written
  <2>10. Place(Step.under) \in Meant[Step.under] /\ Place(Step.arg) \in Meant[Step.arg]
    BY <1>1, StepNames, PlaceIsMeant
  <2> QED BY <1>1, <2>3, <2>8, <2>9, <2>10 DEF PutAsNamed
<1> QED BY <1>2, <1>3 DEF CreateLink

RemovedAsNamed(i) ==
  /\ res[i].kind = Step.kind
  /\ Root \in Meant[Step.under] \/ res[i].up \in Meant[Step.under]
  /\ IF Step.do = "drop" THEN res[i].name = Reference ELSE res[i].name \in Meant[Step.arg]

LEMMA LinkRemovedAsNamed ==
  ASSUME MeantInv, RemoveLink, NEW i \in Ids, res'[i] # res[i]
  PROVE  RemovedAsNamed(i)
<1>1. outcome = "none" /\ Step.do \in {"unlink", "drop"} BY DEF RemoveLink, Runs
<1> DEFINE name == IF Step.do = "drop" THEN Reference ELSE Place(Step.arg)
           same == Pairs(Step.kind, Place(Step.under), name)
<1>2. same # {} /\ res' = [res EXCEPT ![Min(same)] = Gone] BY DEF RemoveLink, Changed
<1>3. same \in SUBSET Ids BY DEF Pairs, Kin, Held
<1>4. Min(same) \in same
  <2> HIDE DEF same
  <2> QED BY <1>2, <1>3, IdsTyped, MinIsThere
<1>5. \A j \in same : /\ res[j].kind = Step.kind /\ res[j].name = name
                      /\ Place(Step.under) \in {Root, res[j].up}
  BY DEF Pairs, Kin
<1> HIDE DEF same
<1>6. i = Min(same)
  <2>1. ResTyped /\ HasParts(Gone)
    BY PlainIsMarking DEF MeantInv, AnswersInv, GatewayInv, GatewayTypes
  <2> QED BY <1>2, <2>1, Written
<1>7. Place(Step.under) \in Meant[Step.under] BY <1>1, StepNames, PlaceIsMeant
<1>8. Step.do # "drop" => Place(Step.arg) \in Meant[Step.arg]
  BY <1>1, StepNames, PlaceIsMeant
<1> QED BY <1>4, <1>5, <1>6, <1>7, <1>8 DEF RemovedAsNamed

\* An update, an edit and a deletion touch what was found last.
LEMMA OnlyHereChanges ==
  ASSUME MeantInv, UpdateResource \/ EditRule \/ DeleteResource, NEW i \in Ids, res'[i] # res[i]
  PROVE  i = Here /\ res[i].kind = Step.kind /\ i \in LastMeant
<1>1. /\ outcome = "none" /\ Step.do \in {"update", "edit", "delete"}
      /\ res[Here].kind = Step.kind
  BY DEF UpdateResource, EditRule, DeleteResource, Runs
<1>2. res = [j \in Ids |-> res[j]]
  BY DEF MeantInv, AnswersInv, GatewayInv, GatewayTypes, ResTyped
<1>3. \A v : res' = [res EXCEPT ![Here] = v] => i = Here BY <1>2
<1>4. \A f : [res EXCEPT ![Here].items = f] = [res EXCEPT ![Here] = [res[Here] EXCEPT !.items = f]]
  OBVIOUS
<1>5. \A f : res' = [res EXCEPT ![Here].items = f] => i = Here BY <1>3, <1>4
<1>6. CASE UpdateResource
  <2>1. PICK f : res' = [res EXCEPT ![Here].items = f] BY <1>6 DEF UpdateResource, Changed
  <2> QED BY <1>1, <1>5, <2>1, HereIsMeant
<1>7. CASE EditRule
  <2>1. PICK f : res' = [res EXCEPT ![Here].items = f] BY <1>7 DEF EditRule, Changed
  <2> QED BY <1>1, <1>5, <2>1, HereIsMeant
<1>8. CASE DeleteResource
  <2>1. res' = [res EXCEPT ![Here] = Gone] BY <1>8 DEF DeleteResource, Changed
  <2> QED BY <1>1, <1>3, <2>1, HereIsMeant
<1> QED BY <1>6, <1>7, <1>8

LEMMA NamedStep ==
  ASSUME MeantInv, GatewayNext
  PROVE  /\ others' = others =>
              \A i \in Ids : res'[i] # res[i] =>
                CASE Step.do \in {"create", "link", "put"} -> PutAsNamed(i)
                  [] Step.do \in {"unlink", "drop"} -> RemovedAsNamed(i)
                  [] OTHER -> res[i].kind = Step.kind /\ i \in LastMeant
         /\ chosen' # chosen => chosen' \in LastMeant
<1>1. CASE ~CommandSteps
  <2>1. others' # others
    BY <1>1, OthersDisturbNot DEF GatewayNext, Undisturbed, MeantInv, AnswersInv
  <2>2. chosen' = chosen
    BY <1>1, OthersKeepSteady DEF GatewayNext, SteadyKept, MeantInv, AnswersInv
  <2> QED BY <2>1, <2>2
<1>2. CASE CommandSteps
  <2>1. outcome = "none" BY <1>2, CommandMoves DEF Moves
  <2>2. CASE \/ ResolveOrganization \/ TakeIdentifier \/ FindPage \/ LookUp \/ PickOrganization
             \/ Pass \/ Fail \/ ReadRule
    BY <2>2 DEF ResolveOrganization, TakeIdentifier, FindPage, LookUp, PickOrganization,
                Pass, Fail, ReadRule, ReadsOnly
  <2>3. CASE StoreOrganization
    <3>1. Step.do = "store" BY <2>3 DEF StoreOrganization, Runs
    <3>2. chosen' \in LastMeant BY <2>1, <2>3, <3>1, HereIsMeant DEF StoreOrganization
    <3> QED BY <2>3, <3>2 DEF StoreOrganization
  <2>4. \A r : Changed(r) => chosen' = chosen BY DEF Changed
  <2>5. CASE CreateResource
    <3>1. Step.do = "create" /\ Add(Place(Step.under), Reference)
      BY <2>5 DEF CreateResource, Runs
    <3>2. \A i \in Ids : res'[i] # res[i] => PutAsNamed(i) BY <2>1, <3>1, AddedAsNamed
    <3> QED BY <2>4, <3>1, <3>2 DEF Add
  <2>6. CASE CreateLink
    <3>1. Step.do \in {"link", "put"} BY <2>6 DEF CreateLink, Runs
    <3>2. \A i \in Ids : res'[i] # res[i] => PutAsNamed(i) BY <2>6, LinkAsNamed
    <3>3. chosen' = chosen BY <2>4, <2>6 DEF CreateLink, Add
    <3> QED BY <3>1, <3>2, <3>3
  <2>7. CASE UpdateResource \/ EditRule \/ DeleteResource
    <3>1. Step.do \in {"update", "edit", "delete"}
      BY <2>7 DEF UpdateResource, EditRule, DeleteResource, Runs
    <3>2. \A i \in Ids : res'[i] # res[i] => res[i].kind = Step.kind /\ i \in LastMeant
      BY <2>7, OnlyHereChanges
    <3>3. chosen' = chosen BY <2>4, <2>7 DEF UpdateResource, EditRule, DeleteResource
    <3> QED BY <3>1, <3>2, <3>3
  <2>8. CASE RemoveLink
    <3>1. Step.do \in {"unlink", "drop"} BY <2>8 DEF RemoveLink, Runs
    <3>2. \A i \in Ids : res'[i] # res[i] => RemovedAsNamed(i) BY <2>8, LinkRemovedAsNamed
    <3>3. chosen' = chosen BY <2>4, <2>8 DEF RemoveLink
    <3> QED BY <3>1, <3>2, <3>3
  <2> QED BY <1>2, <2>2, <2>3, <2>5, <2>6, <2>7, <2>8 DEF CommandSteps
<1> QED BY <1>1, <1>2

\* Whatever a command has found by a name, an identifier or a choice is what that
\* argument means: it was so called, in the place that was meant, at some moment
\* since the command began (the resolve functions of internal/cmd).
THEOREM FindsWhatIsMeant == GatewaySpec => []MeantInv
BY MeantStart, MeantKeeps, PTL DEF GatewaySpec

\* A command changes nothing but what its arguments name, for every command, page
\* size and world, whatever others rename, delete and create while it runs.
THEOREM CommandsChangeTheNamed == GatewaySpec => ChangesTheNamed
<1>1. MeantInv /\ [GatewayNext]_gatewayVars =>
        [/\ others' = others =>
              \A i \in Ids : res'[i] # res[i] =>
                CASE Step.do \in {"create", "link", "put"} ->
                       /\ res'[i].kind = Step.kind
                       /\ \/ res'[i].up \in Meant[Step.under]
                          \/ Root \in Meant[Step.under] /\ res'[i].up = res[i].up
                       /\ Step.do = "create" => res'[i].name = Reference
                       /\ Step.do # "create" => res'[i].name \in Meant[Step.arg]
                  [] Step.do \in {"unlink", "drop"} ->
                       /\ res[i].kind = Step.kind
                       /\ Root \in Meant[Step.under] \/ res[i].up \in Meant[Step.under]
                       /\ IF Step.do = "drop" THEN res[i].name = Reference
                                              ELSE res[i].name \in Meant[Step.arg]
                  [] OTHER -> res[i].kind = Step.kind /\ i \in LastMeant
         /\ chosen' # chosen => chosen' \in LastMeant]_gatewayVars
  BY NamedStep DEF PutAsNamed, RemovedAsNamed
<1> QED BY <1>1, FindsWhatIsMeant, PTL DEF GatewaySpec, ChangesTheNamed
=============================================================================
