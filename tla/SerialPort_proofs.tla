-------------------------- MODULE SerialPort_proofs --------------------------
(* For every number of readers, writers and clients, of lines, starts and     *)
(* calls: the locks of the proxy and its list of readers are what they say,   *)
(* every reader gets the device's lines in order and without a gap, and an    *)
(* answer to serial_write is true.                                            *)
EXTENDS SerialPort, SequenceTheorems, TLAPS

\* The two halves of the type invariant: the Boolean variables, and the others.
FlagsOK ==
    /\ up \in BOOLEAN /\ monitors_lock \in BOOLEAN
    /\ live \in [Observer -> BOOLEAN] /\ cut \in [Writer -> BOOLEAN]

DrainOK ==
    /\ said \in 0..MaxLines /\ taken \in 0..said /\ pm_lock \in {"free", "drain", "loop"}
    /\ drain \in [at : {"read", "fan", "sending", "route", "escape", "escaping", "send", "gone"},
                  line : 0..said, todo : SUBSET Observer, to : Knock \cup {None}]
    /\ control \in Knock \cup {None}

FanOK ==
    /\ waiting \in Seq(Observer) /\ monitors \subseteq Observer /\ dead \subseteq Observer
    /\ at \in [Observer -> {"idle", "reading", "looking"}]

StreamsOK == said \in Nat /\ inbox \in [Observer -> Seq(1..said)] /\ got \in [Observer -> Seq(1..said)]

BuffersOK ==
    /\ starts \in 0..MaxStarts /\ IsABag(written)
    /\ kind \in [Monitor -> Kinds] /\ ring \in [1..MaxLines -> Nat]

ServerOK ==
    /\ knocking \in Seq(Knock) /\ serving \in Knock \cup {None}
    /\ loop \in {"accept", "recv", "filter", "write"} /\ payload \subseteq Knock

CallersOK ==
    /\ client \in [Caller -> {"idle", "connect", "opening", "open", "holding"}]
    /\ tries \in [Caller -> Nat] /\ answer \in [Writer -> {None, "ok", "error"}]
    /\ hung \subseteq Knock

-----------------------------------------------------------------------------
(* Queues, streams and bags. *)

\* Whoever joins a queue that it is not in leaves it without repetition.
LEMMA Joined ==
    ASSUME NEW S, NEW q \in Seq(S), NEW x \in S
    PROVE  /\ Append(q, x) \in Seq(S)
           /\ Range(Append(q, x)) = Range(q) \cup {x}
           /\ IsInjective(q) /\ x \notin Range(q) => IsInjective(Append(q, x))
<1>1. /\ Len(q) \in Nat /\ DOMAIN q = 1..Len(q)
      /\ Append(q, x) \in Seq(S) /\ Len(Append(q, x)) = Len(q) + 1
      /\ Append(q, x)[Len(q) + 1] = x
      /\ \A i \in 1..Len(q) : Append(q, x)[i] = q[i]
  BY LenProperties, AppendProperties
<1>2. DOMAIN Append(q, x) = 1..(Len(q) + 1)
  BY <1>1, LenProperties
<1>3. 1..(Len(q) + 1) = (1..Len(q)) \cup {Len(q) + 1}
  BY <1>1
<1>4. Range(Append(q, x)) = Range(q) \cup {x}
  BY <1>1, <1>2, <1>3 DEF Range
<1>5. ASSUME IsInjective(q), x \notin Range(q) PROVE IsInjective(Append(q, x))
  BY <1>1, <1>2, <1>3, <1>5 DEF IsInjective, Range
<1> QED BY <1>1, <1>4, <1>5

\* The first of a queue that leaves it is in it no more.
LEMMA Left ==
    ASSUME NEW S, NEW q \in Seq(S), q # <<>>
    PROVE  /\ Head(q) \in S /\ Head(q) \in Range(q) /\ Tail(q) \in Seq(S)
           /\ Range(q) = Range(Tail(q)) \cup {Head(q)}
           /\ IsInjective(q) => IsInjective(Tail(q)) /\ Head(q) \notin Range(Tail(q))
<1>1. /\ Len(q) \in Nat \ {0} /\ DOMAIN q = 1..Len(q) /\ Head(q) = q[1]
      /\ Head(q) \in S /\ Tail(q) \in Seq(S) /\ Len(Tail(q)) = Len(q) - 1
      /\ \A i \in 1..(Len(q) - 1) : Tail(q)[i] = q[i + 1]
  BY EmptySeq, LenProperties, HeadTailProperties
<1>2. DOMAIN Tail(q) = 1..(Len(q) - 1)
  BY <1>1, LenProperties
<1>3. 1 \in 1..Len(q) /\ \A i \in 1..(Len(q) - 1) : i + 1 \in 1..Len(q) /\ i + 1 # 1
  BY <1>1
<1>4. Range(q) = Range(Tail(q)) \cup {Head(q)}
  <2>1. \A i \in 1..Len(q) : i = 1 \/ (i - 1 \in 1..(Len(q) - 1) /\ (i - 1) + 1 = i)
    BY <1>1
  <2>2. \A i \in 1..Len(q) : q[i] = Head(q) \/ q[i] \in Range(Tail(q))
    <3> SUFFICES ASSUME NEW i \in 1..Len(q), i # 1 PROVE q[i] \in Range(Tail(q))
      BY <1>1
    <3>1. Tail(q)[i - 1] = q[(i - 1) + 1]
      BY <1>1, <2>1
    <3> QED BY <1>2, <2>1, <3>1 DEF Range
  <2>3. \A i \in 1..(Len(q) - 1) : Tail(q)[i] \in Range(q)
    BY <1>1, <1>3 DEF Range
  <2>4. Head(q) \in Range(q)
    BY <1>1, <1>3 DEF Range
  <2> QED BY <1>1, <1>2, <2>2, <2>3, <2>4 DEF Range
<1>5. ASSUME IsInjective(q) PROVE IsInjective(Tail(q)) /\ Head(q) \notin Range(Tail(q))
  <2>1. ASSUME NEW i \in 1..(Len(q) - 1), NEW j \in 1..(Len(q) - 1),
               Tail(q)[i] = Tail(q)[j]
        PROVE  i = j
    <3>1. i + 1 = j + 1
      BY <1>1, <1>3, <1>5, <2>1 DEF IsInjective
    <3> QED BY <1>1, <3>1
  <2>2. ASSUME NEW i \in 1..(Len(q) - 1) PROVE Tail(q)[i] # Head(q)
    BY <1>1, <1>3, <1>5 DEF IsInjective
  <2> QED BY <1>2, <2>1, <2>2 DEF IsInjective, Range
<1> QED BY <1>1, <1>4, <1>5

\* A line that is read moves from the connection to what has been read.
LEMMA ReadOn ==
    ASSUME NEW S, NEW g \in Seq(S), NEW s \in Seq(S), s # <<>>
    PROVE  /\ Append(g, Head(s)) \in Seq(S) /\ Tail(s) \in Seq(S)
           /\ Append(g, Head(s)) \o Tail(s) = g \o s
<1> DEFINE a == Append(g, Head(s))
           b == Tail(s)
<1>1. /\ Len(g) \in Nat /\ Len(s) \in Nat \ {0} /\ Head(s) = s[1] /\ Head(s) \in S
      /\ b \in Seq(S) /\ Len(b) = Len(s) - 1
      /\ \A i \in 1..(Len(s) - 1) : b[i] = s[i + 1]
  BY EmptySeq, LenProperties, HeadTailProperties
<1>2. /\ a \in Seq(S) /\ Len(a) = Len(g) + 1 /\ a[Len(g) + 1] = s[1]
      /\ \A i \in 1..Len(g) : a[i] = g[i]
  BY <1>1, AppendProperties
<1> HIDE DEF a, b
<1>3. /\ a \o b \in Seq(S) /\ Len(a \o b) = Len(a) + Len(b)
      /\ \A i \in 1..(Len(a) + Len(b)) :
            (a \o b)[i] = IF i <= Len(a) THEN a[i] ELSE b[i - Len(a)]
  BY <1>1, <1>2, ConcatProperties
<1>4. /\ g \o s \in Seq(S) /\ Len(g \o s) = Len(g) + Len(s)
      /\ \A i \in 1..(Len(g) + Len(s)) :
            (g \o s)[i] = IF i <= Len(g) THEN g[i] ELSE s[i - Len(g)]
  BY ConcatProperties
<1>5. Len(a \o b) = Len(g \o s) /\ Len(a) + Len(b) = Len(g) + Len(s)
  BY <1>1, <1>2, <1>3, <1>4
<1>6. ASSUME NEW i \in 1..Len(a \o b) PROVE (a \o b)[i] = (g \o s)[i]
  <2>1. i \in 1..(Len(g) + Len(s)) /\ i \in 1..(Len(a) + Len(b)) /\ i \in Int
    BY <1>1, <1>4, <1>5
  <2>2. CASE i <= Len(g)
    BY <1>1, <1>2, <1>3, <1>4, <2>1, <2>2
  <2>3. CASE i = Len(g) + 1
    <3>1. i - Len(g) = 1 /\ ~(i <= Len(g)) /\ i <= Len(a)
      BY <1>1, <1>2, <2>3
    <3> QED BY <1>2, <1>3, <1>4, <2>1, <2>3, <3>1
  <2>4. CASE i > Len(g) + 1
    <3>1. /\ i - Len(a) \in 1..(Len(s) - 1) /\ (i - Len(a)) + 1 = i - Len(g)
          /\ ~(i <= Len(g)) /\ ~(i <= Len(a))
      BY <1>1, <1>2, <2>1, <2>4
    <3>2. b[i - Len(a)] = s[i - Len(g)]
      BY <1>1, <3>1
    <3> QED BY <1>3, <1>4, <2>1, <3>1, <3>2
  <2>5. i <= Len(g) \/ i = Len(g) + 1 \/ i > Len(g) + 1
    BY <1>1, <2>1
  <2> QED BY <2>2, <2>3, <2>4, <2>5
<1>7. a \o b = g \o s
  BY <1>3, <1>4, <1>5, <1>6, SeqEqual
<1> QED BY <1>1, <1>2, <1>7 DEF a, b

\* A line that is sent comes after everything that was read or sent before it.
LEMMA SentOn ==
    ASSUME NEW S, NEW g \in Seq(S), NEW s \in Seq(S), NEW x \in S
    PROVE  /\ Append(s, x) \in Seq(S) /\ g \o s \in Seq(S)
           /\ g \o Append(s, x) = Append(g \o s, x)
<1> DEFINE a == Append(s, x)
           t == g \o s
           b == Append(t, x)
<1>1. /\ Len(g) \in Nat /\ Len(s) \in Nat /\ a \in Seq(S) /\ Len(a) = Len(s) + 1
      /\ a[Len(s) + 1] = x /\ \A i \in 1..Len(s) : a[i] = s[i]
  BY LenProperties, AppendProperties
<1>2. /\ t \in Seq(S) /\ Len(t) = Len(g) + Len(s)
      /\ \A i \in 1..(Len(g) + Len(s)) : t[i] = IF i <= Len(g) THEN g[i] ELSE s[i - Len(g)]
  BY ConcatProperties
<1>3. /\ b \in Seq(S) /\ Len(b) = Len(t) + 1
      /\ b[Len(t) + 1] = x /\ \A i \in 1..Len(t) : b[i] = t[i]
  BY <1>2, AppendProperties
<1> HIDE DEF a, t, b
<1>4. /\ g \o a \in Seq(S) /\ Len(g \o a) = Len(g) + Len(a)
      /\ \A i \in 1..(Len(g) + Len(a)) :
            (g \o a)[i] = IF i <= Len(g) THEN g[i] ELSE a[i - Len(g)]
  BY <1>1, ConcatProperties
<1>5. Len(g \o a) = Len(b)
  BY <1>1, <1>2, <1>3, <1>4
<1>6. ASSUME NEW i \in 1..Len(g \o a) PROVE (g \o a)[i] = b[i]
  <2>1. i \in 1..(Len(g) + Len(a)) /\ i \in Int /\ Len(t) = Len(g) + Len(s)
    BY <1>1, <1>2, <1>4
  <2>2. CASE i <= Len(g)
    <3>1. i \in 1..Len(t) /\ i \in 1..(Len(g) + Len(s))
      BY <1>1, <2>1, <2>2
    <3> QED BY <1>2, <1>3, <1>4, <2>1, <2>2, <3>1
  <2>3. CASE i > Len(g) /\ i <= Len(g) + Len(s)
    <3>1. i \in 1..Len(t) /\ i \in 1..(Len(g) + Len(s)) /\ i - Len(g) \in 1..Len(s)
          /\ ~(i <= Len(g))
      BY <1>1, <2>1, <2>3
    <3> QED BY <1>1, <1>2, <1>3, <1>4, <2>1, <3>1
  <2>4. CASE i = Len(g) + Len(s) + 1
    <3>1. i - Len(g) = Len(s) + 1 /\ ~(i <= Len(g)) /\ i = Len(t) + 1
      BY <1>1, <2>1, <2>4
    <3> QED BY <1>1, <1>3, <1>4, <2>1, <3>1
  <2> QED BY <1>1, <2>1, <2>2, <2>3, <2>4
<1>7. g \o a = b
  BY <1>3, <1>4, <1>5, <1>6, SeqEqual
<1> QED BY <1>1, <1>2, <1>7 DEF a, t, b

\* What the device is given once more it has been given once more often.
LEMMA Given ==
    ASSUME NEW B, IsABag(B), NEW x
    PROVE  /\ IsABag(B (+) SetToBag({x}))
           /\ BagToSet(B (+) SetToBag({x})) = BagToSet(B) \cup {x}
           /\ \A k : Copies(k, B (+) SetToBag({x})) =
                         IF k = x THEN Copies(k, B) + 1 ELSE Copies(k, B)
<1> DEFINE C == SetToBag({x})
           D == B (+) C
<1>1. C = [e \in {x} |-> 1]
  BY DEF SetToBag
<1>2. D = [e \in (DOMAIN B) \cup {x} |->
              (IF e \in DOMAIN B THEN B[e] ELSE 0) + (IF e \in {x} THEN C[e] ELSE 0)]
  BY <1>1 DEF (+)
<1>3. \A e \in DOMAIN B : B[e] \in Nat /\ B[e] > 0
  BY DEF IsABag
<1>4. DOMAIN D = (DOMAIN B) \cup {x}
  BY <1>2
<1>5. \A e \in DOMAIN D : D[e] = (IF e \in DOMAIN B THEN B[e] ELSE 0) + (IF e = x THEN 1 ELSE 0)
  BY <1>1, <1>2
<1>6. \A e \in DOMAIN D : D[e] \in Nat /\ D[e] > 0
  BY <1>3, <1>4, <1>5
<1> HIDE DEF C, D
<1>7. D \in [DOMAIN D -> {n \in Nat : n > 0}]
  BY <1>2, <1>6
<1>8. IsABag(D) /\ BagToSet(D) = BagToSet(B) \cup {x}
  BY <1>4, <1>7 DEF IsABag, BagToSet
<1>9. ASSUME NEW k
      PROVE  Copies(k, D) = IF k = x THEN Copies(k, B) + 1 ELSE Copies(k, B)
  BY <1>3, <1>4, <1>5 DEF Copies, BagIn, BagToSet
<1> QED BY <1>8, <1>9 DEF C, D

-----------------------------------------------------------------------------
(* Locks, places and types. *)

\* While the proxy does not run nothing of it is left.
Down ==
    ~up => /\ waiting = <<>> /\ monitors = {} /\ ~monitors_lock /\ drain = Resting
           /\ pm_lock = "free" /\ serving = None /\ loop = "accept" /\ control = None
           /\ knocking = <<>>

\* What fan_out has left to do is a part of the list it holds the lock of, with
\* the newest line.
Sending ==
    /\ drain.todo \subseteq monitors
    /\ drain.at # "sending" => drain.todo = {}
    /\ drain.at \in {"fan", "sending"} => drain.line = taken /\ taken # 0

\* Every step keeps the flags Boolean.
LEMMA FlagsStep ==
    ASSUME FlagsOK, [Next]_vars
    PROVE  FlagsOK'
<1>1. ASSUME ProxyStarts \/ ProxyStops \/ DeviceSays PROVE FlagsOK'
  <2>1. CASE ProxyStarts
    BY <2>1 DEF ProxyStarts, Resting, fan, links, server, callers, FlagsOK
  <2>2. CASE ProxyStops
    BY <2>2 DEF ProxyStops, Resting, device, links, FlagsOK
  <2>3. CASE DeviceSays
    BY <2>3 DEF DeviceSays, process, fan, links, callers, FlagsOK
  <2> QED BY <1>1, <2>1, <2>2, <2>3
<1>2. ASSUME Proxy PROVE FlagsOK'
  <2>1. CASE FanLocks
    BY <2>1 DEF FanLocks, Drain, device, fan, links, process, server, readers,
       callers, FlagsOK
  <2>2. CASE FanEnds
    BY <2>2 DEF FanEnds, Drain, device, links, process, server, readers,
       callers, FlagsOK
  <2>3. CASE Accept \/ DrainReads \/ FanSends \/ Routes \/ Escapes \/ Escaped
     \/ DrainSends \/ LoopAccepts \/ LoopReceives \/ LoopFilters \/ LoopWrites
     \/ LoopLeaves
    BY <2>3 DEF Accept, DrainReads, Drain, FanSends, Routes, Escapes, Escaped,
       DrainSends, LoopAccepts, Loop, LoopReceives, LoopFilters, LoopWrites,
       Forget, LoopLeaves, process, fan, links, callers, FlagsOK
  <2> QED BY <1>2, <2>1, <2>2, <2>3 DEF Proxy
<1>3. ASSUME NEW o \in Observer, Reads(o) PROVE FlagsOK'
  BY <1>3 DEF Reads, process, fan, callers, FlagsOK
<1>4. ASSUME RecorderConnects \/ RecorderLeft PROVE FlagsOK'
  <2>1. CASE RecorderConnects
    BY <2>1 DEF RecorderConnects, Connects, process, device, server, callers,
       FlagsOK
  <2>2. CASE RecorderLeft
    BY <2>2 DEF RecorderLeft, Closes, AfterEof, process, device, fan, server,
       callers, FlagsOK
  <2> QED BY <1>4, <2>1, <2>2
<1>5. ASSUME NEW m \in Monitor, Connect(m) \/ MonitorEnds(m) PROVE FlagsOK'
  <2>1. CASE Connect(m)
    BY <2>1 DEF Connect, Connects, process, device, server, callers, FlagsOK
  <2>2. CASE MonitorEnds(m)
    BY <2>2 DEF MonitorEnds, Closes, process, device, fan, server, callers,
       FlagsOK
  <2> QED BY <1>5, <2>1, <2>2
<1>6. ASSUME NEW c \in Caller, Call(c) \/ Knocks(c) \/ Refused(c) \/ GivesUp(c) \/ Opens(c)
      PROVE  FlagsOK'
  <2>1. CASE Call(c)
    BY <2>1 DEF Call, Answered, Attempts, process, device, fan, links, server,
       readers, FlagsOK
  <2>2. CASE Knocks(c) \/ Refused(c) \/ GivesUp(c) \/ Opens(c)
    BY <2>2 DEF Knocks, Refused, Retries, GivesUp, Opens, process, fan, links,
       FlagsOK
  <2> QED BY <1>6, <2>1, <2>2
<1>7. ASSUME NEW w \in Writer, Writes(w) \/ WriteEnds(w) PROVE FlagsOK'
  BY <1>7 DEF Writes, Ends, WriteEnds, process, fan, links, FlagsOK
<1>8. ASSUME NEW c \in Client, ClientEnds(c) PROVE FlagsOK'
  BY <1>8 DEF ClientEnds, Ends, process, fan, links, FlagsOK
<1>9. ASSUME UNCHANGED vars PROVE FlagsOK'
  BY <1>9 DEF vars, process, fan, links, callers, FlagsOK
<1> QED
  BY <1>1, <1>2, <1>3, <1>4, <1>5, <1>6, <1>7, <1>8, <1>9
     DEF Next, Recording, Writing, Observer, Caller

\* Every step keeps the other variables in their types.
LEMMA DrainTyped ==
    ASSUME DrainOK, monitors \subseteq Observer, knocking \in Seq(Knock), [Next]_vars
    PROVE  DrainOK'
<1>1. ASSUME ProxyStarts \/ ProxyStops \/ DeviceSays PROVE DrainOK'
  <2>1. CASE ProxyStarts
    BY <2>1, BoundAssumption DEF ProxyStarts, Resting, fan, links, server,
       callers, DrainOK
  <2>2. CASE ProxyStops
    BY <2>2 DEF ProxyStops, Resting, device, links, DrainOK
  <2>3. CASE DeviceSays
    BY <2>3, BoundAssumption DEF DeviceSays, process, fan, links, server,
       readers, callers, DrainOK
  <2> QED BY <1>1, <2>1, <2>2, <2>3
<1>2. ASSUME Proxy PROVE DrainOK'
  <2>1. CASE DrainReads
    <3>1. /\ taken' = taken + 1 /\ taken < said /\ said' = said
          /\ drain' = [drain EXCEPT !.at = "fan", !.line = taken']
          /\ UNCHANGED <<pm_lock, control>>
      BY <2>1 DEF DrainReads, Drain, server
    <3>2. taken' \in 0..said
      BY <3>1 DEF DrainOK
    <3> QED BY <3>1, <3>2 DEF DrainOK
  <2>2. CASE FanLocks
    BY <2>2 DEF FanLocks, Drain, device, fan, links, process, server, readers,
       callers, DrainOK
  <2>3. CASE FanSends
    BY <2>3 DEF FanSends, Drain, After, device, process, server, readers,
       callers, DrainOK
  <2>4. CASE FanEnds
    BY <2>4 DEF FanEnds, Drain, device, links, process, server, readers,
       callers, DrainOK
  <2>5. CASE Routes
    <3>1. /\ UNCHANGED <<said, taken, pm_lock, control>>
          /\ \/ drain' = Resting
             \/ drain' = [drain EXCEPT !.at = "escape", !.to = control]
      BY <2>5 DEF Routes, Drain, device, server
    <3>2. Resting \in [at : {"read"}, line : 0..said, todo : SUBSET Observer, to : {None}]
      BY DEF DrainOK, Resting
    <3> QED BY <3>1, <3>2 DEF DrainOK
  <2>6. CASE Escapes
    BY <2>6 DEF Escapes, Drain, PmTaken, device, fan, links, process, server,
       readers, callers, DrainOK
  <2>7. CASE Escaped
    BY <2>7 DEF Escaped, Drain, device, fan, links, process, server, readers,
       callers, DrainOK
  <2>8. CASE DrainSends
    BY <2>8 DEF DrainSends, AfterFailure, Resting, process, device, fan,
       links, readers, callers, DrainOK
  <2>9. CASE LoopAccepts
    <3>1. Head(knocking) \in Knock
      BY <2>9, Left DEF LoopAccepts
    <3> QED BY <2>9, <3>1 DEF LoopAccepts, Loop, DrainOK
  <2>10. CASE LoopReceives
    BY <2>10 DEF LoopReceives, Loop, PmTaken, process, fan, links, readers,
       DrainOK
  <2>11. CASE LoopFilters
    BY <2>11 DEF LoopFilters, Loop, process, fan, links, readers, DrainOK
  <2>12. CASE LoopWrites
    BY <2>12 DEF LoopWrites, Loop, Forget, process, fan, links, readers,
       DrainOK
  <2>13. CASE LoopLeaves
    BY <2>13 DEF LoopLeaves, Loop, Forget, process, fan, links, readers,
       DrainOK
  <2>14. CASE Accept
    BY <2>14 DEF Accept, device, server, DrainOK
  <2> QED BY <1>2, <2>1, <2>2, <2>3, <2>4, <2>5, <2>6, <2>7, <2>8, <2>9,
     <2>10, <2>11, <2>12, <2>13, <2>14 DEF Proxy
<1>3. ASSUME NEW o \in Observer, Reads(o) PROVE DrainOK'
  BY <1>3 DEF Reads, device, server, DrainOK
<1>4. ASSUME RecorderConnects \/ RecorderLeft PROVE DrainOK'
  BY <1>4 DEF RecorderConnects, Connects, RecorderLeft, Closes, device,
     server, DrainOK
<1>5. ASSUME NEW m \in Monitor, Connect(m) \/ MonitorEnds(m) PROVE DrainOK'
  BY <1>5 DEF Connect, Connects, MonitorEnds, Closes, device, server, DrainOK
<1>6. ASSUME NEW c \in Caller, Call(c) \/ Knocks(c) \/ Refused(c) \/ GivesUp(c) \/ Opens(c)
      PROVE  DrainOK'
  BY <1>6 DEF Call, Knocks, Refused, Retries, GivesUp, Opens, device, server,
     DrainOK
<1>7. ASSUME NEW w \in Writer, Writes(w) \/ WriteEnds(w) PROVE DrainOK'
  BY <1>7 DEF Writes, Ends, WriteEnds, device, server, DrainOK
<1>8. ASSUME NEW c \in Client, ClientEnds(c) PROVE DrainOK'
  BY <1>8 DEF ClientEnds, Ends, device, server, DrainOK
<1>9. ASSUME UNCHANGED vars PROVE DrainOK'
  BY <1>9 DEF vars, device, server, DrainOK
<1> QED
  BY <1>1, <1>2, <1>3, <1>4, <1>5, <1>6, <1>7, <1>8, <1>9
     DEF Next, Recording, Writing, Observer, Caller

LEMMA FanTyped ==
    ASSUME FanOK, drain.todo \subseteq Observer, [Next]_vars
    PROVE  FanOK'
<1>1. ASSUME ProxyStarts \/ ProxyStops \/ DeviceSays PROVE FanOK'
  <2>1. CASE ProxyStarts
    BY <2>1 DEF ProxyStarts, Resting, fan, links, server, callers, FanOK,
       Observer
  <2>2. CASE ProxyStops
    BY <2>2, EmptySeq DEF ProxyStops, Resting, device, links, FanOK, Observer
  <2>3. CASE DeviceSays
    BY <2>3 DEF DeviceSays, fan, readers, FanOK, Observer
  <2> QED BY <1>1, <2>1, <2>2, <2>3
<1>2. ASSUME Proxy PROVE FanOK'
  <2>1. CASE Accept
    BY <2>1, Left DEF Accept, process, device, links, server, readers,
       callers, FanOK, Observer
  <2>2. CASE FanLocks
    BY <2>2 DEF FanLocks, Drain, device, fan, links, process, server, readers,
       callers, FanOK, Observer
  <2>3. CASE FanSends
    BY <2>3 DEF FanSends, Drain, After, device, process, server, readers,
       callers, FanOK, Observer
  <2>4. CASE FanEnds
    BY <2>4 DEF FanEnds, Drain, device, links, process, server, readers,
       callers, FanOK, Observer
  <2>5. CASE DrainReads \/ Routes \/ Escapes \/ Escaped \/ DrainSends \/
     LoopAccepts \/ LoopReceives \/ LoopFilters \/ LoopWrites \/ LoopLeaves
    BY <2>5 DEF DrainReads, Drain, Routes, Escapes, Escaped, DrainSends,
       LoopAccepts, Loop, LoopReceives, LoopFilters, LoopWrites, Forget,
       LoopLeaves, fan, readers, FanOK, Observer
  <2> QED BY <1>2, <2>1, <2>2, <2>3, <2>4, <2>5 DEF Proxy
<1>3. ASSUME NEW o \in Observer, Reads(o) PROVE FanOK'
  BY <1>3 DEF Reads, fan, FanOK, Observer
<1>4. ASSUME RecorderConnects \/ RecorderLeft PROVE FanOK'
  <2>1. CASE RecorderConnects
    BY <2>1, AppendProperties DEF RecorderConnects, Connects, process, device,
       server, callers, FanOK, Observer
  <2>2. CASE RecorderLeft
    BY <2>2 DEF RecorderLeft, Closes, AfterEof, process, device, fan, server,
       callers, FanOK, Observer
  <2> QED BY <1>4, <2>1, <2>2
<1>5. ASSUME NEW m \in Monitor, Connect(m) \/ MonitorEnds(m) PROVE FanOK'
  <2>1. CASE Connect(m)
    BY <2>1, AppendProperties DEF Connect, Connects, process, device, server,
       callers, FanOK, Observer
  <2>2. CASE MonitorEnds(m)
    BY <2>2 DEF MonitorEnds, Closes, process, device, fan, server, callers,
       FanOK, Observer
  <2> QED BY <1>5, <2>1, <2>2
<1>6. ASSUME NEW c \in Caller, Call(c) \/ Knocks(c) \/ Refused(c) \/ GivesUp(c) \/ Opens(c)
      PROVE  FanOK'
  BY <1>6 DEF Call, Knocks, Refused, Retries, GivesUp, Opens, fan, readers,
     FanOK, Observer
<1>7. ASSUME NEW w \in Writer, Writes(w) \/ WriteEnds(w) PROVE FanOK'
  BY <1>7 DEF Writes, Ends, WriteEnds, fan, readers, FanOK, Observer
<1>8. ASSUME NEW c \in Client, ClientEnds(c) PROVE FanOK'
  BY <1>8 DEF ClientEnds, Ends, fan, readers, FanOK, Observer
<1>9. ASSUME UNCHANGED vars PROVE FanOK'
  BY <1>9 DEF vars, fan, readers, FanOK, Observer
<1> QED
  BY <1>1, <1>2, <1>3, <1>4, <1>5, <1>6, <1>7, <1>8, <1>9
     DEF Next, Recording, Writing, Observer, Caller

LEMMA StreamsTyped ==
    ASSUME StreamsOK, drain.at = "sending" => drain.line \in 1..said, [Next]_vars
    PROVE  StreamsOK'
<1>1. ASSUME ProxyStarts \/ ProxyStops \/ DeviceSays PROVE StreamsOK'
  <2>1. CASE DeviceSays
    BY <2>1 DEF DeviceSays, process, fan, links, server, readers, callers,
       StreamsOK
  <2>2. CASE ProxyStarts \/ ProxyStops
    BY <2>2 DEF ProxyStarts, ProxyStops, device, links, StreamsOK
  <2> QED BY <1>1, <2>1, <2>2
<1>2. ASSUME Proxy PROVE StreamsOK'
  <2>1. CASE FanSends
    <3>1. said' = said /\ got' = got
      BY <2>1 DEF FanSends, Drain, device, readers
    <3>2. CASE inbox' = inbox
      BY <3>1, <3>2 DEF StreamsOK
    <3>3. CASE inbox' # inbox
      <4>1. PICK o \in drain.todo : inbox' = [inbox EXCEPT ![o] = Append(@, drain.line)]
        BY <2>1, <3>3 DEF FanSends
      <4>2. drain.line \in 1..said
        BY <2>1 DEF FanSends
      <4>3. \A p \in Observer : Append(inbox[p], drain.line) \in Seq(1..said)
        BY <4>2, AppendProperties DEF StreamsOK
      <4> QED BY <3>1, <4>1, <4>3 DEF StreamsOK
    <3> QED BY <3>2, <3>3
  <2>2. CASE Accept \/ DrainReads \/ FanLocks \/ FanEnds \/ Routes \/ Escapes
     \/ Escaped \/ DrainSends \/ LoopAccepts \/ LoopReceives \/ LoopFilters \/
     LoopWrites \/ LoopLeaves
    BY <2>2 DEF Accept, DrainReads, Drain, FanLocks, FanEnds, Routes, Escapes,
       Escaped, DrainSends, LoopAccepts, Loop, LoopReceives, LoopFilters,
       LoopWrites, Forget, LoopLeaves, device, links, readers, StreamsOK
  <2> QED BY <1>2, <2>1, <2>2 DEF Proxy
<1>3. ASSUME NEW o \in Observer, Reads(o) PROVE StreamsOK'
  BY <1>3, ReadOn DEF Reads, Records, process, device, fan, server, callers,
     StreamsOK
<1>4. ASSUME RecorderConnects \/ RecorderLeft PROVE StreamsOK'
  <2>1. CASE RecorderConnects
    BY <2>1, EmptySeq DEF RecorderConnects, Connects, process, device, server,
       callers, StreamsOK
  <2>2. CASE RecorderLeft
    BY <2>2, EmptySeq DEF RecorderLeft, Closes, AfterEof, process, device,
       fan, server, callers, StreamsOK
  <2> QED BY <1>4, <2>1, <2>2
<1>5. ASSUME NEW m \in Monitor, Connect(m) \/ MonitorEnds(m) PROVE StreamsOK'
  <2>1. CASE Connect(m)
    BY <2>1, EmptySeq DEF Connect, Connects, process, device, server, callers,
       StreamsOK
  <2>2. CASE MonitorEnds(m)
    BY <2>2, EmptySeq DEF MonitorEnds, Closes, process, device, fan, server,
       callers, StreamsOK
  <2> QED BY <1>5, <2>1, <2>2
<1>6. ASSUME NEW c \in Caller, Call(c) \/ Knocks(c) \/ Refused(c) \/ GivesUp(c) \/ Opens(c)
      PROVE  StreamsOK'
  BY <1>6 DEF Call, Knocks, Refused, Retries, GivesUp, Opens, device, links,
     readers, StreamsOK
<1>7. ASSUME NEW w \in Writer, Writes(w) \/ WriteEnds(w) PROVE StreamsOK'
  BY <1>7 DEF Writes, Ends, WriteEnds, device, links, readers, StreamsOK
<1>8. ASSUME NEW c \in Client, ClientEnds(c) PROVE StreamsOK'
  BY <1>8 DEF ClientEnds, Ends, device, links, readers, StreamsOK
<1>9. ASSUME UNCHANGED vars PROVE StreamsOK'
  BY <1>9 DEF vars, device, links, readers, StreamsOK
<1> QED
  BY <1>1, <1>2, <1>3, <1>4, <1>5, <1>6, <1>7, <1>8, <1>9
     DEF Next, Recording, Writing, Observer, Caller

LEMMA BuffersTyped ==
    ASSUME BuffersOK, [Next]_vars
    PROVE  BuffersOK'
<1>1. ASSUME ProxyStarts \/ ProxyStops \/ DeviceSays PROVE BuffersOK'
  <2>1. CASE ProxyStarts
    BY <2>1, BoundAssumption DEF ProxyStarts, Resting, fan, links, server,
       callers, BuffersOK
  <2>2. CASE ProxyStops \/ DeviceSays
    BY <2>2 DEF ProxyStops, DeviceSays, process, device, readers, BuffersOK
  <2> QED BY <1>1, <2>1, <2>2
<1>2. ASSUME Proxy PROVE BuffersOK'
  <2>1. CASE LoopWrites
    <3>1. UNCHANGED <<starts, kind, ring>>
      BY <2>1 DEF LoopWrites, Loop, process, readers
    <3>2. written' = written \/ written' = written (+) SetToBag({serving})
      BY <2>1 DEF LoopWrites
    <3>3. IsABag(written)
      BY DEF BuffersOK
    <3>4. IsABag(written (+) SetToBag({serving}))
      BY <3>3, Given
    <3> QED BY <3>1, <3>2, <3>3, <3>4 DEF BuffersOK
  <2>2. CASE Accept \/ DrainReads \/ FanLocks \/ FanSends \/ FanEnds \/ Routes
     \/ Escapes \/ Escaped \/ DrainSends \/ LoopAccepts \/ LoopReceives \/
     LoopFilters \/ LoopLeaves
    BY <2>2 DEF Accept, DrainReads, Drain, FanLocks, FanSends, FanEnds,
       Routes, Escapes, Escaped, DrainSends, LoopAccepts, Loop, LoopReceives,
       LoopFilters, LoopLeaves, Forget, process, device, readers, BuffersOK
  <2> QED BY <1>2, <2>1, <2>2 DEF Proxy
<1>3. ASSUME NEW o \in Observer, Reads(o) PROVE BuffersOK'
  <2>1. UNCHANGED <<starts, written, kind>>
    BY <1>3 DEF Reads, process, device
  <2>2. ring' = ring \/ ring' = [ring EXCEPT ![Head(inbox[o])] = @ + 1]
    BY <1>3 DEF Reads
  <2>3. ring' \in [1..MaxLines -> Nat]
    BY <2>2 DEF BuffersOK
  <2> QED BY <2>1, <2>3 DEF BuffersOK
<1>4. ASSUME RecorderConnects \/ RecorderLeft PROVE BuffersOK'
  BY <1>4 DEF RecorderConnects, Connects, RecorderLeft, Closes, process,
     device, BuffersOK
<1>5. ASSUME NEW m \in Monitor, Connect(m) \/ MonitorEnds(m) PROVE BuffersOK'
  <2>1. CASE Connect(m)
    BY <2>1 DEF Connect, Connects, process, device, server, callers, BuffersOK
  <2>2. CASE MonitorEnds(m)
    BY <2>2 DEF MonitorEnds, Closes, process, device, fan, server, callers,
       BuffersOK
  <2> QED BY <1>5, <2>1, <2>2
<1>6. ASSUME NEW c \in Caller, Call(c) \/ Knocks(c) \/ Refused(c) \/ GivesUp(c) \/ Opens(c)
      PROVE  BuffersOK'
  BY <1>6 DEF Call, Knocks, Refused, Retries, GivesUp, Opens, process, device,
     readers, BuffersOK
<1>7. ASSUME NEW w \in Writer, Writes(w) \/ WriteEnds(w) PROVE BuffersOK'
  BY <1>7 DEF Writes, Ends, WriteEnds, process, device, readers, BuffersOK
<1>8. ASSUME NEW c \in Client, ClientEnds(c) PROVE BuffersOK'
  BY <1>8 DEF ClientEnds, Ends, process, device, readers, BuffersOK
<1>9. ASSUME UNCHANGED vars PROVE BuffersOK'
  BY <1>9 DEF vars, process, device, readers, BuffersOK
<1> QED
  BY <1>1, <1>2, <1>3, <1>4, <1>5, <1>6, <1>7, <1>8, <1>9
     DEF Next, Recording, Writing, Observer, Caller

LEMMA ServerTyped ==
    ASSUME ServerOK, tries \in [Caller -> Nat], [Next]_vars
    PROVE  ServerOK'
<1>1. ASSUME ProxyStarts \/ ProxyStops \/ DeviceSays PROVE ServerOK'
  <2>1. CASE ProxyStops
    BY <2>1, EmptySeq DEF ProxyStops, Resting, device, links, ServerOK,
       Caller, Knock
  <2>2. CASE ProxyStarts \/ DeviceSays
    BY <2>2 DEF ProxyStarts, DeviceSays, server, callers, ServerOK, Caller,
       Knock
  <2> QED BY <1>1, <2>1, <2>2
<1>2. ASSUME Proxy PROVE ServerOK'
  <2>1. CASE LoopAccepts
    BY <2>1, Left DEF LoopAccepts, Loop, process, fan, links, readers,
       ServerOK, Caller, Knock
  <2>2. CASE LoopReceives
    BY <2>2 DEF LoopReceives, Loop, PmTaken, process, fan, links, readers,
       ServerOK, Caller, Knock
  <2>3. CASE LoopFilters
    BY <2>3 DEF LoopFilters, Loop, process, fan, links, readers, ServerOK,
       Caller, Knock
  <2>4. CASE LoopWrites
    BY <2>4 DEF LoopWrites, Loop, Forget, process, fan, links, readers,
       ServerOK, Caller, Knock
  <2>5. CASE LoopLeaves
    BY <2>5 DEF LoopLeaves, Loop, Forget, process, fan, links, readers,
       ServerOK, Caller, Knock
  <2>6. CASE Accept \/ DrainReads \/ FanLocks \/ FanSends \/ FanEnds \/ Routes
     \/ Escapes \/ Escaped \/ DrainSends
    BY <2>6 DEF Accept, DrainReads, Drain, FanLocks, FanSends, FanEnds,
       Routes, Escapes, Escaped, DrainSends, server, callers, ServerOK,
       Caller, Knock
  <2> QED BY <1>2, <2>1, <2>2, <2>3, <2>4, <2>5, <2>6 DEF Proxy
<1>3. ASSUME NEW o \in Observer, Reads(o) PROVE ServerOK'
  BY <1>3 DEF Reads, server, callers, ServerOK, Caller, Knock
<1>4. ASSUME RecorderConnects \/ RecorderLeft PROVE ServerOK'
  BY <1>4 DEF RecorderConnects, Connects, RecorderLeft, Closes, server,
     callers, ServerOK, Caller, Knock
<1>5. ASSUME NEW m \in Monitor, Connect(m) \/ MonitorEnds(m) PROVE ServerOK'
  BY <1>5 DEF Connect, Connects, MonitorEnds, Closes, server, callers,
     ServerOK, Caller, Knock
<1>6. ASSUME NEW c \in Caller, Call(c) \/ Knocks(c) \/ Refused(c) \/ GivesUp(c) \/ Opens(c)
      PROVE  ServerOK'
  <2>1. CASE Knocks(c)
    BY <2>1, AppendProperties DEF Knocks, Mine, process, device, fan, links,
       readers, ServerOK, Caller, Knock
  <2>2. CASE Call(c) \/ Refused(c) \/ GivesUp(c) \/ Opens(c)
    BY <2>2 DEF Call, Refused, Retries, GivesUp, Opens, server, ServerOK,
       Caller, Knock
  <2> QED BY <1>6, <2>1, <2>2
<1>7. ASSUME NEW w \in Writer, Writes(w) \/ WriteEnds(w) PROVE ServerOK'
  <2>1. CASE Writes(w)
    BY <2>1 DEF Writes, Ends, Mine, process, device, fan, links, server,
       readers, Answered, Hangs, ServerOK, Caller, Knock
  <2>2. CASE WriteEnds(w)
    BY <2>2 DEF WriteEnds, Ends, server, ServerOK, Caller, Knock
  <2> QED BY <1>7, <2>1, <2>2
<1>8. ASSUME NEW c \in Client, ClientEnds(c) PROVE ServerOK'
  BY <1>8 DEF ClientEnds, Ends, server, ServerOK, Caller, Knock
<1>9. ASSUME UNCHANGED vars PROVE ServerOK'
  BY <1>9 DEF vars, server, callers, ServerOK, Caller, Knock
<1> QED
  BY <1>1, <1>2, <1>3, <1>4, <1>5, <1>6, <1>7, <1>8, <1>9
     DEF Next, Recording, Writing, Observer, Caller

LEMMA CallersTyped ==
    ASSUME CallersOK, [Next]_vars
    PROVE  CallersOK'
<1>1. ASSUME ProxyStarts \/ ProxyStops \/ DeviceSays PROVE CallersOK'
  <2>1. CASE ProxyStops
    BY <2>1 DEF ProxyStops, Resting, device, links, CallersOK, Caller, Knock
  <2>2. CASE ProxyStarts \/ DeviceSays
    BY <2>2 DEF ProxyStarts, DeviceSays, callers, CallersOK, Caller, Knock
  <2> QED BY <1>1, <2>1, <2>2
<1>2. ASSUME Proxy PROVE CallersOK'
  <2>1. CASE LoopWrites
    BY <2>1 DEF LoopWrites, Loop, Forget, process, fan, links, readers,
       CallersOK, Caller, Knock
  <2>2. CASE LoopLeaves
    BY <2>2 DEF LoopLeaves, Loop, Forget, process, fan, links, readers,
       CallersOK, Caller, Knock
  <2>3. CASE Accept \/ DrainReads \/ FanLocks \/ FanSends \/ FanEnds \/ Routes
     \/ Escapes \/ Escaped \/ DrainSends \/ LoopAccepts \/ LoopReceives \/
     LoopFilters
    BY <2>3 DEF Accept, DrainReads, Drain, FanLocks, FanSends, FanEnds,
       Routes, Escapes, Escaped, DrainSends, LoopAccepts, Loop, LoopReceives,
       LoopFilters, callers, CallersOK, Caller, Knock
  <2> QED BY <1>2, <2>1, <2>2, <2>3 DEF Proxy
<1>3. ASSUME NEW o \in Observer, Reads(o) PROVE CallersOK'
  BY <1>3 DEF Reads, callers, CallersOK, Caller, Knock
<1>4. ASSUME RecorderConnects \/ RecorderLeft PROVE CallersOK'
  BY <1>4 DEF RecorderConnects, Connects, RecorderLeft, Closes, callers,
     CallersOK, Caller, Knock
<1>5. ASSUME NEW m \in Monitor, Connect(m) \/ MonitorEnds(m) PROVE CallersOK'
  BY <1>5 DEF Connect, Connects, MonitorEnds, Closes, callers, CallersOK,
     Caller, Knock
<1>6. ASSUME NEW c \in Caller, Call(c) \/ Knocks(c) \/ Refused(c) \/ GivesUp(c) \/ Opens(c)
      PROVE  CallersOK'
  <2>1. CASE Call(c)
    BY <2>1 DEF Call, Answered, Attempts, process, device, fan, links, server,
       readers, CallersOK, Caller, Knock
  <2>2. CASE Knocks(c)
    BY <2>2 DEF Knocks, Mine, process, device, fan, links, readers, CallersOK,
       Caller, Knock
  <2>3. CASE Refused(c)
    <3>1. /\ client' \in {[client EXCEPT ![c] = "connect"], [client EXCEPT ![c] = "idle"]}
          /\ tries' \in {tries, [tries EXCEPT ![c] = @ + 1]}
          /\ answer' \in {answer, [answer EXCEPT ![c] = "error"]}
          /\ hung' \in {hung, hung \cup {Mine(c)}}
      BY <2>3 DEF Refused, Retries, Hangs, Answered, callers
    <3>2. Mine(c) \in Knock
      BY DEF CallersOK, Mine, Knock
    <3> QED BY <3>1, <3>2 DEF CallersOK
  <2>4. CASE GivesUp(c)
    <3>1. /\ client' \in {[client EXCEPT ![c] = "connect"], [client EXCEPT ![c] = "idle"]}
          /\ tries' \in {tries, [tries EXCEPT ![c] = @ + 1]}
          /\ answer' \in {answer, [answer EXCEPT ![c] = "error"]}
          /\ hung' \in {hung, hung \cup {Mine(c)}}
      BY <2>4 DEF GivesUp, Retries, Hangs, Answered, callers
    <3>2. Mine(c) \in Knock
      BY DEF CallersOK, Mine, Knock
    <3> QED BY <3>1, <3>2 DEF CallersOK
  <2>5. CASE Opens(c)
    BY <2>5 DEF Opens, Mine, process, device, fan, links, server, readers,
       CallersOK, Caller, Knock
  <2> QED BY <1>6, <2>1, <2>2, <2>3, <2>4, <2>5
<1>7. ASSUME NEW w \in Writer, Writes(w) \/ WriteEnds(w) PROVE CallersOK'
  <2>1. CASE Writes(w)
    BY <2>1 DEF Writes, Ends, Mine, process, device, fan, links, server,
       readers, Answered, Hangs, CallersOK, Caller, Knock
  <2>2. CASE WriteEnds(w)
    BY <2>2 DEF WriteEnds, Ends, Holds, Mine, Answered, Hangs, process,
       device, fan, links, server, readers, CallersOK, Caller, Knock
  <2> QED BY <1>7, <2>1, <2>2
<1>8. ASSUME NEW c \in Client, ClientEnds(c) PROVE CallersOK'
  BY <1>8 DEF ClientEnds, Ends, Answered, Hangs, process, device, fan, links,
     server, readers, Mine, CallersOK, Caller, Knock
<1>9. ASSUME UNCHANGED vars PROVE CallersOK'
  BY <1>9 DEF vars, callers, CallersOK, Caller, Knock
<1> QED
  BY <1>1, <1>2, <1>3, <1>4, <1>5, <1>6, <1>7, <1>8, <1>9
     DEF Next, Recording, Writing, Observer, Caller

\* The monitors' lock and the PortManager's, and who the proxy serves.
Locks ==
    /\ monitors_lock <=> drain.at = "sending"
    /\ drain.at = "escaping" <=> pm_lock = "drain"
    /\ loop = "filter" <=> pm_lock = "loop"
    /\ loop = "accept" <=> serving = None
    /\ control \in {serving, None}

Queue == IsInjective(waiting) /\ Range(waiting) \cap monitors = {}

\* Only a proxy that runs has anything.
LEMMA DownStep ==
    ASSUME Down, FlagsOK, [Next]_vars
    PROVE  Down'
<1> USE DEF Down, FlagsOK, Resting
<1>1. ASSUME ProxyStarts \/ ProxyStops \/ DeviceSays PROVE Down'
  <2>1. CASE ProxyStarts
    BY <2>1 DEF ProxyStarts, Resting, fan, links, server, callers
  <2>2. CASE ProxyStops
    BY <2>2 DEF ProxyStops, Resting, device, links
  <2>3. CASE DeviceSays
    BY <2>3 DEF DeviceSays, process, fan, server
  <2> QED BY <1>1, <2>1, <2>2, <2>3
<1>2. ASSUME Proxy PROVE Down'
  <2>1. CASE Accept
    BY <2>1 DEF Accept, process, device, links, server, readers, callers
  <2>2. CASE DrainReads
    BY <2>2 DEF DrainReads, Drain, fan, links, process, server, readers,
       callers
  <2>3. CASE FanLocks
    BY <2>3 DEF FanLocks, Drain, device, fan, links, process, server, readers,
       callers
  <2>4. CASE FanSends
    BY <2>4 DEF FanSends, Drain, After, device, process, server, readers,
       callers
  <2>5. CASE FanEnds
    BY <2>5 DEF FanEnds, Drain, device, links, process, server, readers,
       callers
  <2>6. CASE Routes
    BY <2>6 DEF Routes, Drain, Resting, device, fan, links, process, server,
       readers, callers
  <2>7. CASE Escapes
    BY <2>7 DEF Escapes, Drain, PmTaken, device, fan, links, process, server,
       readers, callers
  <2>8. CASE Escaped
    BY <2>8 DEF Escaped, Drain, device, fan, links, process, server, readers,
       callers
  <2>9. CASE DrainSends
    BY <2>9 DEF DrainSends, AfterFailure, Resting, process, device, fan,
       links, readers, callers
  <2>10. CASE LoopAccepts
    BY <2>10 DEF LoopAccepts, Loop, process, fan, links, readers
  <2>11. CASE LoopReceives
    BY <2>11 DEF LoopReceives, Loop, PmTaken, process, fan, links, readers
  <2>12. CASE LoopFilters
    BY <2>12 DEF LoopFilters, Loop, process, fan, links, readers
  <2>13. CASE LoopWrites
    BY <2>13 DEF LoopWrites, Loop, Forget, process, fan, links, readers
  <2>14. CASE LoopLeaves
    BY <2>14 DEF LoopLeaves, Loop, Forget, process, fan, links, readers
  <2> QED BY <1>2, <2>1, <2>2, <2>3, <2>4, <2>5, <2>6, <2>7, <2>8, <2>9,
     <2>10, <2>11, <2>12, <2>13, <2>14 DEF Proxy
<1>3. ASSUME NEW o \in Observer, Reads(o) PROVE Down'
  BY <1>3 DEF Reads, process, fan, server
<1>4. ASSUME RecorderConnects \/ RecorderLeft PROVE Down'
  <2>1. CASE RecorderConnects
    BY <2>1 DEF RecorderConnects, Connects, process, device, server, callers
  <2>2. CASE RecorderLeft
    BY <2>2 DEF RecorderLeft, Closes, process, fan, server
  <2> QED BY <1>4, <2>1, <2>2
<1>5. ASSUME NEW m \in Monitor, Connect(m) \/ MonitorEnds(m) PROVE Down'
  <2>1. CASE Connect(m)
    BY <2>1 DEF Connect, Connects, process, device, server, callers
  <2>2. CASE MonitorEnds(m)
    BY <2>2 DEF MonitorEnds, Closes, process, fan, server
  <2> QED BY <1>5, <2>1, <2>2
<1>6. ASSUME NEW c \in Caller, Call(c) \/ Knocks(c) \/ Refused(c) \/ GivesUp(c) \/ Opens(c)
      PROVE  Down'
  <2>1. CASE Knocks(c)
    BY <2>1 DEF Knocks, Mine, process, device, fan, links, readers
  <2>2. CASE Call(c) \/ Refused(c) \/ GivesUp(c) \/ Opens(c)
    BY <2>2 DEF Call, Refused, Retries, GivesUp, Opens, process, fan, server
  <2> QED BY <1>6, <2>1, <2>2
<1>7. ASSUME NEW w \in Writer, Writes(w) \/ WriteEnds(w) PROVE Down'
  BY <1>7 DEF Writes, Ends, WriteEnds, process, fan, server
<1>8. ASSUME NEW c \in Client, ClientEnds(c) PROVE Down'
  BY <1>8 DEF ClientEnds, Ends, process, fan, server
<1>9. ASSUME UNCHANGED vars PROVE Down'
  BY <1>9 DEF vars, process, fan, server
<1> QED
  BY <1>1, <1>2, <1>3, <1>4, <1>5, <1>6, <1>7, <1>8, <1>9
     DEF Next, Recording, Writing, Observer, Caller

\* A lock is taken and left with the step that says so.
LEMMA LocksStep ==
    ASSUME Locks, Down, FlagsOK, DrainOK, ServerOK, [Next]_vars
    PROVE  Locks'
<1>1. ASSUME ProxyStarts \/ ProxyStops \/ DeviceSays PROVE Locks'
  <2>1. CASE ProxyStarts
    BY <2>1 DEF ProxyStarts, Resting, fan, links, server, callers, Locks,
       Down, FlagsOK, DrainOK, Resting
  <2>2. CASE ProxyStops
    BY <2>2 DEF ProxyStops, Resting, device, links, Locks, Down, FlagsOK,
       DrainOK, Resting
  <2>3. CASE DeviceSays
    BY <2>3 DEF DeviceSays, fan, server, Locks, Down, FlagsOK, DrainOK,
       Resting
  <2> QED BY <1>1, <2>1, <2>2, <2>3
<1>2. ASSUME Proxy PROVE Locks'
  <2>1. CASE DrainReads
    BY <2>1 DEF DrainReads, Drain, fan, links, process, server, readers,
       callers, Locks, Down, FlagsOK, DrainOK, Resting
  <2>2. CASE FanLocks
    BY <2>2 DEF FanLocks, Drain, device, fan, links, process, server, readers,
       callers, Locks, Down, FlagsOK, DrainOK, Resting
  <2>3. CASE FanSends
    BY <2>3 DEF FanSends, Drain, After, device, process, server, readers,
       callers, Locks, Down, FlagsOK, DrainOK, Resting
  <2>4. CASE FanEnds
    BY <2>4 DEF FanEnds, Drain, device, links, process, server, readers,
       callers, Locks, Down, FlagsOK, DrainOK, Resting
  <2>5. CASE Routes
    BY <2>5 DEF Routes, Drain, Resting, device, fan, links, process, server,
       readers, callers, Locks, Down, FlagsOK, DrainOK, Resting
  <2>6. CASE Escapes
    BY <2>6 DEF Escapes, Drain, PmTaken, device, fan, links, process, server,
       readers, callers, Locks, Down, FlagsOK, DrainOK, Resting
  <2>7. CASE Escaped
    BY <2>7 DEF Escaped, Drain, device, fan, links, process, server, readers,
       callers, Locks, Down, FlagsOK, DrainOK, Resting
  <2>8. CASE DrainSends
    BY <2>8 DEF DrainSends, AfterFailure, Resting, process, device, fan,
       links, readers, callers, Locks, Down, FlagsOK, DrainOK, Resting
  <2>9. CASE LoopAccepts
    <3>1. Head(knocking) \in Knock
      BY <2>9, Left DEF LoopAccepts, ServerOK
    <3>2. Head(knocking) # None
      BY <3>1, NoneAssumption
    <3>3. /\ serving' = Head(knocking) /\ control' = Head(knocking) /\ loop' = "recv"
          /\ loop = "accept" /\ UNCHANGED <<drain, pm_lock, monitors_lock>>
      BY <2>9 DEF LoopAccepts, Loop, fan
    <3> QED BY <3>2, <3>3 DEF Locks
  <2>10. CASE LoopReceives
    BY <2>10 DEF LoopReceives, Loop, PmTaken, process, fan, links, readers,
       Locks, Down, FlagsOK, DrainOK, Resting
  <2>11. CASE LoopFilters
    BY <2>11 DEF LoopFilters, Loop, process, fan, links, readers, Locks, Down,
       FlagsOK, DrainOK, Resting
  <2>12. CASE LoopWrites
    BY <2>12 DEF LoopWrites, Loop, Forget, process, fan, links, readers,
       Locks, Down, FlagsOK, DrainOK, Resting
  <2>13. CASE LoopLeaves
    BY <2>13 DEF LoopLeaves, Loop, Forget, process, fan, links, readers,
       Locks, Down, FlagsOK, DrainOK, Resting
  <2>14. CASE Accept
    BY <2>14 DEF Accept, server, Locks, Down, FlagsOK, DrainOK, Resting
  <2> QED BY <1>2, <2>1, <2>2, <2>3, <2>4, <2>5, <2>6, <2>7, <2>8, <2>9,
     <2>10, <2>11, <2>12, <2>13, <2>14 DEF Proxy
<1>3. ASSUME NEW o \in Observer, Reads(o) PROVE Locks'
  BY <1>3 DEF Reads, fan, server, Locks, Down, FlagsOK, DrainOK, Resting
<1>4. ASSUME RecorderConnects \/ RecorderLeft PROVE Locks'
  BY <1>4 DEF RecorderConnects, Connects, RecorderLeft, Closes, fan, server,
     Locks, Down, FlagsOK, DrainOK, Resting
<1>5. ASSUME NEW m \in Monitor, Connect(m) \/ MonitorEnds(m) PROVE Locks'
  BY <1>5 DEF Connect, Connects, MonitorEnds, Closes, fan, server, Locks,
     Down, FlagsOK, DrainOK, Resting
<1>6. ASSUME NEW c \in Caller, Call(c) \/ Knocks(c) \/ Refused(c) \/ GivesUp(c) \/ Opens(c)
      PROVE  Locks'
  BY <1>6 DEF Call, Knocks, Refused, Retries, GivesUp, Opens, fan, server,
     Locks, Down, FlagsOK, DrainOK, Resting
<1>7. ASSUME NEW w \in Writer, Writes(w) \/ WriteEnds(w) PROVE Locks'
  BY <1>7 DEF Writes, Ends, WriteEnds, fan, server, Locks, Down, FlagsOK,
     DrainOK, Resting
<1>8. ASSUME NEW c \in Client, ClientEnds(c) PROVE Locks'
  BY <1>8 DEF ClientEnds, Ends, fan, server, Locks, Down, FlagsOK, DrainOK,
     Resting
<1>9. ASSUME UNCHANGED vars PROVE Locks'
  BY <1>9 DEF vars, fan, server, Locks, Down, FlagsOK, DrainOK, Resting
<1> QED
  BY <1>1, <1>2, <1>3, <1>4, <1>5, <1>6, <1>7, <1>8, <1>9
     DEF Next, Recording, Writing, Observer, Caller

\* The list of readers changes only while fan_out does not hold its lock.
LEMMA SendingStep ==
    ASSUME Sending, Locks, Down, FlagsOK, DrainOK, [Next]_vars
    PROVE  Sending'
<1>1. ASSUME ProxyStarts \/ ProxyStops \/ DeviceSays PROVE Sending'
  <2>1. CASE ProxyStarts
    BY <2>1 DEF ProxyStarts, Resting, fan, links, server, callers, Sending,
       Locks, Down, DrainOK, Resting
  <2>2. CASE ProxyStops
    BY <2>2 DEF ProxyStops, Resting, device, links, Sending, Locks, Down,
       DrainOK, Resting
  <2>3. CASE DeviceSays
    BY <2>3 DEF DeviceSays, process, fan, links, server, readers, callers,
       Sending, Locks, Down, DrainOK, Resting
  <2> QED BY <1>1, <2>1, <2>2, <2>3
<1>2. ASSUME Proxy PROVE Sending'
  <2>1. CASE Accept
    BY <2>1 DEF Accept, process, device, links, server, readers, callers,
       Sending, Locks, Down, DrainOK, Resting
  <2>2. CASE DrainReads
    BY <2>2 DEF DrainReads, Drain, fan, links, process, server, readers,
       callers, Sending, Locks, Down, DrainOK, Resting
  <2>3. CASE FanLocks
    BY <2>3 DEF FanLocks, Drain, device, fan, links, process, server, readers,
       callers, Sending, Locks, Down, DrainOK, Resting
  <2>4. CASE FanSends
    BY <2>4 DEF FanSends, Drain, After, device, process, server, readers,
       callers, Sending, Locks, Down, DrainOK, Resting
  <2>5. CASE FanEnds
    BY <2>5 DEF FanEnds, Drain, device, links, process, server, readers,
       callers, Sending, Locks, Down, DrainOK, Resting
  <2>6. CASE Routes
    BY <2>6 DEF Routes, Drain, Resting, device, fan, links, process, server,
       readers, callers, Sending, Locks, Down, DrainOK, Resting
  <2>7. CASE Escapes
    BY <2>7 DEF Escapes, Drain, PmTaken, device, fan, links, process, server,
       readers, callers, Sending, Locks, Down, DrainOK, Resting
  <2>8. CASE Escaped
    BY <2>8 DEF Escaped, Drain, device, fan, links, process, server, readers,
       callers, Sending, Locks, Down, DrainOK, Resting
  <2>9. CASE DrainSends
    BY <2>9 DEF DrainSends, AfterFailure, Resting, process, device, fan,
       links, readers, callers, Sending, Locks, Down, DrainOK, Resting
  <2>10. CASE LoopAccepts \/ LoopReceives \/ LoopFilters \/ LoopWrites \/
     LoopLeaves
    BY <2>10 DEF LoopAccepts, Loop, LoopReceives, LoopFilters, LoopWrites,
       Forget, LoopLeaves, fan, Sending, Locks, Down, DrainOK, Resting
  <2> QED BY <1>2, <2>1, <2>2, <2>3, <2>4, <2>5, <2>6, <2>7, <2>8, <2>9, <2>10
     DEF Proxy
<1>3. ASSUME NEW o \in Observer, Reads(o) PROVE Sending'
  BY <1>3 DEF Reads, device, fan, Sending, Locks, Down, DrainOK, Resting
<1>4. ASSUME RecorderConnects \/ RecorderLeft PROVE Sending'
  BY <1>4 DEF RecorderConnects, Connects, RecorderLeft, Closes, device, fan,
     Sending, Locks, Down, DrainOK, Resting
<1>5. ASSUME NEW m \in Monitor, Connect(m) \/ MonitorEnds(m) PROVE Sending'
  BY <1>5 DEF Connect, Connects, MonitorEnds, Closes, device, fan, Sending,
     Locks, Down, DrainOK, Resting
<1>6. ASSUME NEW c \in Caller, Call(c) \/ Knocks(c) \/ Refused(c) \/ GivesUp(c) \/ Opens(c)
      PROVE  Sending'
  BY <1>6 DEF Call, Knocks, Refused, Retries, GivesUp, Opens, device, fan,
     Sending, Locks, Down, DrainOK, Resting
<1>7. ASSUME NEW w \in Writer, Writes(w) \/ WriteEnds(w) PROVE Sending'
  BY <1>7 DEF Writes, Ends, WriteEnds, device, fan, Sending, Locks, Down,
     DrainOK, Resting
<1>8. ASSUME NEW c \in Client, ClientEnds(c) PROVE Sending'
  BY <1>8 DEF ClientEnds, Ends, device, fan, Sending, Locks, Down, DrainOK,
     Resting
<1>9. ASSUME UNCHANGED vars PROVE Sending'
  BY <1>9 DEF vars, device, fan, Sending, Locks, Down, DrainOK, Resting
<1> QED
  BY <1>1, <1>2, <1>3, <1>4, <1>5, <1>6, <1>7, <1>8, <1>9
     DEF Next, Recording, Writing, Observer, Caller

\* A reader joins the queue once, and leaves it for the list.
LEMMA QueueStep ==
    ASSUME Queue, FanOK, [Next]_vars
    PROVE  Queue'
<1>0. /\ IsInjective(<<>>) /\ Range(<<>>) = {}
      /\ Recorder \in Observer /\ Monitor \subseteq Observer
  BY DEF IsInjective, Range, Observer
<1>1. ASSUME ProxyStarts \/ ProxyStops \/ DeviceSays PROVE Queue'
  <2>1. CASE ProxyStops
    BY <2>1, <1>0 DEF ProxyStops, Resting, device, links, Queue, FanOK
  <2>2. CASE ProxyStarts \/ DeviceSays
    BY <2>2 DEF ProxyStarts, DeviceSays, fan, Queue, FanOK
  <2> QED BY <1>1, <2>1, <2>2
<1>2. ASSUME Proxy PROVE Queue'
  <2>1. CASE Accept
    BY <2>1, Left DEF Accept, process, device, links, server, readers,
       callers, Queue, FanOK
  <2>2. CASE FanEnds
    BY <2>2 DEF FanEnds, Drain, device, links, process, server, readers,
       callers, Queue, FanOK
  <2>3. CASE DrainReads \/ FanLocks \/ FanSends \/ Routes \/ Escapes \/
     Escaped \/ DrainSends \/ LoopAccepts \/ LoopReceives \/ LoopFilters \/
     LoopWrites \/ LoopLeaves
    BY <2>3 DEF DrainReads, Drain, FanLocks, FanSends, Routes, Escapes,
       Escaped, DrainSends, LoopAccepts, Loop, LoopReceives, LoopFilters,
       LoopWrites, Forget, LoopLeaves, fan, Queue, FanOK
  <2> QED BY <1>2, <2>1, <2>2, <2>3 DEF Proxy
<1>3. ASSUME NEW o \in Observer, Reads(o) PROVE Queue'
  BY <1>3 DEF Reads, fan, Queue, FanOK
<1>4. ASSUME RecorderConnects \/ RecorderLeft PROVE Queue'
  <2>1. CASE RecorderConnects
    BY <2>1, Joined, <1>0 DEF RecorderConnects, Connects, process, device,
       server, callers, Queue, FanOK
  <2>2. CASE RecorderLeft
    BY <2>2 DEF RecorderLeft, Closes, fan, Queue, FanOK
  <2> QED BY <1>4, <2>1, <2>2
<1>5. ASSUME NEW m \in Monitor, Connect(m) \/ MonitorEnds(m) PROVE Queue'
  <2>1. CASE Connect(m)
    BY <2>1, Joined, <1>0 DEF Connect, Connects, process, device, server,
       callers, Queue, FanOK
  <2>2. CASE MonitorEnds(m)
    BY <2>2 DEF MonitorEnds, Closes, fan, Queue, FanOK
  <2> QED BY <1>5, <2>1, <2>2
<1>6. ASSUME NEW c \in Caller, Call(c) \/ Knocks(c) \/ Refused(c) \/ GivesUp(c) \/ Opens(c)
      PROVE  Queue'
  BY <1>6 DEF Call, Knocks, Refused, Retries, GivesUp, Opens, fan, Queue,
     FanOK
<1>7. ASSUME NEW w \in Writer, Writes(w) \/ WriteEnds(w) PROVE Queue'
  BY <1>7 DEF Writes, Ends, WriteEnds, fan, Queue, FanOK
<1>8. ASSUME NEW c \in Client, ClientEnds(c) PROVE Queue'
  BY <1>8 DEF ClientEnds, Ends, fan, Queue, FanOK
<1>9. ASSUME UNCHANGED vars PROVE Queue'
  BY <1>9 DEF vars, fan, Queue, FanOK
<1> QED
  BY <1>1, <1>2, <1>3, <1>4, <1>5, <1>6, <1>7, <1>8, <1>9
     DEF Next, Recording, Writing, Observer, Caller

\* The inductive invariant: PortInv, with what makes it so.
PortIInv ==
    /\ FlagsOK /\ DrainOK /\ FanOK /\ StreamsOK /\ BuffersOK /\ ServerOK /\ CallersOK
    /\ Down /\ Locks /\ Sending /\ Queue

\* It holds in every reachable state.
LEMMA PortIInvariant == Spec => []PortIInv
<1>1. Init => PortIInv
  <2> SUFFICES ASSUME Init PROVE PortIInv
    OBVIOUS
  <2>1. FlagsOK /\ CallersOK /\ ServerOK /\ FanOK
    BY EmptySeq DEF Init, FlagsOK, CallersOK, ServerOK, FanOK, Observer, Caller
  <2>2. DrainOK
    <3>1. said \in 0..MaxLines /\ taken \in 0..said /\ 0 \in 0..said
      BY BoundAssumption DEF Init
    <3> QED BY <3>1 DEF Init, DrainOK, Resting
  <2>3. StreamsOK
    BY EmptySeq DEF Init, StreamsOK
  <2>4. BuffersOK
    <3>1. IsABag(EmptyBag)
      BY DEF IsABag, EmptyBag, SetToBag
    <3>2. (CHOOSE k \in Kinds : TRUE) \in Kinds
      BY KindsAssumption
    <3>3. starts \in 0..MaxStarts /\ written = EmptyBag
      BY BoundAssumption DEF Init
    <3>4. kind \in [Monitor -> Kinds] /\ ring \in [1..MaxLines -> Nat]
      BY <3>2 DEF Init
    <3> QED BY <3>1, <3>3, <3>4 DEF BuffersOK
  <2>5. Down /\ Locks /\ Sending
    BY DEF Init, Down, Locks, Sending, Resting
  <2>6. Queue
    BY DEF Init, Queue, IsInjective, Range
  <2> QED BY <2>1, <2>2, <2>3, <2>4, <2>5, <2>6 DEF PortIInv
<1>2. PortIInv /\ [Next]_vars => PortIInv'
  <2> SUFFICES ASSUME PortIInv, [Next]_vars PROVE PortIInv'
    OBVIOUS
  <2>1. /\ monitors \subseteq Observer /\ drain.todo \subseteq Observer
        /\ knocking \in Seq(Knock) /\ tries \in [Caller -> Nat]
    BY DEF PortIInv, FanOK, DrainOK, ServerOK, CallersOK
  <2>2. drain.at = "sending" => drain.line \in 1..said
    BY DEF PortIInv, DrainOK, StreamsOK, Sending
  <2>3. FlagsOK' /\ DrainOK' /\ FanOK' /\ StreamsOK' /\ BuffersOK' /\ ServerOK' /\ CallersOK'
    BY <2>1, <2>2, FlagsStep, DrainTyped, FanTyped, StreamsTyped, BuffersTyped,
       ServerTyped, CallersTyped DEF PortIInv
  <2>4. Down' /\ Locks' /\ Sending' /\ Queue'
    BY DownStep, LocksStep, SendingStep, QueueStep DEF PortIInv
  <2> QED BY <2>3, <2>4 DEF PortIInv
<1> QED BY <1>1, <1>2, PTL DEF Spec

\* monitors_lock is held exactly while fan_out sends, pm_lock by one thread at a
\* time, and the drain sends to the client being served or to none, whoever
\* comes, goes or restarts the proxy (plain_rfc2217_server.py).
THEOREM PortInvariant == Spec => []PortInv
<1>1. PortIInv => PortInv
  <2> SUFFICES ASSUME PortIInv PROVE PortInv
    OBVIOUS
  <2>1. TypeOK
    BY DEF PortIInv, TypeOK, FlagsOK, DrainOK, FanOK, StreamsOK, BuffersOK, ServerOK, CallersOK
  <2> QED BY <2>1 DEF PortIInv, PortInv, Locks, Queue
<1> QED BY <1>1, PortIInvariant, PTL

-----------------------------------------------------------------------------
(* What the readers get. *)

\* A connection that is closed, or not accepted yet, has brought nothing.
Fresh ==
    \A o \in Observer :
        ~live[o] \/ o \in Range(waiting) => got[o] = <<>> /\ inbox[o] = <<>>

\* What the steps below use of the inductive invariant.
Sendable ==
    FlagsOK /\ DrainOK /\ FanOK /\ StreamsOK /\ Down /\ Locks /\ Sending /\ Queue

\* Nothing read or sent is no line.
LEMMA NothingYet ==
    ASSUME Fresh, NEW o \in Observer, ~live[o] \/ o \in Range(waiting)
    PROVE  Stream(o) = <<>>
<1>1. got[o] = <<>> /\ inbox[o] = <<>>
  BY DEF Fresh
<1>2. <<>> \in Seq(Nat) /\ <<>> \o <<>> = <<>>
  BY EmptySeq, ConcatEmptySeq
<1> QED BY <1>1, <1>2 DEF Stream

\* A step that leaves the streams alone, or empties some, keeps them in order,
\* as long as it neither lets a reader in nor counts a line as sent.
LEMMA StreamsKept ==
    ASSUME InOrder, Fresh,
           \A o \in Observer : Stream(o)' = Stream(o) \/ Stream(o)' = <<>>,
           \A o \in monitors' : live'[o] /\ Stream(o)' # <<>> =>
               o \in monitors /\ live[o] /\ Stream(o)' = Stream(o) /\ Sent(o)' = Sent(o)
    PROVE  InOrder'
<1> SUFFICES ASSUME NEW o \in Observer
             PROVE  LET s == Stream(o)' IN
                    /\ \A i \in 1..(Len(s) - 1) : s[i + 1] = s[i] + 1
                    /\ o \in monitors' /\ live'[o] /\ s # <<>> => s[Len(s)] = Sent(o)'
  BY DEF InOrder
<1>1. CASE Stream(o)' = <<>>
  <2>1. Len(<<>>) = 0 /\ 1..(0 - 1) = {}
    BY EmptySeq
  <2> QED BY <1>1, <2>1
<1>2. CASE Stream(o)' = Stream(o) /\ Stream(o)' # <<>>
  BY <1>2 DEF InOrder
<1> QED BY <1>1, <1>2

\* The same when no stream changes.
LEMMA SentKept ==
    ASSUME Sendable, InOrder, Fresh, UNCHANGED <<got, inbox, live>>,
           monitors' \subseteq monitors, \A o \in monitors' : Sent(o)' = Sent(o)
    PROVE  InOrder'
<1>1. \A o \in Observer : Stream(o)' = Stream(o)
  BY DEF Stream
<1>2. \A o \in monitors' : o \in monitors /\ o \in Observer
  BY DEF Sendable, FanOK
<1> QED BY <1>1, <1>2, StreamsKept

LEMMA StreamsStay ==
    ASSUME Sendable, InOrder, Fresh, UNCHANGED <<got, inbox, live, monitors, drain, taken>>
    PROVE  InOrder'
<1>1. \A o \in monitors' : Sent(o)' = Sent(o)
  BY DEF Sent
<1> QED BY <1>1, SentKept

\* The same when one reader begins or ends.
LEMMA StreamEnds ==
    ASSUME Sendable, InOrder, Fresh, NEW o \in Observer,
           got' = [got EXCEPT ![o] = <<>>], inbox' = [inbox EXCEPT ![o] = <<>>],
           live' \in {[live EXCEPT ![o] = TRUE], [live EXCEPT ![o] = FALSE]},
           UNCHANGED <<monitors, drain, taken>>
    PROVE  InOrder'
<1>1. got'[o] = <<>> /\ inbox'[o] = <<>>
  BY DEF Sendable, StreamsOK
<1>2. <<>> \in Seq(Nat) /\ <<>> \o <<>> = <<>>
  BY EmptySeq, ConcatEmptySeq
<1>3. Stream(o)' = <<>>
  BY <1>1, <1>2 DEF Stream
<1>4. \A p \in Observer : p # o => Stream(p)' = Stream(p)
  BY DEF Stream, Sendable, StreamsOK
<1>5. \A p \in Observer : Sent(p)' = Sent(p) /\ (p # o => live'[p] = live[p])
  BY DEF Sent, Sendable, FlagsOK
<1> QED BY <1>3, <1>4, <1>5, StreamsKept DEF Sendable, FanOK

\* The next line after lines in order leaves lines in order.
LEMMA NextLine ==
    ASSUME NEW n \in Nat, NEW s \in Seq(1..n), NEW x \in 1..n,
           \A i \in 1..(Len(s) - 1) : s[i + 1] = s[i] + 1,
           s # <<>> => s[Len(s)] = x - 1
    PROVE  LET t == Append(s, x) IN
           /\ \A i \in 1..(Len(t) - 1) : t[i + 1] = t[i] + 1
           /\ t[Len(t)] = x
<1> DEFINE t == Append(s, x)
<1>1. /\ Len(s) \in Nat /\ Len(t) = Len(s) + 1 /\ t[Len(s) + 1] = x
      /\ \A i \in 1..Len(s) : t[i] = s[i]
  BY LenProperties, AppendProperties
<1>2. s = <<>> \/ Len(s) # 0
  BY EmptySeq
<1> HIDE DEF t
<1>3. ASSUME NEW i \in 1..(Len(t) - 1) PROVE t[i + 1] = t[i] + 1
  <2>1. i \in 1..Len(s) /\ s # <<>>
    BY <1>1, EmptySeq
  <2>2. CASE i = Len(s)
    BY <1>1, <2>1, <2>2
  <2>3. CASE i # Len(s)
    <3>1. i \in 1..(Len(s) - 1) /\ i + 1 \in 1..Len(s)
      BY <1>1, <2>1, <2>3
    <3> QED BY <1>1, <2>1, <3>1
  <2> QED BY <2>2, <2>3
<1> QED BY <1>1, <1>3 DEF t

\* A connection starts empty, and so it is left.
LEMMA FreshStep ==
    ASSUME Fresh, Sendable, [Next]_vars
    PROVE  Fresh'
<1>0. Range(<<>>) = {} /\ Recorder \in Observer /\ Monitor \subseteq Observer
  BY DEF Range, Observer
<1>1. ASSUME ProxyStarts \/ ProxyStops \/ DeviceSays PROVE Fresh'
  <2>1. CASE ProxyStops
    BY <2>1, <1>0 DEF ProxyStops, Resting, device, links, Fresh, Sendable,
       FlagsOK, FanOK, StreamsOK
  <2>2. CASE ProxyStarts \/ DeviceSays
    BY <2>2 DEF ProxyStarts, DeviceSays, fan, links, readers, Fresh, Sendable,
       FlagsOK, FanOK, StreamsOK
  <2> QED BY <1>1, <2>1, <2>2
<1>2. ASSUME Proxy PROVE Fresh'
  <2>1. CASE Accept
    BY <2>1, Left DEF Accept, process, device, links, server, readers,
       callers, Fresh, Sendable, FlagsOK, FanOK, StreamsOK
  <2>2. CASE FanSends
    <3>1. got' = got /\ live' = live /\ waiting' = waiting
      BY <2>2 DEF FanSends, Drain, readers
    <3>2. CASE inbox' = inbox
      BY <3>1, <3>2 DEF Fresh
    <3>3. CASE inbox' # inbox
      <4>1. PICK o \in drain.todo :
               live[o] /\ inbox' = [inbox EXCEPT ![o] = Append(@, drain.line)]
        BY <2>2, <3>3 DEF FanSends
      <4>2. o \notin Range(waiting)
        BY <4>1 DEF Sendable, Sending, Queue
      <4> QED BY <3>1, <4>1, <4>2 DEF Fresh, Sendable, StreamsOK
    <3> QED BY <3>2, <3>3
  <2>3. CASE DrainReads \/ FanLocks \/ FanEnds \/ Routes \/ Escapes \/ Escaped
     \/ DrainSends \/ LoopAccepts \/ LoopReceives \/ LoopFilters \/ LoopWrites
     \/ LoopLeaves
    BY <2>3 DEF DrainReads, Drain, FanLocks, FanEnds, Routes, Escapes,
       Escaped, DrainSends, LoopAccepts, Loop, LoopReceives, LoopFilters,
       LoopWrites, Forget, LoopLeaves, fan, links, readers, Fresh, Sendable,
       FlagsOK, FanOK, StreamsOK
  <2> QED BY <1>2, <2>1, <2>2, <2>3 DEF Proxy
<1>3. ASSUME NEW o \in Observer, Reads(o) PROVE Fresh'
  BY <1>3 DEF Reads, Records, process, device, fan, server, callers, Fresh,
     Sendable, FlagsOK, FanOK, StreamsOK
<1>4. ASSUME RecorderConnects \/ RecorderLeft PROVE Fresh'
  <2>1. CASE RecorderConnects
    BY <2>1, Joined, <1>0 DEF RecorderConnects, Connects, process, device,
       server, callers, Fresh, Sendable, FlagsOK, FanOK, StreamsOK
  <2>2. CASE RecorderLeft
    BY <2>2, <1>0 DEF RecorderLeft, Closes, AfterEof, process, device, fan,
       server, callers, Fresh, Sendable, FlagsOK, FanOK, StreamsOK
  <2> QED BY <1>4, <2>1, <2>2
<1>5. ASSUME NEW m \in Monitor, Connect(m) \/ MonitorEnds(m) PROVE Fresh'
  <2>1. CASE Connect(m)
    BY <2>1, Joined, <1>0 DEF Connect, Connects, process, device, server,
       callers, Fresh, Sendable, FlagsOK, FanOK, StreamsOK
  <2>2. CASE MonitorEnds(m)
    BY <2>2, <1>0 DEF MonitorEnds, Closes, process, device, fan, server,
       callers, Fresh, Sendable, FlagsOK, FanOK, StreamsOK
  <2> QED BY <1>5, <2>1, <2>2
<1>6. ASSUME NEW c \in Caller, Call(c) \/ Knocks(c) \/ Refused(c) \/ GivesUp(c) \/ Opens(c)
      PROVE  Fresh'
  BY <1>6 DEF Call, Knocks, Refused, Retries, GivesUp, Opens, fan, links,
     readers, Fresh, Sendable, FlagsOK, FanOK, StreamsOK
<1>7. ASSUME NEW w \in Writer, Writes(w) \/ WriteEnds(w) PROVE Fresh'
  BY <1>7 DEF Writes, Ends, WriteEnds, fan, links, readers, Fresh, Sendable,
     FlagsOK, FanOK, StreamsOK
<1>8. ASSUME NEW c \in Client, ClientEnds(c) PROVE Fresh'
  BY <1>8 DEF ClientEnds, Ends, fan, links, readers, Fresh, Sendable, FlagsOK,
     FanOK, StreamsOK
<1>9. ASSUME UNCHANGED vars PROVE Fresh'
  BY <1>9 DEF vars, fan, links, readers, Fresh, Sendable, FlagsOK, FanOK,
     StreamsOK
<1> QED
  BY <1>1, <1>2, <1>3, <1>4, <1>5, <1>6, <1>7, <1>8, <1>9
     DEF Next, Recording, Writing, Observer, Caller

\* A line goes to a reader after the one before it.
LEMMA OrderStep ==
    ASSUME InOrder, Fresh, Sendable, [Next]_vars
    PROVE  InOrder'
<1>1. ASSUME ProxyStarts \/ ProxyStops \/ DeviceSays PROVE InOrder'
  <2>1. CASE ProxyStarts
    <3>1. UNCHANGED <<got, inbox, live>> /\ monitors' \subseteq monitors
      BY <2>1 DEF ProxyStarts, Resting, fan, links, server, callers
    <3>2. \A o \in monitors' : Sent(o)' = Sent(o)
      BY <2>1 DEF ProxyStarts, Resting, fan, links, server, callers, Sent,
         Sending, Sendable, DrainOK, Down
    <3> QED BY <3>1, <3>2, SentKept
  <2>2. CASE ProxyStops
    <3>1. UNCHANGED <<got, inbox, live>> /\ monitors' \subseteq monitors
      BY <2>2 DEF ProxyStops, Resting, device, links
    <3>2. \A o \in monitors' : Sent(o)' = Sent(o)
      BY <2>2 DEF ProxyStops, Resting, device, links, Sent, Sending, Sendable,
         DrainOK, Down
    <3> QED BY <3>1, <3>2, SentKept
  <2>3. CASE DeviceSays
    <3>1. UNCHANGED <<got, inbox, live>> /\ monitors' \subseteq monitors
      BY <2>3 DEF DeviceSays, process, fan, links, server, readers, callers
    <3>2. \A o \in monitors' : Sent(o)' = Sent(o)
      BY <2>3 DEF DeviceSays, process, fan, links, server, readers, callers,
         Resting, Sent, Sending, Sendable, DrainOK, Down
    <3> QED BY <3>1, <3>2, SentKept
  <2> QED BY <1>1, <2>1, <2>2, <2>3
<1>2. ASSUME Proxy PROVE InOrder'
  <2>1. CASE Accept
    <3>1. UNCHANGED <<got, inbox, live, drain, taken>>
      BY <2>1 DEF Accept, links, readers, device
    <3>2. monitors' = monitors \cup {Head(waiting)} /\ Head(waiting) \in Range(waiting)
      BY <2>1, Left DEF Accept, Sendable, FanOK
    <3>3. Head(waiting) \in Observer
      BY <2>1, Left DEF Accept, Sendable, FanOK
    <3>4. Stream(Head(waiting)) = <<>>
      BY <3>2, <3>3, NothingYet
    <3>5. \A o \in Observer : Stream(o)' = Stream(o) /\ Sent(o)' = Sent(o)
      BY <3>1 DEF Stream, Sent
    <3>6. \A o \in monitors' : o \in Observer
      BY <3>2, <3>3 DEF Sendable, FanOK
    <3>7. \A o \in monitors' : live'[o] /\ Stream(o)' # <<>> =>
              o \in monitors /\ live[o] /\ Stream(o)' = Stream(o) /\ Sent(o)' = Sent(o)
      BY <3>1, <3>2, <3>4, <3>5, <3>6
    <3> QED BY <3>5, <3>7, StreamsKept
  <2>2. CASE DrainReads
    <3>1. UNCHANGED <<got, inbox, live>> /\ monitors' \subseteq monitors
      BY <2>2 DEF DrainReads, Drain, fan, links, process, server, readers,
         callers
    <3>2. \A o \in monitors' : Sent(o)' = Sent(o)
      BY <2>2 DEF DrainReads, Drain, fan, links, process, server, readers,
         callers, Resting, Sent, Sending, Sendable, DrainOK, Down
    <3> QED BY <3>1, <3>2, SentKept
  <2>3. CASE FanLocks
    <3>1. UNCHANGED <<got, inbox, live>> /\ monitors' \subseteq monitors
      BY <2>3 DEF FanLocks, Drain, device, fan, links, process, server, readers,
         callers
    <3>2. \A o \in monitors' : Sent(o)' = Sent(o)
      BY <2>3 DEF FanLocks, Drain, device, fan, links, process, server, readers,
         callers, Resting, Sent, Sending, Sendable, DrainOK, Down
    <3> QED BY <3>1, <3>2, SentKept
  <2>4. CASE FanSends
    <3>1. UNCHANGED <<got, live, monitors, taken>> /\ drain.at = "sending"
      BY <2>4 DEF FanSends, Drain, readers, device
    <3>2. PICK o \in drain.todo :
             \/ /\ live[o] /\ inbox' = [inbox EXCEPT ![o] = Append(@, drain.line)]
                /\ drain' = [drain EXCEPT !.todo = @ \ {o}]
             \/ /\ ~live[o] /\ inbox' = inbox /\ drain' = [drain EXCEPT !.todo = @ \ {o}]
      BY <2>4 DEF FanSends, Drain, After
    <3>3. /\ o \in monitors /\ o \in Observer /\ monitors \subseteq Observer
          /\ drain'.todo = drain.todo \ {o} /\ drain'.at = "sending"
      BY <3>1, <3>2 DEF Sendable, Sending, FanOK, DrainOK
    <3>4. \A p \in Observer : p # o => Sent(p)' = Sent(p)
      BY <3>1, <3>3 DEF Sent
    <3>5. CASE ~live[o]
      <4>1. inbox' = inbox
        BY <3>2, <3>5
      <4>2. Stream(o) = <<>>
        BY <3>3, <3>5, NothingYet
      <4>3. \A p \in Observer : Stream(p)' = Stream(p)
        BY <3>1, <4>1 DEF Stream
      <4>4. \A p \in monitors' : live'[p] /\ Stream(p)' # <<>> =>
                p \in monitors /\ live[p] /\ Stream(p)' = Stream(p) /\ Sent(p)' = Sent(p)
        BY <3>1, <3>3, <3>4, <4>2, <4>3
      <4> QED BY <4>3, <4>4, StreamsKept
    <3>6. CASE live[o]
      <4>1. inbox' = [inbox EXCEPT ![o] = Append(@, drain.line)]
        BY <3>2, <3>6
      <4>2. /\ drain.line = taken /\ taken \in Nat /\ taken \in 1..said
            /\ Sent(o) = taken - 1 /\ Sent(o)' = taken
            /\ got[o] \in Seq(1..said) /\ inbox[o] \in Seq(1..said)
        BY <3>1, <3>2, <3>3 DEF Sendable, Sending, DrainOK, StreamsOK, Sent
      <4>3. inbox'[o] = Append(inbox[o], taken) /\ got'[o] = got[o]
        BY <3>1, <3>3, <4>1, <4>2 DEF Sendable, StreamsOK
      <4>4. Stream(o)' = Append(Stream(o), taken) /\ Stream(o) \in Seq(1..said)
        <5>1. Stream(o)' = got[o] \o Append(inbox[o], taken)
          BY <4>3 DEF Stream
        <5>2. /\ got[o] \o Append(inbox[o], taken) = Append(got[o] \o inbox[o], taken)
              /\ got[o] \o inbox[o] \in Seq(1..said)
          <6>1. \A g, s \in Seq(1..said), x \in 1..said :
                   /\ g \o Append(s, x) = Append(g \o s, x)
                   /\ g \o s \in Seq(1..said)
            BY SentOn
          <6> QED BY <4>2, <6>1
        <5> QED BY <5>1, <5>2 DEF Stream
      <4>5. /\ \A i \in 1..(Len(Stream(o)) - 1) : Stream(o)[i + 1] = Stream(o)[i] + 1
            /\ Stream(o) # <<>> => Stream(o)[Len(Stream(o))] = taken - 1
        BY <3>3, <3>6, <4>2 DEF InOrder
      <4>6. /\ \A i \in 1..(Len(Stream(o)') - 1) : Stream(o)'[i + 1] = Stream(o)'[i] + 1
            /\ Stream(o)'[Len(Stream(o)')] = taken
        BY <4>2, <4>4, <4>5, NextLine
      <4>7. \A p \in Observer : p # o => Stream(p)' = Stream(p)
        BY <3>1, <4>1 DEF Stream, Sendable, StreamsOK
      <4>8. ASSUME NEW p \in Observer
            PROVE  LET s == Stream(p)' IN
                   /\ \A i \in 1..(Len(s) - 1) : s[i + 1] = s[i] + 1
                   /\ p \in monitors' /\ live'[p] /\ s # <<>> => s[Len(s)] = Sent(p)'
        <5>1. CASE p = o
          BY <4>2, <4>6, <5>1
        <5>2. CASE p # o
          BY <3>1, <3>4, <4>7, <5>2 DEF InOrder
        <5> QED BY <5>1, <5>2
      <4> QED BY <4>8 DEF InOrder
    <3> QED BY <3>5, <3>6
  <2>5. CASE FanEnds
    <3>1. UNCHANGED <<got, inbox, live>> /\ monitors' \subseteq monitors
      BY <2>5 DEF FanEnds, Drain, device, links, process, server, readers,
         callers
    <3>2. \A o \in monitors' : Sent(o)' = Sent(o)
      BY <2>5 DEF FanEnds, Drain, device, links, process, server, readers,
         callers, Resting, Sent, Sending, Sendable, DrainOK, Down
    <3> QED BY <3>1, <3>2, SentKept
  <2>6. CASE Routes
    <3>1. UNCHANGED <<got, inbox, live>> /\ monitors' \subseteq monitors
      BY <2>6 DEF Routes, Drain, Resting, device, fan, links, process, server,
         readers, callers
    <3>2. \A o \in monitors' : Sent(o)' = Sent(o)
      BY <2>6 DEF Routes, Drain, Resting, device, fan, links, process, server,
         readers, callers, Sent, Sending, Sendable, DrainOK, Down
    <3> QED BY <3>1, <3>2, SentKept
  <2>7. CASE Escapes
    <3>1. UNCHANGED <<got, inbox, live>> /\ monitors' \subseteq monitors
      BY <2>7 DEF Escapes, Drain, PmTaken, device, fan, links, process, server,
         readers, callers
    <3>2. \A o \in monitors' : Sent(o)' = Sent(o)
      BY <2>7 DEF Escapes, Drain, PmTaken, device, fan, links, process, server,
         readers, callers, Resting, Sent, Sending, Sendable, DrainOK, Down
    <3> QED BY <3>1, <3>2, SentKept
  <2>8. CASE Escaped
    <3>1. UNCHANGED <<got, inbox, live>> /\ monitors' \subseteq monitors
      BY <2>8 DEF Escaped, Drain, device, fan, links, process, server, readers,
         callers
    <3>2. \A o \in monitors' : Sent(o)' = Sent(o)
      BY <2>8 DEF Escaped, Drain, device, fan, links, process, server, readers,
         callers, Resting, Sent, Sending, Sendable, DrainOK, Down
    <3> QED BY <3>1, <3>2, SentKept
  <2>9. CASE DrainSends
    <3>1. UNCHANGED <<got, inbox, live>> /\ monitors' \subseteq monitors
      BY <2>9 DEF DrainSends, AfterFailure, Resting, process, device, fan,
         links, readers, callers
    <3>2. \A o \in monitors' : Sent(o)' = Sent(o)
      BY <2>9 DEF DrainSends, AfterFailure, Resting, process, device, fan,
         links, readers, callers, Sent, Sending, Sendable, DrainOK, Down
    <3> QED BY <3>1, <3>2, SentKept
  <2>10. CASE LoopAccepts \/ LoopReceives \/ LoopFilters \/ LoopWrites \/
     LoopLeaves
    <3>1. UNCHANGED <<got, inbox, live, monitors, drain, taken>>
      BY <2>10 DEF LoopAccepts, Loop, LoopReceives, LoopFilters, LoopWrites,
         Forget, LoopLeaves, fan, links, readers
    <3> QED BY <3>1, StreamsStay
  <2> QED BY <1>2, <2>1, <2>2, <2>3, <2>4, <2>5, <2>6, <2>7, <2>8, <2>9, <2>10
     DEF Proxy
<1>3. ASSUME NEW o \in Observer, Reads(o) PROVE InOrder'
  <2>1. /\ at[o] = "reading" /\ inbox[o] # <<>>
        /\ got' = [got EXCEPT ![o] = Append(@, Head(inbox[o]))]
        /\ inbox' = [inbox EXCEPT ![o] = Tail(@)]
        /\ UNCHANGED <<live, monitors, drain, taken>>
    BY <1>3 DEF Reads, device, fan
  <2>2. got[o] \in Seq(1..said) /\ inbox[o] \in Seq(1..said)
    BY DEF Sendable, StreamsOK
  <2>3. got'[o] = Append(got[o], Head(inbox[o])) /\ inbox'[o] = Tail(inbox[o])
    BY <2>1 DEF Sendable, StreamsOK
  <2>4. Stream(o)' = Stream(o)
    <3>1. Stream(o)' = Append(got[o], Head(inbox[o])) \o Tail(inbox[o])
      BY <2>3 DEF Stream
    <3>2. Append(got[o], Head(inbox[o])) \o Tail(inbox[o]) = got[o] \o inbox[o]
      <4>1. inbox[o] # <<>>
        BY <2>1
      <4> QED BY <2>2, <4>1, ReadOn, Zenon
    <3> QED BY <3>1, <3>2 DEF Stream
  <2>5. \A p \in Observer : p # o => Stream(p)' = Stream(p)
    BY <2>1 DEF Stream, Sendable, StreamsOK
  <2>6. \A p \in Observer : Stream(p)' = Stream(p) /\ Sent(p)' = Sent(p)
    BY <2>1, <2>4, <2>5 DEF Sent
  <2> QED BY <2>1, <2>6, StreamsKept DEF Sendable, FanOK
<1>4. ASSUME RecorderConnects \/ RecorderLeft PROVE InOrder'
  <2>1. CASE RecorderConnects
    <3>1. /\ got' = [got EXCEPT ![Recorder] = <<>>] /\ inbox' = [inbox EXCEPT ![Recorder] = <<>>]
          /\ live' \in {[live EXCEPT ![Recorder] = TRUE], [live EXCEPT ![Recorder] = FALSE]}
          /\ UNCHANGED <<monitors, drain, taken>> /\ Recorder \in Observer
      BY <2>1 DEF RecorderConnects, Connects, device, Observer
    <3> QED BY <3>1, StreamEnds
  <2>2. CASE RecorderLeft
    <3>1. /\ got' = [got EXCEPT ![Recorder] = <<>>] /\ inbox' = [inbox EXCEPT ![Recorder] = <<>>]
          /\ live' \in {[live EXCEPT ![Recorder] = TRUE], [live EXCEPT ![Recorder] = FALSE]}
          /\ UNCHANGED <<monitors, drain, taken>> /\ Recorder \in Observer
      BY <2>2 DEF RecorderLeft, Closes, device, fan, Observer
    <3> QED BY <3>1, StreamEnds
  <2> QED BY <1>4, <2>1, <2>2
<1>5. ASSUME NEW m \in Monitor, Connect(m) \/ MonitorEnds(m) PROVE InOrder'
  <2>1. CASE Connect(m)
    <3>1. /\ got' = [got EXCEPT ![m] = <<>>] /\ inbox' = [inbox EXCEPT ![m] = <<>>]
          /\ live' \in {[live EXCEPT ![m] = TRUE], [live EXCEPT ![m] = FALSE]}
          /\ UNCHANGED <<monitors, drain, taken>> /\ m \in Observer
      BY <2>1 DEF Connect, Connects, device, Observer
    <3> QED BY <3>1, StreamEnds
  <2>2. CASE MonitorEnds(m)
    <3>1. /\ got' = [got EXCEPT ![m] = <<>>] /\ inbox' = [inbox EXCEPT ![m] = <<>>]
          /\ live' \in {[live EXCEPT ![m] = TRUE], [live EXCEPT ![m] = FALSE]}
          /\ UNCHANGED <<monitors, drain, taken>> /\ m \in Observer
      BY <2>2 DEF MonitorEnds, Closes, device, fan, Observer
    <3> QED BY <3>1, StreamEnds
  <2> QED BY <1>5, <2>1, <2>2
<1>6. ASSUME NEW c \in Caller, Call(c) \/ Knocks(c) \/ Refused(c) \/ GivesUp(c) \/ Opens(c)
      PROVE  InOrder'
  <2>1. UNCHANGED <<got, inbox, live, monitors, drain, taken>>
    BY <1>6 DEF Call, Knocks, Refused, Retries, GivesUp, Opens, device, fan,
       links, readers
  <2> QED BY <2>1, StreamsStay
<1>7. ASSUME NEW w \in Writer, Writes(w) \/ WriteEnds(w) PROVE InOrder'
  <2>1. UNCHANGED <<got, inbox, live, monitors, drain, taken>>
    BY <1>7 DEF Writes, Ends, WriteEnds, device, fan, links, readers
  <2> QED BY <2>1, StreamsStay
<1>8. ASSUME NEW c \in Client, ClientEnds(c) PROVE InOrder'
  <2>1. UNCHANGED <<got, inbox, live, monitors, drain, taken>>
    BY <1>8 DEF ClientEnds, Ends, device, fan, links, readers
  <2> QED BY <2>1, StreamsStay
<1>9. ASSUME UNCHANGED vars PROVE InOrder'
  <2>1. UNCHANGED <<got, inbox, live, monitors, drain, taken>>
    BY <1>9 DEF vars, device, fan, links, readers
  <2> QED BY <2>1, StreamsStay
<1> QED
  BY <1>1, <1>2, <1>3, <1>4, <1>5, <1>6, <1>7, <1>8, <1>9
     DEF Next, Recording, Writing, Observer, Caller

\* fan_out gives every reader the device's lines in order and without a gap, up
\* to the one being sent, whoever comes and goes beside it
\* (plain_rfc2217_server.py).
THEOREM LinesInOrder == Spec => []InOrder
<1>1. Init => InOrder /\ Fresh
  <2> SUFFICES ASSUME Init PROVE InOrder /\ Fresh
    OBVIOUS
  <2>1. Fresh
    BY DEF Init, Fresh
  <2>2. \A o \in Observer : Stream(o) = <<>>
    BY <2>1, NothingYet DEF Init
  <2>3. Len(<<>>) = 0 /\ 1..(0 - 1) = {}
    BY EmptySeq
  <2> QED BY <2>1, <2>2, <2>3 DEF InOrder
<1>2. PortIInv /\ InOrder /\ Fresh /\ [Next]_vars => InOrder' /\ Fresh'
  BY FreshStep, OrderStep DEF PortIInv, Sendable
<1> QED BY <1>1, <1>2, PortIInvariant, PTL DEF Spec

-----------------------------------------------------------------------------
(* What serial_write answers. *)

\* The connections that have been made.
Made == {k \in Knock : k[2] <= tries[k[1]]}

\* Nothing is known of a connection that has not been made, and the proxy holds
\* bytes of the one it serves only.
Known ==
    /\ Range(knocking) \cup hung \cup payload \cup BagToSet(written) \subseteq Made
    /\ serving # None => serving \in Made
    /\ payload \subseteq {serving}
    /\ loop \in {"filter", "write"} => payload = {}

\* The bytes of a connection are on their way.
Pending(k) == k \in payload \/ (serving = k /\ loop \in {"filter", "write"})

\* A writer that holds its connection has bytes on their way, or the device has
\* them; before that there are none, and afterwards nothing changes any more.
\* While the proxy lives it serves whom it has opened a connection for.
Honest(w) ==
    LET k == Mine(w)
        times == Copies(k, written)
    IN  /\ client[w] # "holding" => ~Pending(k)
        /\ client[w] \in {"connect", "opening", "open"} => times = 0
        /\ client[w] # "idle" => answer[w] = None /\ k \notin hung
        /\ client[w] \in {"open", "holding"} /\ ~cut[w] => serving = k
        /\ client[w] = "holding" /\ ~cut[w] => times = IF Pending(k) THEN 0 ELSE 1
        /\ answer[w] = "ok" /\ ~cut[w] => times = 1
        /\ answer[w] = "error" => times = 0

\* What the steps below use of the inductive invariant.
Owning == FlagsOK /\ BuffersOK /\ ServerOK /\ CallersOK /\ Locks

\* A caller's connection is one that has been made, and its own.
LEMMA MineMade ==
    ASSUME CallersOK, NEW c \in Caller
    PROVE  Mine(c) \in Made /\ \A x \in Caller : Mine(x) = Mine(c) => x = c
BY DEF CallersOK, Made, Mine, Knock

\* What has been made stays made.
LEMMA MadeStays ==
    ASSUME CallersOK, NEW c \in Caller, tries' \in {tries, [tries EXCEPT ![c] = @ + 1]}
    PROVE  Made \subseteq Made'
<1>1. \A x \in Caller : tries[x] \in Nat /\ tries'[x] \in Nat /\ tries[x] <= tries'[x]
  BY DEF CallersOK
<1>2. \A k \in Knock : k[1] \in Caller /\ k[2] \in Nat
  BY DEF Knock
<1>3. ASSUME NEW k \in Knock, k[2] <= tries[k[1]] PROVE k[2] <= tries'[k[1]]
  BY <1>1, <1>2, <1>3
<1> QED BY <1>3 DEF Made

\* A writer of whom the step changes nothing is as honest as before.
LEMMA StaysHonest ==
    ASSUME NEW v \in Writer, Honest(v),
           tries'[v] = tries[v], client'[v] = client[v], answer'[v] = answer[v],
           cut'[v] = cut[v], UNCHANGED <<written, serving>>,
           Mine(v) \in hung' => Mine(v) \in hung,
           Pending(Mine(v))' <=> Pending(Mine(v))
    PROVE  Honest(v)'
<1>1. Mine(v)' = Mine(v)
  BY DEF Mine
<1> QED BY <1>1 DEF Honest

LEMMA NobodyMoves ==
    ASSUME NEW v \in Writer, Honest(v),
           UNCHANGED <<client, tries, answer, cut, written, hung, payload, serving, loop>>
    PROVE  Honest(v)'
BY DEF Honest, Pending, Mine

\* What a caller does changes nothing for the writers beside it.
LEMMA OthersHonest ==
    ASSUME Owning, NEW c \in Caller, NEW v \in Writer, v # c, Honest(v),
           \A x \in Caller : x # c => client'[x] = client[x] /\ tries'[x] = tries[x],
           \A x \in Writer : x # c => answer'[x] = answer[x] /\ cut'[x] = cut[x],
           hung' \subseteq hung \cup {Mine(c)}, payload' \in {payload, payload \cup {Mine(c)}},
           UNCHANGED <<written, serving, loop>>
    PROVE  Honest(v)'
<1>1. v \in Caller
  BY DEF Caller
<1>2. Mine(v) # Mine(c)
  BY <1>1, MineMade DEF Owning
<1>3. Mine(v)' = Mine(v)
  BY <1>1 DEF Mine
<1>4. Pending(Mine(v))' <=> Pending(Mine(v))
  BY <1>2, <1>3 DEF Pending
<1> QED BY <1>1, <1>2, <1>4, StaysHonest

\* A writer that makes a new connection begins anew: nobody knows of it yet.
LEMMA NewConnection ==
    ASSUME Owning, Known, NEW v \in Writer,
           client'[v] = "connect", tries'[v] = tries[v] + 1, answer'[v] = None,
           hung' \subseteq hung \cup {Mine(v)}, UNCHANGED <<payload, written, serving, loop>>
    PROVE  Honest(v)'
<1>1. v \in Caller /\ tries[v] \in Nat
  BY DEF Caller, Owning, CallersOK
<1>2. Mine(v)' \notin Made /\ Mine(v)' # Mine(v)
  BY <1>1 DEF Mine, Made
<1>3. Mine(v)' # None
  <2>1. Mine(v)' \in Knock
    BY <1>1 DEF Mine, Knock
  <2> QED BY <2>1, NoneAssumption
<1>4. Mine(v)' \notin hung' /\ Mine(v)' \notin payload' /\ Mine(v)' # serving'
  BY <1>2, <1>3 DEF Known
<1>5. Copies(Mine(v)', written') = 0
  BY <1>2 DEF Known, Copies, BagIn
<1>6. ~Pending(Mine(v))'
  BY <1>4 DEF Pending
<1>7. None \notin {"ok", "error"}
  BY NoneAssumption
<1> QED BY <1>4, <1>5, <1>6, <1>7 DEF Honest

\* As long as the device takes its bytes every step leaves every writer honest.
LEMMA HonestStep ==
    ASSUME Owning, Known, ~Stalls, [Next]_vars, NEW v \in Writer, Honest(v)
    PROVE  Honest(v)'
<1>0. v \in Caller /\ CallersOK
  BY DEF Caller, Owning
<1>1. ASSUME ProxyStarts \/ ProxyStops \/ DeviceSays PROVE Honest(v)'
  <2>1. CASE ProxyStops
    <3>1. /\ cut' = [x \in Writer |-> TRUE] /\ payload' = {} /\ hung' = {} /\ loop' = "accept"
          /\ UNCHANGED <<client, tries, answer, written>>
      BY <2>1 DEF ProxyStops, device
    <3>2. cut'[v] /\ Mine(v)' = Mine(v) /\ ~Pending(Mine(v))'
      BY <3>1 DEF Mine, Pending
    <3> QED BY <3>1, <3>2 DEF Honest
  <2>2. CASE ProxyStarts \/ DeviceSays
    <3>1. UNCHANGED <<client, tries, answer, cut, written, hung, payload, serving, loop>>
      BY <2>2 DEF ProxyStarts, DeviceSays, server, callers
    <3> QED BY <3>1, NobodyMoves
  <2> QED BY <1>1, <2>1, <2>2
<1>2. ASSUME Proxy PROVE Honest(v)'
  <2>1. CASE LoopAccepts
    <3>1. /\ loop = "accept" /\ loop' = "recv"
          /\ UNCHANGED <<client, tries, answer, cut, written, hung, payload>>
      BY <2>1 DEF LoopAccepts, Loop
    <3>2. serving = None /\ payload = {}
      BY <3>1, NoneAssumption DEF Owning, Locks, ServerOK, Known
    <3>3. Mine(v) # serving /\ Mine(v)' = Mine(v)
      BY <1>0, <3>1, <3>2, MineMade, NoneAssumption DEF Mine, Made
    <3>4. ~Pending(Mine(v)) /\ ~Pending(Mine(v))'
      BY <3>1, <3>2, <3>3 DEF Pending
    <3> QED BY <3>1, <3>3, <3>4 DEF Honest
  <2>2. CASE LoopReceives
    <3>1. /\ loop' = "filter" /\ serving \in payload /\ payload' = payload \ {serving}
          /\ UNCHANGED <<client, tries, answer, cut, written, hung, serving>>
      BY <2>2 DEF LoopReceives, Loop
    <3>2. Mine(v)' = Mine(v)
      BY <3>1 DEF Mine
    <3>3. Pending(Mine(v))' <=> Pending(Mine(v))
      BY <3>1, <3>2 DEF Pending, Known
    <3> QED BY <3>1, <3>3, StaysHonest
  <2>3. CASE LoopFilters
    <3>1. /\ loop = "filter" /\ loop' = "write"
          /\ UNCHANGED <<client, tries, answer, cut, written, hung, serving, payload>>
      BY <2>3 DEF LoopFilters, Loop, Owning, Locks
    <3>2. Mine(v)' = Mine(v)
      BY <3>1 DEF Mine
    <3>3. Pending(Mine(v))' <=> Pending(Mine(v))
      BY <3>1, <3>2 DEF Pending
    <3> QED BY <3>1, <3>3, StaysHonest
  <2>4. CASE LoopWrites
    <3>1. /\ loop = "write" /\ loop' = "recv" /\ written' = written (+) SetToBag({serving})
          /\ UNCHANGED <<client, tries, answer, cut, hung, serving, payload>>
      BY <2>4 DEF LoopWrites, Loop
    <3>2. payload = {} /\ Mine(v)' = Mine(v)
      BY <3>1 DEF Known, Mine
    <3>3. IsABag(written)
      BY DEF Owning, BuffersOK
    <3>4. ~Pending(Mine(v))'
      BY <3>1, <3>2 DEF Pending
    <3>5. CASE Mine(v) = serving
      <4>1. Pending(Mine(v)) /\ client[v] = "holding" /\ answer[v] = None
        BY <3>1, <3>5 DEF Pending, Honest
      <4>2. Copies(Mine(v), written') = Copies(Mine(v), written) + 1
        BY <3>1, <3>3, <3>5, Given
      <4>3. None \notin {"ok", "error"}
        BY NoneAssumption
      <4> QED BY <3>1, <3>2, <3>4, <3>5, <4>1, <4>2, <4>3 DEF Honest
    <3>6. CASE Mine(v) # serving
      <4>1. Copies(Mine(v), written') = Copies(Mine(v), written)
        BY <3>1, <3>3, <3>6, Given
      <4> QED BY <3>1, <3>2, <3>4, <3>6, <4>1 DEF Honest
    <3> QED BY <3>5, <3>6
  <2>5. CASE LoopLeaves
    <3>1. /\ loop = "recv" /\ serving \in hung \ payload /\ loop' = "accept"
          /\ hung' = hung \ {serving} /\ payload' = payload \ {serving}
          /\ UNCHANGED <<client, tries, answer, cut, written>>
      BY <2>5 DEF LoopLeaves, Loop, Forget
    <3>2. payload = {} /\ Mine(v)' = Mine(v)
      BY <3>1 DEF Known, Mine
    <3>3. ~Pending(Mine(v)) /\ ~Pending(Mine(v))'
      BY <3>1, <3>2 DEF Pending
    <3> QED BY <3>1, <3>2, <3>3 DEF Honest
  <2>6. CASE Accept \/ DrainReads \/ FanLocks \/ FanSends \/ FanEnds \/ Routes
     \/ Escapes \/ Escaped \/ DrainSends
    <3>1. UNCHANGED <<client, tries, answer, cut, written, hung, payload, serving, loop>>
      BY <2>6 DEF Accept, DrainReads, Drain, FanLocks, FanSends, FanEnds,
         Routes, Escapes, Escaped, DrainSends, device, server, callers
    <3> QED BY <3>1, NobodyMoves
  <2> QED BY <1>2, <2>1, <2>2, <2>3, <2>4, <2>5, <2>6 DEF Proxy
<1>3. ASSUME NEW o \in Observer, Reads(o) PROVE Honest(v)'
  <2>1. UNCHANGED <<client, tries, answer, cut, written, hung, payload, serving, loop>>
    BY <1>3 DEF Reads, device, server, callers
  <2> QED BY <2>1, NobodyMoves
<1>4. ASSUME RecorderConnects \/ RecorderLeft PROVE Honest(v)'
  <2>1. UNCHANGED <<client, tries, answer, cut, written, hung, payload, serving, loop>>
    BY <1>4 DEF RecorderConnects, Connects, RecorderLeft, Closes, device,
       server, callers
  <2> QED BY <2>1, NobodyMoves
<1>5. ASSUME NEW m \in Monitor, Connect(m) \/ MonitorEnds(m) PROVE Honest(v)'
  <2>1. UNCHANGED <<client, tries, answer, cut, written, hung, payload, serving, loop>>
    BY <1>5 DEF Connect, Connects, MonitorEnds, Closes, device, server,
       callers
  <2> QED BY <2>1, NobodyMoves
<1>6. ASSUME NEW c \in Caller, Call(c) \/ Knocks(c) \/ Refused(c) \/ GivesUp(c) \/ Opens(c)
      PROVE  Honest(v)'
  <2>1. CASE Call(c)
    <3>1. CASE v # c
      <4>1. /\ \A x \in Caller : x # c => client'[x] = client[x] /\ tries'[x] = tries[x]
            /\ \A x \in Writer : x # c => answer'[x] = answer[x] /\ cut'[x] = cut[x]
            /\ hung' \subseteq hung \cup {Mine(c)} /\ payload' = payload
            /\ UNCHANGED <<written, serving, loop>>
        BY <2>1 DEF Call, Answered, device, server, Owning, CallersOK, FlagsOK
      <4> QED BY <3>1, <4>1, OthersHonest
    <3>2. CASE v = c
      <4>1. /\ client'[v] = "connect" /\ tries'[v] = tries[v] + 1 /\ answer'[v] = None
            /\ UNCHANGED <<hung, payload, written, serving, loop>>
        BY <2>1, <3>2 DEF Call, Answered, device, server, Owning, CallersOK
      <4> QED BY <4>1, NewConnection
    <3> QED BY <3>1, <3>2
  <2>2. CASE Knocks(c)
    <3>1. CASE v # c
      <4>1. /\ \A x \in Caller : x # c => client'[x] = client[x] /\ tries'[x] = tries[x]
            /\ \A x \in Writer : x # c => answer'[x] = answer[x] /\ cut'[x] = cut[x]
            /\ hung' \subseteq hung \cup {Mine(c)} /\ payload' = payload
            /\ UNCHANGED <<written, serving, loop>>
        BY <2>2 DEF Knocks, device, server, readers, Owning, CallersOK, FlagsOK
      <4> QED BY <3>1, <4>1, OthersHonest
    <3>2. CASE v = c
      <4>1. /\ client[v] = "connect" /\ client'[v] = "opening"
            /\ UNCHANGED <<tries, answer, cut, hung, payload, written, serving, loop>>
        BY <2>2, <3>2 DEF Knocks, device, server, readers, Owning, CallersOK
      <4>2. Mine(v)' = Mine(v) /\ Pending(Mine(v))' = Pending(Mine(v))
        BY <4>1 DEF Mine, Pending
      <4> QED BY <4>1, <4>2 DEF Honest
    <3> QED BY <3>1, <3>2
  <2>3. CASE Refused(c)
    <3>1. CASE v # c
      <4>1. /\ \A x \in Caller : x # c => client'[x] = client[x] /\ tries'[x] = tries[x]
            /\ \A x \in Writer : x # c => answer'[x] = answer[x] /\ cut'[x] = cut[x]
            /\ hung' \subseteq hung \cup {Mine(c)} /\ payload' = payload
            /\ UNCHANGED <<written, serving, loop>>
        BY <2>3 DEF Refused, Retries, Answered, device, server, Owning, CallersOK, FlagsOK
      <4> QED BY <3>1, <4>1, OthersHonest
    <3>2. CASE v = c
      <4>1. /\ client[v] \in {"connect", "opening"} /\ hung' \subseteq hung \cup {Mine(v)}
            /\ UNCHANGED <<payload, written, serving, loop>>
        BY <2>3, <3>2 DEF Refused, Retries, Answered, device, server
      <4>2. CASE left[c] > 1
        <5>1. client'[v] = "connect" /\ tries'[v] = tries[v] + 1 /\ answer' = answer
          BY <2>3, <3>2, <4>2 DEF Refused, Retries, Answered, device, server, Owning, CallersOK
        <5>2. answer'[v] = None
          BY <4>1, <5>1 DEF Honest
        <5> QED BY <4>1, <5>1, <5>2, NewConnection
      <4>3. CASE ~(left[c] > 1)
        <5>1. client'[v] = "idle" /\ tries' = tries /\ answer'[v] = "error"
          BY <2>3, <3>2, <4>3 DEF Refused, Retries, Answered, device, server, Owning, CallersOK
        <5>2. Mine(v)' = Mine(v) /\ (Pending(Mine(v))' <=> Pending(Mine(v)))
          BY <4>1, <5>1 DEF Mine, Pending
        <5> QED BY <4>1, <5>1, <5>2 DEF Honest
      <4> QED BY <4>2, <4>3
    <3> QED BY <3>1, <3>2
  <2>4. CASE GivesUp(c)
    <3>1. CASE v # c
      <4>1. /\ \A x \in Caller : x # c => client'[x] = client[x] /\ tries'[x] = tries[x]
            /\ \A x \in Writer : x # c => answer'[x] = answer[x] /\ cut'[x] = cut[x]
            /\ hung' \subseteq hung \cup {Mine(c)} /\ payload' = payload
            /\ UNCHANGED <<written, serving, loop>>
        BY <2>4 DEF GivesUp, Retries, Answered, Hangs, device, server, Owning, CallersOK, FlagsOK
      <4> QED BY <3>1, <4>1, OthersHonest
    <3>2. CASE v = c
      <4>1. /\ client[v] \in {"connect", "opening"} /\ hung' \subseteq hung \cup {Mine(v)}
            /\ UNCHANGED <<payload, written, serving, loop>>
        BY <2>4, <3>2 DEF GivesUp, Retries, Answered, Hangs, device, server
      <4>2. CASE left[c] > 1
        <5>1. client'[v] = "connect" /\ tries'[v] = tries[v] + 1 /\ answer' = answer
          BY <2>4, <3>2, <4>2 DEF GivesUp, Retries, Answered, Hangs, device, server, Owning, CallersOK
        <5>2. answer'[v] = None
          BY <4>1, <5>1 DEF Honest
        <5> QED BY <4>1, <5>1, <5>2, NewConnection
      <4>3. CASE ~(left[c] > 1)
        <5>1. client'[v] = "idle" /\ tries' = tries /\ answer'[v] = "error"
          BY <2>4, <3>2, <4>3 DEF GivesUp, Retries, Answered, Hangs, device, server, Owning, CallersOK
        <5>2. Mine(v)' = Mine(v) /\ (Pending(Mine(v))' <=> Pending(Mine(v)))
          BY <4>1, <5>1 DEF Mine, Pending
        <5> QED BY <4>1, <5>1, <5>2 DEF Honest
      <4> QED BY <4>2, <4>3
    <3> QED BY <3>1, <3>2
  <2>5. CASE Opens(c)
    <3>1. CASE v # c
      <4>1. /\ \A x \in Caller : x # c => client'[x] = client[x] /\ tries'[x] = tries[x]
            /\ \A x \in Writer : x # c => answer'[x] = answer[x] /\ cut'[x] = cut[x]
            /\ hung' \subseteq hung \cup {Mine(c)} /\ payload' = payload
            /\ UNCHANGED <<written, serving, loop>>
        BY <2>5 DEF Opens, device, server, readers, Owning, CallersOK, FlagsOK
      <4> QED BY <3>1, <4>1, OthersHonest
    <3>2. CASE v = c
      <4>1. /\ client[v] = "opening" /\ client'[v] = "open"
            /\ UNCHANGED <<tries, answer, cut, hung, payload, written, serving, loop>>
        BY <2>5, <3>2 DEF Opens, device, server, readers, Owning, CallersOK
      <4>2. Mine(v)' = Mine(v) /\ Pending(Mine(v))' = Pending(Mine(v))
        BY <4>1 DEF Mine, Pending
      <4>3. serving = Mine(v)
        BY <2>5, <3>2 DEF Opens
      <4> QED BY <4>1, <4>2, <4>3 DEF Honest
    <3> QED BY <3>1, <3>2
  <2> QED BY <1>6, <2>1, <2>2, <2>3, <2>4, <2>5
<1>7. ASSUME NEW w \in Writer, Writes(w) \/ WriteEnds(w) PROVE Honest(v)'
  <2>1. CASE Writes(w)
    <3>1. CASE v # w
      <4>1. /\ \A x \in Caller : x # w => client'[x] = client[x] /\ tries'[x] = tries[x]
            /\ \A x \in Writer : x # w => answer'[x] = answer[x] /\ cut'[x] = cut[x]
            /\ hung' \subseteq hung \cup {Mine(w)}
            /\ payload' \in {payload, payload \cup {Mine(w)}}
            /\ UNCHANGED <<written, serving, loop>>
        BY <2>1 DEF Writes, Ends, Hangs, Answered, device, server, readers, Owning, CallersOK, FlagsOK
      <4> QED BY <3>1, <4>1, OthersHonest DEF Caller
    <3>2. CASE v = w /\ Mine(v) # serving
      <4>1. /\ client[v] = "open" /\ client'[v] = "idle" /\ answer'[v] \in {"ok", "error"}
            /\ UNCHANGED <<tries, cut, payload, written, serving, loop>>
        BY <2>1, <3>2 DEF Writes, Ends, Hangs, Answered, device, server, readers, Owning, CallersOK, Caller
      <4>2. Mine(v)' = Mine(v) /\ (Pending(Mine(v))' <=> Pending(Mine(v)))
        BY <4>1 DEF Mine, Pending
      <4>3. cut[v]
        BY <3>2, <4>1 DEF Honest
      <4> QED BY <4>1, <4>2, <4>3 DEF Honest
    <3>3. CASE v = w /\ Mine(v) = serving
      <4>1. /\ client[v] = "open" /\ client'[v] = "holding"
            /\ payload' = payload \cup {Mine(v)}
            /\ UNCHANGED <<tries, answer, cut, hung, written, serving, loop>>
        BY <2>1, <3>3 DEF Writes, device, server, readers, Owning, CallersOK, Caller
      <4>2. Mine(v)' = Mine(v) /\ Pending(Mine(v))'
        BY <4>1 DEF Mine, Pending
      <4> QED BY <3>3, <4>1, <4>2 DEF Honest
    <3> QED BY <3>1, <3>2, <3>3
  <2>2. CASE WriteEnds(w)
    <3>1. CASE v # w
      <4>1. /\ \A x \in Caller : x # w => client'[x] = client[x] /\ tries'[x] = tries[x]
            /\ \A x \in Writer : x # w => answer'[x] = answer[x] /\ cut'[x] = cut[x]
            /\ hung' \subseteq hung \cup {Mine(w)} /\ payload' = payload
            /\ UNCHANGED <<written, serving, loop>>
        BY <2>2 DEF WriteEnds, Ends, Hangs, Answered, device, server, readers, Owning, CallersOK, FlagsOK
      <4> QED BY <3>1, <4>1, OthersHonest DEF Caller
    <3>2. CASE v = w
      <4>1. /\ client[v] = "holding" /\ client'[v] = "idle" /\ answer'[v] = "ok"
            /\ UNCHANGED <<tries, cut, payload, written, serving, loop>>
        BY <2>2, <3>2 DEF WriteEnds, Ends, Hangs, Answered, device, server, readers, Owning, CallersOK, Caller
      <4>2. ~Pending(Mine(v))
        BY <2>2, <3>2 DEF WriteEnds, Holds, Pending, Known
      <4>3. Mine(v)' = Mine(v) /\ ~Pending(Mine(v))'
        BY <4>1, <4>2 DEF Mine, Pending
      <4> QED BY <4>1, <4>2, <4>3 DEF Honest
    <3> QED BY <3>1, <3>2
  <2> QED BY <1>7, <2>1, <2>2
<1>8. ASSUME NEW c \in Client, ClientEnds(c) PROVE Honest(v)'
  <2>1. v # c
    BY ThreadAssumption
  <2>2. /\ \A x \in Caller : x # c => client'[x] = client[x] /\ tries'[x] = tries[x]
        /\ \A x \in Writer : x # c => answer'[x] = answer[x] /\ cut'[x] = cut[x]
        /\ hung' \subseteq hung \cup {Mine(c)} /\ payload' = payload
        /\ UNCHANGED <<written, serving, loop>>
    BY <1>8 DEF ClientEnds, Ends, Hangs, Answered, device, server, readers, Owning, CallersOK, FlagsOK
  <2> QED BY <2>1, <2>2, OthersHonest DEF Caller
<1>9. ASSUME UNCHANGED vars PROVE Honest(v)'
  <2>1. UNCHANGED <<client, tries, answer, cut, written, hung, payload, serving, loop>>
    BY <1>9 DEF vars, device, server, callers
  <2> QED BY <2>1, NobodyMoves
<1> QED
  BY <1>1, <1>2, <1>3, <1>4, <1>5, <1>6, <1>7, <1>8, <1>9
     DEF Next, Recording, Writing, Observer, Caller

\* A caller makes a connection known, and leaves it behind closed.
LEMMA KnownStays ==
    ASSUME Known, CallersOK, NEW c \in Caller,
           tries' \in {tries, [tries EXCEPT ![c] = @ + 1]},
           hung' \subseteq hung \cup {Mine(c)},
           Range(knocking') \subseteq Range(knocking) \cup {Mine(c)},
           UNCHANGED <<payload, written, serving, loop>>
    PROVE  Known'
<1>1. Mine(c) \in Made /\ Made \subseteq Made'
  BY MineMade, MadeStays
<1> QED BY <1>1 DEF Known

LEMMA KnownSame ==
    ASSUME Known, UNCHANGED <<knocking, hung, payload, written, serving, loop, tries>>
    PROVE  Known'
BY DEF Known, Made

\* Whatever the proxy holds came by a connection that was made, and while it has
\* bytes of the one it serves in hand no more of them come.
LEMMA KnownStep ==
    ASSUME Owning, Known, \A w \in Writer : Honest(w), [Next]_vars
    PROVE  Known'
<1>0. CallersOK
  BY DEF Owning
<1>1. ASSUME ProxyStarts \/ ProxyStops \/ DeviceSays PROVE Known'
  <2>1. CASE ProxyStops
    <3>1. /\ knocking' = <<>> /\ hung' = {} /\ payload' = {} /\ serving' = None
          /\ loop' = "accept" /\ UNCHANGED <<written, tries>>
      BY <2>1 DEF ProxyStops, device
    <3>2. Range(knocking') = {}
      BY <3>1 DEF Range
    <3> QED BY <3>1, <3>2 DEF Known, Made
  <2>2. CASE ProxyStarts \/ DeviceSays
    <3>1. UNCHANGED <<knocking, hung, payload, written, serving, loop, tries>>
      BY <2>2 DEF ProxyStarts, DeviceSays, server, callers
    <3> QED BY <3>1, KnownSame
  <2> QED BY <1>1, <2>1, <2>2
<1>2. ASSUME Proxy PROVE Known'
  <2>1. CASE LoopAccepts
    <3>1. /\ loop = "accept" /\ loop' = "recv" /\ knocking # <<>>
          /\ knocking' = Tail(knocking) /\ serving' = Head(knocking)
          /\ UNCHANGED <<hung, payload, written, tries>>
      BY <2>1 DEF LoopAccepts, Loop
    <3>2. payload = {}
      BY <3>1, NoneAssumption DEF Owning, Locks, ServerOK, Known
    <3>3. Head(knocking) \in Range(knocking) /\ Range(knocking') \subseteq Range(knocking)
      BY <3>1, Left DEF Owning, ServerOK
    <3> QED BY <3>1, <3>2, <3>3 DEF Known, Made
  <2>2. CASE LoopReceives
    <3>1. payload' = payload \ {serving} /\ UNCHANGED <<knocking, hung, written, serving, tries>>
      BY <2>2 DEF LoopReceives, Loop
    <3> QED BY <3>1 DEF Known, Made
  <2>3. CASE LoopFilters
    <3>1. loop = "filter" /\ UNCHANGED <<knocking, hung, payload, written, serving, tries>>
      BY <2>3 DEF LoopFilters, Loop
    <3> QED BY <3>1 DEF Known, Made
  <2>4. CASE LoopWrites
    <3>1. loop = "write" /\ UNCHANGED <<knocking, tries>>
      BY <2>4 DEF LoopWrites, Loop
    <3>2. CASE /\ written' = written (+) SetToBag({serving}) /\ loop' = "recv"
               /\ UNCHANGED <<serving, hung, payload>>
      <4>1. IsABag(written) /\ serving # None
        BY <3>1 DEF Owning, BuffersOK, Locks
      <4>2. BagToSet(written') = BagToSet(written) \cup {serving}
        BY <3>2, <4>1, Given
      <4> QED BY <3>1, <3>2, <4>1, <4>2 DEF Known, Made
    <3>3. CASE Forget /\ loop' = "accept" /\ written' = written
      BY <3>1, <3>3 DEF Known, Made, Forget
    <3> QED BY <2>4, <3>2, <3>3 DEF LoopWrites, Loop
  <2>5. CASE LoopLeaves
    <3>1. Forget /\ loop' = "accept" /\ UNCHANGED <<knocking, written, tries>>
      BY <2>5 DEF LoopLeaves, Loop
    <3> QED BY <3>1 DEF Known, Made, Forget
  <2>6. CASE Accept \/ DrainReads \/ FanLocks \/ FanSends \/ FanEnds \/ Routes
     \/ Escapes \/ Escaped \/ DrainSends
    <3>1. UNCHANGED <<knocking, hung, payload, written, serving, loop, tries>>
      BY <2>6 DEF Accept, DrainReads, Drain, FanLocks, FanSends, FanEnds,
         Routes, Escapes, Escaped, DrainSends, device, server, callers
    <3> QED BY <3>1, KnownSame
  <2> QED BY <1>2, <2>1, <2>2, <2>3, <2>4, <2>5, <2>6 DEF Proxy
<1>3. ASSUME NEW o \in Observer, Reads(o) PROVE Known'
  <2>1. UNCHANGED <<knocking, hung, payload, written, serving, loop, tries>>
    BY <1>3 DEF Reads, device, server, callers
  <2> QED BY <2>1, KnownSame
<1>4. ASSUME RecorderConnects \/ RecorderLeft PROVE Known'
  <2>1. UNCHANGED <<knocking, hung, payload, written, serving, loop, tries>>
    BY <1>4 DEF RecorderConnects, Connects, RecorderLeft, Closes, device,
       server, callers
  <2> QED BY <2>1, KnownSame
<1>5. ASSUME NEW m \in Monitor, Connect(m) \/ MonitorEnds(m) PROVE Known'
  <2>1. UNCHANGED <<knocking, hung, payload, written, serving, loop, tries>>
    BY <1>5 DEF Connect, Connects, MonitorEnds, Closes, device, server,
       callers
  <2> QED BY <2>1, KnownSame
<1>6. ASSUME NEW c \in Caller, Call(c) \/ Knocks(c) \/ Refused(c) \/ GivesUp(c) \/ Opens(c)
      PROVE  Known'
  <2>1. CASE Call(c)
    <3>1. /\ tries' \in {tries, [tries EXCEPT ![c] = @ + 1]}
          /\ hung' \subseteq hung \cup {Mine(c)} /\ knocking' = knocking
          /\ UNCHANGED <<payload, written, serving, loop>>
      BY <2>1 DEF Call, device, server
    <3> QED BY <1>0, <3>1, KnownStays
  <2>2. CASE Knocks(c)
    <3>1. /\ knocking' = Append(knocking, Mine(c))
          /\ UNCHANGED <<tries, hung, payload, written, serving, loop>>
      BY <2>2 DEF Knocks, device
    <3>2. Mine(c) \in Knock
      BY <1>0, MineMade DEF Made
    <3>3. Range(knocking') = Range(knocking) \cup {Mine(c)}
      BY <3>1, <3>2, Joined DEF Owning, ServerOK
    <3> QED BY <1>0, <3>1, <3>3, KnownStays
  <2>3. CASE Refused(c)
    <3>1. /\ tries' \in {tries, [tries EXCEPT ![c] = @ + 1]}
          /\ hung' \subseteq hung \cup {Mine(c)} /\ knocking' = knocking
          /\ UNCHANGED <<payload, written, serving, loop>>
      BY <2>3 DEF Refused, Retries, device, server
    <3> QED BY <1>0, <3>1, KnownStays
  <2>4. CASE GivesUp(c)
    <3>1. /\ tries' \in {tries, [tries EXCEPT ![c] = @ + 1]}
          /\ hung' \subseteq hung \cup {Mine(c)} /\ knocking' = knocking
          /\ UNCHANGED <<payload, written, serving, loop>>
      BY <2>4 DEF GivesUp, Retries, Hangs, device, server
    <3> QED BY <1>0, <3>1, KnownStays
  <2>5. CASE Opens(c)
    <3>1. UNCHANGED <<knocking, hung, payload, written, serving, loop, tries>>
      BY <2>5 DEF Opens, device, server
    <3> QED BY <3>1, KnownSame
  <2> QED BY <1>6, <2>1, <2>2, <2>3, <2>4, <2>5
<1>7. ASSUME NEW w \in Writer, Writes(w) \/ WriteEnds(w) PROVE Known'
  <2>1. CASE Writes(w)
    <3>1. w \in Caller
      BY DEF Caller
    <3>2. CASE Mine(w) # serving
      <4>1. /\ hung' \subseteq hung \cup {Mine(w)}
            /\ UNCHANGED <<knocking, tries, payload, written, serving, loop>>
        BY <2>1, <3>2 DEF Writes, Ends, Hangs, device, server
      <4> QED BY <1>0, <3>1, <4>1, KnownStays
    <3>3. CASE Mine(w) = serving
      <4>1. /\ client[w] = "open" /\ payload' = payload \cup {Mine(w)}
            /\ UNCHANGED <<knocking, tries, hung, written, serving, loop>>
        BY <2>1, <3>3 DEF Writes, device, server
      <4>2. Honest(w)
        OBVIOUS
      <4>3. loop \notin {"filter", "write"}
        BY <3>3, <4>1, <4>2 DEF Honest, Pending
      <4>4. Mine(w) \in Made
        BY <1>0, <3>1, MineMade
      <4> QED BY <3>3, <4>1, <4>3, <4>4 DEF Known, Made
    <3> QED BY <3>2, <3>3
  <2>2. CASE WriteEnds(w)
    <3>1. /\ hung' \subseteq hung \cup {Mine(w)} /\ w \in Caller
          /\ UNCHANGED <<knocking, tries, payload, written, serving, loop>>
      BY <2>2 DEF WriteEnds, Ends, Hangs, device, server, Caller
    <3> QED BY <1>0, <3>1, KnownStays
  <2> QED BY <1>7, <2>1, <2>2
<1>8. ASSUME NEW c \in Client, ClientEnds(c) PROVE Known'
  <2>1. /\ hung' \subseteq hung \cup {Mine(c)} /\ c \in Caller
        /\ UNCHANGED <<knocking, tries, payload, written, serving, loop>>
    BY <1>8 DEF ClientEnds, Ends, Hangs, device, server, Caller
  <2> QED BY <1>0, <2>1, KnownStays
<1>9. ASSUME UNCHANGED vars PROVE Known'
  <2>1. UNCHANGED <<knocking, hung, payload, written, serving, loop, tries>>
    BY <1>9 DEF vars, device, server, callers
  <2> QED BY <2>1, KnownSame
<1> QED
  BY <1>1, <1>2, <1>3, <1>4, <1>5, <1>6, <1>7, <1>8, <1>9
     DEF Next, Recording, Writing, Observer, Caller

\* As long as the device takes its bytes an answer to serial_write is true: after
\* ok the device was given them, once, and after an error not at all, unless the
\* proxy stopped meanwhile - whichever attempts failed, whoever else knocked
\* (portal.py, serial_write; plain_rfc2217_server.py, the client thread).
THEOREM AnswersTruthful ==
    ASSUME ~Stalls
    PROVE  Spec => []Truthful
<1> DEFINE HonestAll == \A w \in Writer : Honest(w)
<1>1. Init => Known /\ HonestAll
  <2> SUFFICES ASSUME Init PROVE Known /\ HonestAll
    OBVIOUS
  <2>1. /\ knocking = <<>> /\ hung = {} /\ payload = {} /\ serving = None
        /\ loop = "accept" /\ written = EmptyBag
    BY DEF Init
  <2>2. BagToSet(written) = {} /\ Range(knocking) = {}
    BY <2>1 DEF BagToSet, EmptyBag, SetToBag, Range
  <2>3. Known
    BY <2>1, <2>2 DEF Known
  <2>4. ASSUME NEW w \in Writer PROVE Honest(w)
    <3>1. client[w] = "idle" /\ answer[w] = None /\ None \notin {"ok", "error"}
      BY NoneAssumption DEF Init, Caller
    <3>2. ~Pending(Mine(w))
      BY <2>1 DEF Pending
    <3> QED BY <3>1, <3>2 DEF Honest
  <2> QED BY <2>3, <2>4
<1>2. PortIInv /\ Known /\ HonestAll /\ [Next]_vars => Known' /\ HonestAll'
  <2> SUFFICES ASSUME PortIInv, Known, HonestAll, [Next]_vars PROVE Known' /\ HonestAll'
    OBVIOUS
  <2>1. Owning
    BY DEF PortIInv, Owning
  <2>2. Known'
    BY <2>1, KnownStep
  <2>3. ASSUME NEW w \in Writer PROVE Honest(w)'
    BY <2>1, HonestStep
  <2> QED BY <2>2, <2>3
<1>3. HonestAll => Truthful
  BY DEF Honest, Truthful
<1> QED BY <1>1, <1>2, <1>3, PortIInvariant, PTL DEF Spec
=============================================================================
