------------------------------ MODULE SerialPort ------------------------------
(* The traffic of one slot: the proxy process that owns the device            *)
(* (pi/plain_rfc2217_server.py), and the portal's threads at its two ports:   *)
(* the recorder, serial_monitor and jtag_reset_capturing read the fan-out,    *)
(* serial_write is an RFC2217 client (pi/portal.py).  What the device says is *)
(* the lines 1, 2, 3...; bytes, splitting and decoding are left out.          *)
EXTENDS Naturals, Sequences, SequencesExt, FiniteSets

CONSTANTS
    Monitor, Kinds,     \* readers of the fan-out, and what they are for
    Writer, Client,     \* threads in serial_write, RFC2217 clients elsewhere
    Recorder, None,
    WRITE_ATTEMPTS,     \* connections a write tries (4 in the code)
    BACKLOG,            \* connections the control port holds unaccepted
    Buffer,             \* lines a connection holds that its reader has not read
    Stalls,             \* the device may stop accepting bytes
    MaxLines, MaxStarts, MaxCalls   \* bounds: the device, the proxy, and calls

Observer == Monitor \cup {Recorder}
Caller   == Writer \cup Client
\* A connection of a caller: its number tells a retry from what it abandoned.
Knock    == Caller \X Nat

ASSUME NoneAssumption   == None \notin Knock \cup {"ok", "error"}
ASSUME ThreadAssumption == Recorder \notin Monitor /\ Writer \cap Client = {}
ASSUME KindsAssumption  == Kinds # {}
ASSUME BoundAssumption  == MaxLines \in Nat /\ MaxStarts \in Nat

VARIABLES
    up, starts,     \* the proxy process runs, and slot["running"]; its starts
    said, taken,    \* lines the device has said, lines the drain has read
    waiting,        \* fan-out connections not accepted yet
    monitors,       \* the accepted ones, in whatever order
    monitors_lock,  \* whether fan_out holds it
    inbox, live,    \* each observer's connection: unread lines; it is open
    drain,          \* the drain thread: its place, line, fan-out left, client
    dead,           \* connections fan_out found dead
    pm_lock,        \* who used the PortManager last and has not left it
    knocking,       \* control connections not accepted yet
    serving, loop,  \* the client thread: its connection, its place
    control,        \* control["conn"]
    hung,           \* control connections their caller has closed
    payload,        \* control connections with bytes not received yet
    written,        \* how often the device was given the bytes of a connection
    at, got,        \* each observer: its place, the lines it has
    kind,           \* serial_monitor, jtag_reset_capturing or a watcher elsewhere
    client, tries,  \* each caller: its place, connections it has made
    left,           \* attempts its call has left
    answer,         \* what its last call answered
    cut,            \* history: the proxy stopped, or the device stalled, under it
    ring,           \* how often slot["_serial_buf"] has each line
    calls

process == <<up, starts>>
device  == <<said, taken, written>>
fan     == <<waiting, monitors, monitors_lock, dead>>
links   == <<inbox, live>>
server  == <<knocking, serving, loop, control>>
readers == <<at, got, kind, ring>>
callers == <<client, tries, left, answer, cut, hung, payload>>
vars    == <<process, device, fan, links, drain, pm_lock, server, readers, callers, calls>>

Resting == [at |-> "read", line |-> 0, todo |-> {}, to |-> None]

TypeOK ==
    /\ up \in BOOLEAN /\ starts \in 0..MaxStarts
    /\ said \in 0..MaxLines /\ taken \in 0..said
    /\ waiting \in Seq(Observer) /\ monitors \subseteq Observer /\ dead \subseteq Observer
    /\ monitors_lock \in BOOLEAN /\ pm_lock \in {"free", "drain", "loop"}
    /\ inbox \in [Observer -> Seq(1..said)] /\ live \in [Observer -> BOOLEAN]
    /\ drain \in [at : {"read", "fan", "sending", "route", "escape", "escaping", "send", "gone"},
                  line : 0..said, todo : SUBSET Observer, to : Knock \cup {None}]
    /\ knocking \in Seq(Knock) /\ serving \in Knock \cup {None}
    /\ control \in Knock \cup {None} /\ hung \subseteq Knock /\ payload \subseteq Knock
    /\ loop \in {"accept", "recv", "filter", "write"} /\ IsABag(written)
    /\ at \in [Observer -> {"idle", "reading", "looking"}]
    /\ got \in [Observer -> Seq(1..said)]
    /\ client \in [Caller -> {"idle", "connect", "opening", "open", "holding"}]
    /\ tries \in [Caller -> Nat] /\ cut \in [Writer -> BOOLEAN]
    /\ answer \in [Writer -> {None, "ok", "error"}]
    /\ kind \in [Monitor -> Kinds] /\ ring \in [1..MaxLines -> Nat]

\* The portal may have had a proxy before, and its recorder not have noticed
\* yet that the connection has ended.
Init ==
    /\ up = FALSE /\ starts = 0 /\ said = 0 /\ taken = 0 /\ written = EmptyBag
    /\ waiting = <<>> /\ monitors = {} /\ monitors_lock = FALSE /\ dead = {}
    /\ inbox = [o \in Observer |-> <<>>] /\ live = [o \in Observer |-> FALSE]
    /\ drain = Resting /\ pm_lock = "free"
    /\ knocking = <<>> /\ serving = None /\ loop = "accept" /\ control = None
    /\ \E l \in {"idle", "looking", "reading"} :
          at = [o \in Observer |-> IF o = Recorder THEN l ELSE "idle"]
    /\ got = [o \in Observer |-> <<>>]
    /\ kind = [m \in Monitor |-> CHOOSE k \in Kinds : TRUE]
    /\ ring = [i \in 1..MaxLines |-> 0]
    /\ client = [c \in Caller |-> "idle"] /\ tries = [c \in Caller |-> 0]
    /\ left = [c \in Caller |-> 0] /\ answer = [w \in Writer |-> None]
    /\ cut = [w \in Writer |-> FALSE] /\ hung = {} /\ payload = {} /\ calls = 0

-----------------------------------------------------------------------------
(* The process and the device.                                               *)

\* start_proxy ends with _start_recorder: liveness, not a flag.
ProxyStarts ==
    /\ ~up /\ starts < MaxStarts /\ up' = TRUE /\ starts' = starts + 1
    /\ at' = [at EXCEPT ![Recorder] = IF @ = "idle" THEN "looking" ELSE @]
    /\ taken' = said /\ drain' = Resting
    /\ UNCHANGED <<said, written, fan, links, pm_lock, server, got, kind, ring, callers, calls>>

\* Its sockets go with it, and what it had read of either side.
ProxyStops ==
    /\ up /\ up' = FALSE
    /\ waiting' = <<>> /\ monitors' = {} /\ monitors_lock' = FALSE /\ dead' = {}
    /\ drain' = Resting /\ pm_lock' = "free"
    /\ knocking' = <<>> /\ serving' = None /\ loop' = "accept" /\ control' = None
    /\ hung' = {} /\ payload' = {} /\ cut' = [w \in Writer |-> TRUE]
    /\ UNCHANGED <<starts, device, links, at, got, kind, ring>>
    /\ UNCHANGED <<client, tries, left, answer, calls>>

DeviceSays ==
    /\ said < MaxLines /\ said' = said + 1 /\ taken' = IF up THEN taken ELSE said'
    /\ UNCHANGED <<process, written, fan, links, drain, pm_lock, server, readers, callers, calls>>

-----------------------------------------------------------------------------
(* The fan-out: the acceptor, and the drain thread, which reads the device.   *)
Accept ==
    /\ up /\ waiting # <<>> /\ ~monitors_lock
    /\ monitors' = monitors \cup {Head(waiting)} /\ waiting' = Tail(waiting)
    /\ UNCHANGED <<process, device, monitors_lock, dead, links, drain, pm_lock, server>>
    /\ UNCHANGED <<readers, callers, calls>>

Drain(next) == drain' = next /\ UNCHANGED <<process, server, readers, callers, calls>>

DrainReads ==
    /\ up /\ drain.at = "read" /\ taken < said /\ taken' = taken + 1
    /\ Drain([drain EXCEPT !.at = "fan", !.line = taken'])
    /\ UNCHANGED <<said, written, fan, links, pm_lock>>

FanLocks ==
    /\ drain.at = "fan" /\ ~monitors_lock /\ monitors_lock' = TRUE /\ dead' = {}
    /\ Drain([drain EXCEPT !.at = "sending", !.todo = monitors])
    /\ UNCHANGED <<device, waiting, monitors, links, pm_lock>>

\* sendall blocks while the connection is full.  A connection closed by its
\* reader takes one more line, or is found dead; it is removed after the loop.
AfterEnded(o) == {}                                                     \* mutant
After(o) == drain.todo \ {o}

FanSends ==
    /\ drain.at = "sending"
    /\ \E o \in drain.todo :
       \/ /\ live[o] /\ Len(inbox[o]) < Buffer
          /\ inbox' = [inbox EXCEPT ![o] = Append(@, drain.line)]
          /\ Drain([drain EXCEPT !.todo = @ \ {o}]) /\ UNCHANGED dead
       \/ /\ ~live[o] /\ dead' = dead \cup {o} /\ UNCHANGED inbox
          /\ Drain([drain EXCEPT !.todo = After(o)])
       \/ /\ ~live[o] /\ Drain([drain EXCEPT !.todo = @ \ {o}]) /\ UNCHANGED <<dead, inbox>>
    /\ UNCHANGED <<device, waiting, monitors, monitors_lock, live, pm_lock>>

FanEnds ==
    /\ drain.at = "sending" /\ drain.todo = {} /\ monitors_lock' = FALSE
    /\ monitors' = monitors \ dead /\ dead' = {}
    /\ Drain([drain EXCEPT !.at = "route"])
    /\ UNCHANGED <<device, waiting, links, pm_lock>>

\* The client of the moment, read under control_lock and used after it.
Routes ==
    /\ drain.at = "route"
    /\ Drain(IF control = None THEN Resting ELSE [drain EXCEPT !.at = "escape", !.to = control])
    /\ UNCHANGED <<device, fan, links, pm_lock>>

\* pm_lock around escape and around filter: two at once corrupt the telnet
\* state, and the payload of a filter is lost.
PmTakenAnyway(who) == pm_lock' = who                                    \* mutant
PmTaken(who) == pm_lock = "free" /\ pm_lock' = who

Escapes ==
    /\ drain.at = "escape" /\ PmTaken("drain") /\ Drain([drain EXCEPT !.at = "escaping"])
    /\ UNCHANGED <<device, fan, links>>

Escaped ==
    /\ drain.at = "escaping" /\ pm_lock' = "free" /\ Drain([drain EXCEPT !.at = "send"])
    /\ UNCHANGED <<device, fan, links>>

\* Whichever client is in control when the send fails is the one forgotten.
AfterFailureGone == [Resting EXCEPT !.at = "gone"]                      \* mutant
AfterFailure == Resting

DrainSends ==
    /\ drain.at = "send"
    /\ \/ /\ drain.to = serving /\ drain' = Resting /\ UNCHANGED control
       \/ /\ \/ drain.to # serving \/ drain.to \in hung
             \/ drain.to[1] \in Client              \* it stopped reading for 30 s
          /\ drain' = AfterFailure /\ control' = None
    /\ UNCHANGED <<process, device, fan, links, pm_lock, knocking, serving, loop>>
    /\ UNCHANGED <<readers, callers, calls>>

-----------------------------------------------------------------------------
(* Who reads the fan-out.                                                    *)
Connects(o) ==
    /\ up /\ o \notin Range(waiting) \cup monitors /\ waiting' = Append(waiting, o)
    /\ inbox' = [inbox EXCEPT ![o] = <<>>] /\ live' = [live EXCEPT ![o] = TRUE]
    /\ at' = [at EXCEPT ![o] = "reading"] /\ got' = [got EXCEPT ![o] = <<>>]
    /\ UNCHANGED <<process, device, monitors, monitors_lock, dead, drain, pm_lock, server>>
    /\ UNCHANGED <<ring, callers>>

Records(o) == o = Recorder \/ (o # Recorder /\ kind[o] = "monitor")

Reads(o) ==
    /\ at[o] = "reading" /\ inbox[o] # <<>>
    /\ LET i == Head(inbox[o]) IN
       /\ got' = [got EXCEPT ![o] = Append(@, i)]
       /\ ring' = IF Records(o) THEN [ring EXCEPT ![i] = @ + 1] ELSE ring
    /\ inbox' = [inbox EXCEPT ![o] = Tail(@)]
    /\ UNCHANGED <<process, device, fan, live, drain, pm_lock, server>>
    /\ UNCHANGED <<at, kind, callers, calls>>

Closes(o, next) ==
    /\ at[o] = "reading" /\ at' = [at EXCEPT ![o] = next]
    /\ live' = [live EXCEPT ![o] = FALSE] /\ inbox' = [inbox EXCEPT ![o] = <<>>]
    /\ got' = [got EXCEPT ![o] = <<>>]
    /\ UNCHANGED <<process, device, fan, drain, pm_lock, server, kind, callers, calls>>

\* The recorder goes back to asking when its connection has ended.
AfterEofEnds == "idle"                                                  \* mutant
AfterEof == "looking"

RecorderConnects == at[Recorder] = "looking" /\ Connects(Recorder) /\ UNCHANGED <<kind, calls>>

RecorderLeft ==
    /\ Recorder \notin Range(waiting) \cup monitors /\ (inbox[Recorder] = <<>> \/ ~up)
    /\ Closes(Recorder, AfterEof) /\ UNCHANGED ring

Connect(m) ==
    /\ at[m] = "idle" /\ calls < MaxCalls /\ calls' = calls + 1 /\ Connects(m)
    /\ \E k \in Kinds : kind' = [kind EXCEPT ![m] = k]

\* A match, the deadline, the end of the connection, or a reset that failed.
\* jtag_reset_capturing records what it has read only now.
MonitorEnds(m) ==
    /\ Closes(m, "idle")
    /\ \/ ring' = ring
       \/ /\ kind[m] = "jtag"
          /\ ring' = [i \in 1..MaxLines |-> IF i \in Range(got[m]) THEN ring[i] + 1 ELSE ring[i]]

-----------------------------------------------------------------------------
(* The control port: serial_write and the RFC2217 clients of other programs.  *)
Mine(c) == <<c, tries[c]>>
Attempts(c) == IF c \in Writer THEN WRITE_ATTEMPTS ELSE 1
Answered(c, a) == answer' = IF c \in Writer THEN [answer EXCEPT ![c] = a] ELSE answer

Call(c) ==
    /\ client[c] = "idle" /\ up /\ calls < MaxCalls /\ calls' = calls + 1
    /\ client' = [client EXCEPT ![c] = "connect"] /\ left' = [left EXCEPT ![c] = Attempts(c)]
    /\ tries' = [tries EXCEPT ![c] = @ + 1] /\ Answered(c, None)
    /\ cut' = IF c \in Writer THEN [cut EXCEPT ![c] = FALSE] ELSE cut
    /\ UNCHANGED <<process, device, fan, links, drain, pm_lock, server, readers>>
    /\ UNCHANGED <<hung, payload>>

Knocks(c) ==
    /\ client[c] = "connect" /\ up /\ Len(knocking) < BACKLOG
    /\ knocking' = Append(knocking, Mine(c)) /\ client' = [client EXCEPT ![c] = "opening"]
    /\ UNCHANGED <<process, device, fan, links, drain, pm_lock, serving, loop, control, readers>>
    /\ UNCHANGED <<tries, left, answer, cut, hung, payload, calls>>

\* The attempt failed; the next comes a second later, until none is left.
Retries(c) ==
    /\ left' = [left EXCEPT ![c] = @ - 1]
    /\ IF left[c] > 1
       THEN /\ client' = [client EXCEPT ![c] = "connect"] /\ tries' = [tries EXCEPT ![c] = @ + 1]
            /\ UNCHANGED answer
       ELSE client' = [client EXCEPT ![c] = "idle"] /\ Answered(c, "error") /\ UNCHANGED tries

Refused(c) ==
    /\ client[c] = "connect" /\ (~up \/ Len(knocking) >= BACKLOG) /\ Retries(c)
    /\ UNCHANGED <<process, device, fan, links, drain, pm_lock, server, readers>>
    /\ UNCHANGED <<cut, hung, payload, calls>>

\* open() gives up when nobody negotiates; a connection the server can still
\* come to is left behind, closed.
Hangs(c) == hung' = IF Mine(c) = serving \/ Mine(c) \in Range(knocking) THEN hung \cup {Mine(c)}
                    ELSE hung

GivesUp(c) ==
    /\ client[c] = "opening" /\ Mine(c) # serving /\ Hangs(c) /\ Retries(c)
    /\ UNCHANGED <<process, device, fan, links, drain, pm_lock, server, readers>>
    /\ UNCHANGED <<cut, payload, calls>>

Opens(c) ==
    /\ client[c] = "opening" /\ Mine(c) = serving /\ client' = [client EXCEPT ![c] = "open"]
    /\ UNCHANGED <<process, device, fan, links, drain, pm_lock, server, readers>>
    /\ UNCHANGED <<tries, left, answer, cut, hung, payload, calls>>

Ends(c, a) ==
    /\ client' = [client EXCEPT ![c] = "idle"] /\ Hangs(c) /\ Answered(c, a)
    /\ UNCHANGED <<process, device, fan, links, drain, pm_lock, server, readers>>
    /\ UNCHANGED <<tries, left, cut, payload, calls>>

\* What is sent to a proxy that is gone may seem to have been written.
Writes(w) ==
    /\ client[w] = "open"
    /\ IF Mine(w) # serving THEN \E a \in {"ok", "error"} : Ends(w, a)
       ELSE /\ payload' = payload \cup {Mine(w)} /\ client' = [client EXCEPT ![w] = "holding"]
            /\ UNCHANGED <<process, device, fan, links, drain, pm_lock, server, readers>>
            /\ UNCHANGED <<tries, left, answer, cut, hung, calls>>

\* The connection is held for 0.6 s, which the proxy needs less of unless the
\* device does not take the bytes; then it is closed, and the write is a success.
Holds(w) == Mine(w) = serving /\ (Mine(w) \in payload \/ loop = "filter" \/ (loop = "write" /\ ~Stalls))

WriteEnds(w) == client[w] = "holding" /\ ~Holds(w) /\ Ends(w, "ok")
ClientEnds(c) == client[c] = "open" /\ Ends(c, "ok")

-----------------------------------------------------------------------------
(* The client thread of the proxy: one RFC2217 client at a time.              *)
Loop(next) == loop' = next /\ UNCHANGED <<process, fan, links, drain, readers>>
              /\ UNCHANGED <<said, taken, client, tries, left, answer, calls>>

LoopAccepts ==
    /\ up /\ loop = "accept" /\ knocking # <<>> /\ knocking' = Tail(knocking)
    /\ serving' = Head(knocking) /\ control' = Head(knocking)
    /\ Loop("recv") /\ UNCHANGED <<written, pm_lock, cut, hung, payload>>

LoopReceives ==
    /\ loop = "recv" /\ serving \in payload /\ payload' = payload \ {serving}
    /\ PmTaken("loop") /\ Loop("filter")
    /\ UNCHANGED <<written, knocking, serving, control, cut, hung>>

LoopFilters ==
    /\ loop = "filter" /\ pm_lock' = "free"
    /\ Loop(IF pm_lock = "loop" THEN "write" ELSE "recv")
    /\ UNCHANGED <<written, knocking, serving, control, cut, hung, payload>>

\* With nobody left the control lines are low again, and the next may come.
Forget == serving' = None /\ control' = None /\ hung' = hung \ {serving}
          /\ payload' = payload \ {serving}

LoopWrites ==
    /\ loop = "write"
    /\ \/ /\ written' = written (+) SetToBag({serving}) /\ Loop("recv")
          /\ UNCHANGED <<serving, control, cut, hung, payload>>
       \/ /\ Stalls /\ Forget /\ Loop("accept") /\ UNCHANGED <<written, cut>>
    /\ UNCHANGED <<knocking, pm_lock>>

LoopLeaves ==
    /\ loop = "recv" /\ serving \in hung \ payload /\ Forget /\ Loop("accept")
    /\ UNCHANGED <<written, knocking, pm_lock, cut>>

-----------------------------------------------------------------------------
Proxy == Accept \/ DrainReads \/ FanLocks \/ FanSends \/ FanEnds \/ Routes \/ Escapes
         \/ Escaped \/ DrainSends \/ LoopAccepts \/ LoopReceives \/ LoopFilters
         \/ LoopWrites \/ LoopLeaves
Recording == RecorderConnects \/ RecorderLeft \/ Reads(Recorder)
Writing(c) == Knocks(c) \/ Refused(c) \/ GivesUp(c) \/ Opens(c)
              \/ (c \in Writer /\ (Writes(c) \/ WriteEnds(c)))

Next ==
    \/ ProxyStarts \/ ProxyStops \/ DeviceSays \/ Proxy \/ Recording
    \/ \E m \in Monitor : Connect(m) \/ Reads(m) \/ MonitorEnds(m)
    \/ \E c \in Caller : Call(c) \/ Writing(c)
    \/ \E c \in Client : ClientEnds(c)

Spec == Init /\ [][Next]_vars

\* Each thread of the proxy and of the portal goes on; a caller elsewhere need
\* not, nor one that watches the fan-out from elsewhere.
FairSpec ==
    /\ Spec /\ WF_vars(Accept) /\ WF_vars(DrainReads \/ FanLocks \/ FanSends \/ FanEnds)
    /\ WF_vars(Routes \/ Escapes \/ Escaped \/ DrainSends)
    /\ WF_vars(LoopAccepts \/ LoopReceives \/ LoopFilters \/ LoopWrites \/ LoopLeaves)
    /\ WF_vars(RecorderConnects \/ RecorderLeft) /\ WF_vars(Reads(Recorder))
    /\ \A m \in Monitor : WF_vars(kind[m] # "watch" /\ (Reads(m) \/ MonitorEnds(m)))
    /\ \A c \in Caller : WF_vars(Writing(c))

-----------------------------------------------------------------------------
\* monitors_lock is held exactly while the fan-out sends and pm_lock by one user
\* at a time; a reader has one connection, accepted or not; the drain sends to the
\* client being served or to none.
PortInv ==
    /\ TypeOK
    /\ monitors_lock <=> drain.at = "sending"
    /\ drain.at = "escaping" <=> pm_lock = "drain"
    /\ loop = "filter" <=> pm_lock = "loop"
    /\ loop = "accept" <=> serving = None
    /\ control \in {serving, None}
    /\ IsInjective(waiting) /\ Range(waiting) \cap monitors = {}

\* Every reader of the fan-out gets the device's lines in order and without a
\* gap, up to the one being sent, whoever comes and goes beside it (fan_out).
Stream(o) == got[o] \o inbox[o]
Sent(o) == IF drain.at = "fan" \/ o \in drain.todo THEN taken - 1 ELSE taken
InOrder ==
    \A o \in Observer : LET s == Stream(o) IN
        /\ \A i \in 1..(Len(s) - 1) : s[i + 1] = s[i] + 1
        /\ o \in monitors /\ live[o] /\ s # <<>> => s[Len(s)] = Sent(o)

\* How often a bag has an element.
Copies(k, bag) == IF BagIn(k, bag) THEN bag[k] ELSE 0

\* An answer to serial_write is true: after ok the device was given the bytes,
\* once, and after an error not at all, unless the proxy stopped meanwhile.
Truthful ==
    \A w \in Writer :
        LET times == Copies(Mine(w), written) IN
        /\ answer[w] = "ok" /\ ~cut[w] => times = 1
        /\ answer[w] = "error" => times = 0

\* The same whatever the proxy and the device do.
Proven == \A w \in Writer : answer[w] = "ok" => BagIn(Mine(w), written)

\* The fan-out waits for a reader that does not read.
Blocked ==
    drain.at = "sending" /\ \E o \in drain.todo : live[o] /\ Len(inbox[o]) >= Buffer

\* What the device says while the recorder is attached is in the slot's buffer
\* in the end (the lines before the last one by InOrder), and every time the
\* proxy is up the recorder finds its way back to it: whoever comes, goes or
\* dies beside it, only a reader from elsewhere that keeps its connection and
\* stops reading for good can prevent that.
Recorded ==
    <>[]Blocked \/
    ((taken < said /\ Recorder \in monitors) ~> (said = 0 \/ ring[said] > 0 \/ ~up))

RecorderReturns == <>[]Blocked \/ (up ~> (~up \/ Recorder \in monitors))

\* No reader stops the fan-out for good.
NeverBlocked == Blocked ~> ~Blocked

\* serial_write always comes to an answer.
WriteAnswered == \A w \in Writer : client[w] # "idle" ~> client[w] = "idle"

\* What the device says while the proxy is up is in the buffer in the end.
AlwaysRecorded == \A i \in 1..MaxLines : (i \in taken + 1 .. said) ~> (ring[i] > 0 \/ ~up)

\* A line is in the slot's buffer once.
RecordedOnce == \A i \in 1..MaxLines : ring[i] <= 1

\* The client being served is the one that the drain sends to.
ClientHears == serving # None => control = serving \/ serving \in hung
=============================================================================
