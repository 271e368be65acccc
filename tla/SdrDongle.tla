------------------------------ MODULE SdrDongle ------------------------------
(* The one receiver of the bench (pi/sdr_controller.py): one-shot captures,   *)
(* the live console with its reader thread, the probes that ask whether a     *)
(* dongle is there, and the handlers of /api/sdr and of the bench reset that  *)
(* call them (pi/portal.py).  What is received is left out.                   *)
EXTENDS Naturals, Sequences, FiniteSets

CONSTANTS
    Thread, None,
    Posted,         \* which kinds of request are posted
    Phases,         \* how many captures acquire makes at most
    MaxRequests     \* bound: requests posted

ASSUME NoneAssumption  == None \notin Thread \cup {"live", "shot"} /\ "live" \notin Thread
ASSUME CountAssumption == Phases \in Nat \ {0} /\ MaxRequests \in Nat
ASSUME PostedAssumption ==
    Posted \subseteq {"start_live", "stop_live", "live", "capture", "acquire", "stop", "reset", "bench"}

VARIABLES
    holder,     \* who has _lock: a capture, a stop at its barrier, or "live"
    owns,       \* _live_owns_lock
    admin,      \* who is in _live_admin
    live,       \* _live_proc, by its session's number; 0 is None
    up,         \* sessions whose rtl_433 runs
    readers,    \* sessions whose reader thread has not ended
    running,    \* _live_running
    sessions,   \* sessions launched
    state,      \* _state["mode"], None when not active
    shot,       \* the process of a one-shot capture runs
    todo, at,   \* each thread: the calls left of its request, where it is
    retried,    \* its start_live has reset the dongle once
    refused,    \* history: its request was refused because a capture is running
    swept,      \* history: a bench reset has ended and nothing was posted since
    requests

console == <<owns, live, up, readers, running, sessions>>
threads == <<todo, at, retried, refused, swept, requests>>
vars    == <<holder, admin, console, state, shot, threads>>

Call   == {"start", "cleanup", "reap", "probe", "shot", "halt", "reset", "detect", "swept"}
Place  == {"idle", "call", "admin", "spawn", "settle", "usb", "reaping", "probing",
           "ready", "locked", "launched", "capture", "barrier", "waiting", "release"}

TypeOK ==
    /\ holder \in Thread \cup {None, "live"} /\ admin \in Thread \cup {None}
    /\ owns \in BOOLEAN /\ running \in BOOLEAN /\ shot \in BOOLEAN
    /\ sessions \in Nat /\ live \in 0..sessions
    /\ up \in SUBSET (1..sessions) /\ readers \in SUBSET (1..sessions)
    /\ state \in {None, "live", "shot"}
    /\ todo \in [Thread -> Seq(Call)] /\ at \in [Thread -> Place]
    /\ retried \in [Thread -> BOOLEAN] /\ refused \in [Thread -> BOOLEAN]
    /\ swept \in BOOLEAN /\ requests \in Nat

Init ==
    /\ holder = None /\ owns = FALSE /\ admin = None /\ live = 0 /\ up = {} /\ readers = {}
    /\ running = FALSE /\ state = None /\ shot = FALSE /\ sessions = 0
    /\ todo = [t \in Thread |-> <<>>] /\ at = [t \in Thread |-> "idle"]
    /\ retried = [t \in Thread |-> FALSE] /\ refused = [t \in Thread |-> FALSE]
    /\ swept = FALSE /\ requests = 0

-----------------------------------------------------------------------------
(* The calls each handler makes, in order.                                   *)
LiveStatus == <<"reap", "probe">>
StopLive   == <<"cleanup">> \o LiveStatus
Stop       == <<"halt", "probe">>
BenchCalls == StopLive \o Stop \o <<"swept">>

\* capture, analyze and power: a command, its one run, and what its output says.
OneShot == <<"shot">>

\* Each phase of acquire captures; the next follows if it has found something.
AcquireCalls == {[i \in 1..n |-> "shot"] : n \in 1..Phases}

Program(r) ==
    CASE r = "start_live" -> {<<"start">> \o LiveStatus}
      [] r = "stop_live"  -> {StopLive}
      [] r = "live"       -> {LiveStatus}
      [] r = "capture"    -> {OneShot}
      [] r = "acquire"    -> AcquireCalls
      [] r = "stop"       -> {Stop}
      [] r = "reset"      -> {StopLive \o <<"reset", "detect", "probe">>}
      [] r = "bench"      -> {BenchCalls}

Doing(t, c) == at[t] = "call" /\ todo[t] # <<>> /\ Head(todo[t]) = c
Goto(t, l) == at' = [at EXCEPT ![t] = l] /\ UNCHANGED <<todo, retried, refused, swept, requests>>
Continue(t, calls) ==
    /\ todo' = [todo EXCEPT ![t] = calls] /\ at' = [at EXCEPT ![t] = "call"]
    /\ UNCHANGED <<retried, swept, requests>>
Return(t) == Continue(t, Tail(todo[t])) /\ UNCHANGED refused
Raise(t)  == Continue(t, <<>>) /\ UNCHANGED refused
Busy(t)   == Continue(t, <<>>) /\ refused' = [refused EXCEPT ![t] = TRUE]

Post(t) ==
    /\ at[t] = "idle" /\ requests < MaxRequests /\ requests' = requests + 1
    /\ \E r \in Posted : \E calls \in Program(r) : todo' = [todo EXCEPT ![t] = calls]
    /\ at' = [at EXCEPT ![t] = "call"] /\ swept' = FALSE
    /\ retried' = [retried EXCEPT ![t] = FALSE] /\ refused' = [refused EXCEPT ![t] = FALSE]
    /\ UNCHANGED <<holder, admin, console, state, shot>>

Reply(t) ==
    /\ at[t] = "call" /\ todo[t] \in {<<>>, <<"swept">>}
    /\ swept' = (todo[t] # <<>>)
    /\ at' = [at EXCEPT ![t] = "idle"] /\ todo' = [todo EXCEPT ![t] = <<>>]
    /\ UNCHANGED <<holder, admin, console, state, shot, retried, refused, requests>>

-----------------------------------------------------------------------------
\* _live_cleanup, always in _live_admin: the session's process ends, the state
\* is cleared whatever it said, and the lock is released if the console owns it.
ReleasedAny == None                                     \* mutant
Released == IF owns THEN None ELSE holder

Cleanup ==
    /\ up' = up \ {live} /\ live' = 0 /\ running' = FALSE /\ state' = None
    /\ holder' = Released /\ owns' = FALSE /\ UNCHANGED <<readers, sessions, shot>>

CleanupCall(t) ==
    /\ Doing(t, "cleanup") /\ admin = None /\ Cleanup /\ Return(t) /\ UNCHANGED admin

\* _require_ready, outside the locks: a dongle seen before, or one more rtl_test;
\* then the lock or a refusal.
Requires(t) ==
    /\ Doing(t, "start") \/ Doing(t, "shot")
    /\ Goto(t, "ready")
    /\ UNCHANGED <<holder, admin, console, state, shot>>
Ready(t, c) == Doing(t, c) \/ (at[t] = "ready" /\ Head(todo[t]) = c)

\* start_live.
Start(t) ==
    /\ Ready(t, "start") /\ (Goto(t, "admin") \/ Raise(t))
    /\ UNCHANGED <<holder, admin, console, state, shot>>

StartLocks(t) ==
    /\ at[t] = "admin" /\ admin = None
    /\ IF holder # None
       THEN Busy(t) /\ UNCHANGED <<holder, owns, admin>>
       ELSE holder' = "live" /\ owns' = TRUE /\ admin' = t /\ Goto(t, "spawn")
    /\ UNCHANGED <<live, up, readers, running, sessions, state, shot>>

\* _spawn_live; when rtl_433 cannot be launched everything is cleaned up.
Spawn(t) ==
    /\ at[t] = "spawn"
    /\ \/ /\ sessions' = sessions + 1 /\ live' = sessions'
          /\ up' = up \cup {sessions'} /\ readers' = readers \cup {sessions'}
          /\ running' = TRUE /\ state' = "live" /\ Goto(t, "settle")
          /\ UNCHANGED <<holder, owns, admin, shot>>
       \/ Cleanup /\ admin' = None /\ Raise(t)

\* _live_alive: it streams, or it is cleaned up and the dongle is reset, once.
Settle(t) ==
    /\ at[t] = "settle"
    /\ \/ live \in up /\ admin' = None /\ Return(t) /\ UNCHANGED <<holder, console, state, shot>>
       \/ live \notin up /\ Cleanup /\ ~retried[t] /\ Goto(t, "usb") /\ UNCHANGED admin
       \/ live \notin up /\ Cleanup /\ retried[t] /\ Raise(t) /\ admin' = None

\* After the reset the lock is taken again, unless a capture has it by now.
StartRetries(t) ==
    /\ at[t] = "usb"
    /\ \/ /\ holder = None /\ holder' = "live" /\ owns' = TRUE
          /\ retried' = [retried EXCEPT ![t] = TRUE] /\ at' = [at EXCEPT ![t] = "spawn"]
          /\ UNCHANGED <<admin, live, up, readers, running, sessions, state, shot,
                         todo, refused, swept, requests>>
       \/ holder # None /\ Cleanup /\ Busy(t) /\ admin' = None
       \/ Cleanup /\ Raise(t) /\ admin' = None

\* _reap_if_dead: the test without a lock, the cleanup with it.
Reap(t) ==
    /\ Doing(t, "reap")
    /\ IF owns /\ live # 0 /\ live \notin up THEN Goto(t, "reaping") ELSE Return(t)
    /\ UNCHANGED <<holder, admin, console, state, shot>>

ReapCleans(t) ==
    /\ at[t] = "reaping" /\ admin = None /\ Cleanup /\ Return(t) /\ UNCHANGED admin

\* hardware_status: rtl_test is run when nothing is said to use the dongle.
Probe(t) ==
    /\ Doing(t, "probe")
    /\ \/ state = None /\ ~running /\ Goto(t, "probing")
       \/ Return(t)
    /\ UNCHANGED <<holder, admin, console, state, shot>>

ProbeEnds(t) ==
    /\ at[t] = "probing" /\ Return(t) /\ UNCHANGED <<holder, admin, console, state, shot>>

\* _detect_hardware: rtl_test whoever uses the dongle.
Detect(t) ==
    /\ Doing(t, "detect") /\ Goto(t, "probing")
    /\ UNCHANGED <<holder, admin, console, state, shot>>

\* _run: ready, the lock or a refusal, the process, which _proc names a moment
\* after its launch, and its end.
Shot(t) ==
    /\ Ready(t, "shot")
    /\ \/ holder = None /\ holder' = t /\ Goto(t, "locked")
       \/ holder # None /\ Busy(t) /\ UNCHANGED holder
       \/ Raise(t) /\ UNCHANGED holder
    /\ UNCHANGED <<admin, console, state, shot>>

ShotSpawns(t) ==
    /\ at[t] = "locked" /\ state' = "shot" /\ shot' \in BOOLEAN /\ Goto(t, "launched")
    /\ UNCHANGED <<holder, admin, console>>

ShotNamed(t) ==
    /\ at[t] = "launched" /\ Goto(t, "capture") /\ UNCHANGED <<holder, admin, console, state, shot>>

ShotEnds(t) ==
    /\ at[t] = "capture" /\ ~shot /\ state' = None /\ holder' = None
    /\ (Return(t) \/ Raise(t)) /\ UNCHANGED <<admin, console, shot>>

\* stop: ends the capture that _proc names, and takes the lock once to know that it is over,
\* unless the console has it; for ten seconds at most.
PatienceEndless == FALSE                                \* mutant
Patience == TRUE

Halt(t) ==
    /\ Doing(t, "halt")
    /\ shot' = (shot /\ \E u \in Thread : at[u] = "launched")
    /\ Goto(t, "barrier") /\ UNCHANGED <<holder, admin, console, state>>

HaltLooks(t) ==
    /\ at[t] = "barrier" /\ (IF owns THEN Return(t) ELSE Goto(t, "waiting"))
    /\ UNCHANGED <<holder, admin, console, state, shot>>

HaltWaits(t) ==
    /\ at[t] = "waiting"
    /\ \/ holder = None /\ holder' = t /\ Goto(t, "release")
       \/ holder # None /\ Patience /\ Return(t) /\ UNCHANGED holder
    /\ UNCHANGED <<admin, console, state, shot>>

HaltLeaves(t) ==
    /\ at[t] = "release" /\ holder' = None /\ Return(t)
    /\ UNCHANGED <<admin, console, state, shot>>

\* reset_device: the dongle re-enumerates, which may end what streams from it; or
\* there is no dongle to reset.
Reset(t) ==
    /\ Doing(t, "reset") /\ admin = None
    /\ \/ up' \in {up, {}} /\ shot' \in {shot, FALSE} /\ Return(t)
       \/ Raise(t) /\ UNCHANGED <<up, shot>>
    /\ UNCHANGED <<holder, admin, owns, live, readers, running, sessions, state>>

Step(t) ==
    \/ Reply(t) \/ CleanupCall(t) \/ Requires(t) \/ Start(t) \/ StartLocks(t) \/ Spawn(t) \/ Settle(t)
    \/ StartRetries(t) \/ Reap(t) \/ ReapCleans(t) \/ Probe(t) \/ ProbeEnds(t) \/ Detect(t)
    \/ Shot(t) \/ ShotSpawns(t) \/ ShotNamed(t) \/ ShotEnds(t)
    \/ Halt(t) \/ HaltLooks(t) \/ HaltWaits(t) \/ HaltLeaves(t) \/ Reset(t)

\* _live_reader: the output ends with the process.
ReaderEnds ==
    /\ \E s \in readers \ up : readers' = readers \ {s}
    /\ running' = FALSE
    /\ UNCHANGED <<holder, admin, owns, live, up, sessions, state, shot, threads>>

\* rtl_433 exits: a capture's after its time, the console's when it fails.
ShotExits ==
    /\ shot /\ shot' = FALSE /\ UNCHANGED <<holder, admin, console, state, threads>>
LiveExits ==
    /\ \E s \in up : up' = up \ {s}
    /\ UNCHANGED <<holder, admin, owns, live, readers, running, sessions, state, shot, threads>>

Next == (\E t \in Thread : Post(t) \/ Step(t)) \/ ReaderEnds \/ ShotExits \/ LiveExits

\* A capture's process is given its duration; nobody has to post or to fail.
Spec == Init /\ [][Next]_vars
    /\ (\A t \in Thread : WF_vars(Step(t))) /\ WF_vars(ReaderEnds) /\ WF_vars(ShotExits)

-----------------------------------------------------------------------------
(* Properties.                                                               *)
Starting == {"spawn", "settle"}

\* The lock says who uses the dongle: the console owns it while it thinks so, a
\* capture from its refusal-or-lock to its end, and nobody gives back a lock that
\* another one holds; a thread inside a call knows what is left of its request.
LockInv ==
    /\ owns <=> holder = "live"
    /\ \A t \in Thread : holder = t <=> at[t] \in {"locked", "launched", "capture", "release"}
    /\ \A t \in Thread : admin = t <=> at[t] \in Starting \cup {"usb"}
    /\ \A t \in Thread : at[t] \in Starting => owns
    /\ \A t \in Thread : at[t] = "usb" => live = 0 /\ ~owns
    /\ \A t \in Thread : at[t] = "spawn" => up = {}
    /\ \A t \in Thread : at[t] \notin {"idle", "call"} => todo[t] # <<>>

\* One process at most receives from the dongle, and it is the lock holder's.
OneReceiver ==
    /\ up \subseteq {live} \ {0} /\ (up # {} => owns)
    /\ shot => \E t \in Thread : holder = t /\ at[t] \in {"launched", "capture"}

\* The processes that receive: one ends before another begins.
Receivers == ({"console"} \X up) \cup (IF shot THEN {<<"capture", 0>>} ELSE {})
Dongle == INSTANCE ExclusiveUse WITH
    User <- ({"console"} \X Nat) \cup {<<"capture", 0>>}, users <- Receivers
DonglePassedOn == Dongle!Spec

SdrInv == TypeOK /\ LockInv /\ OneReceiver

\* Every request is answered; stop never waits for an operator to end the console.
Answered == \A t \in Thread : at[t] # "idle" ~> at[t] = "idle"

\* A probe never opens the dongle while a receiver streams from it.
ProbeAlone == (\E t \in Thread : at[t] \in {"probing", "ready"}) => up = {} /\ ~shot

\* After a bench reset that nothing followed, nothing uses the dongle.
BenchDongleIdle == swept => up = {} /\ ~shot

\* A session is ended by a request, or by its own process, never by a status poll.
LiveKept == [][\A t \in Thread : ReapCleans(t) => live \notin up]_vars

\* A session that streams is reported as live.
LiveReported == (owns /\ live \in up /\ admin = None) => running

\* A changed setting of the console is applied by launching rtl_433 again: a start
\* is not refused because the console itself has the dongle.
RelaunchApplies == [][\A t \in Thread : at[t] = "admin" /\ refused'[t] => holder # "live"]_vars

\* Who is told that a capture is running is told the truth.
RefusedRightly ==
    [][(\E t \in Thread : refused'[t] /\ ~refused[t])
         => shot \/ up # {} \/ \E t \in Thread : at[t] = "locked"]_vars
=============================================================================
