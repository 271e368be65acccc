------------------------------ MODULE WifiRadio ------------------------------
(* The Pi's one WiFi radio (pi/wifi_controller.py) and the requests that turn *)
(* it into an access point or a station: the handlers of /api/wifi, the       *)
(* enter-portal thread and the radio part of the bench reset (pi/portal.py).  *)
(* A request is a list of calls into the controller; each call takes _lock    *)
(* for itself.                                                                *)
EXTENDS Naturals, Sequences, FiniteSets, SequencesExt

CONSTANTS
    Thread,         \* request threads, and the enter-portal threads
    Ssid,           \* names of an access point of our own
    Net,            \* networks that may be joined
    Mac,            \* stations
    None,
    Posted,         \* which kinds of request are posted
    SCAN_ATTEMPTS,
    MaxRequests,    \* bound: requests posted
    MaxLeases       \* bound: times a station obtains a lease

ASSUME NoneAssumption  == None \notin Ssid \cup Net \cup Thread
ASSUME CountAssumption == SCAN_ATTEMPTS \in Nat \ {0} /\ {MaxRequests, MaxLeases} \subseteq Nat
ASSUME MacAssumption   == IsFiniteSet(Mac)      \* a lease file has finitely many lines
ASSUME PostedAssumption ==
    Posted \subseteq {"ap_start", "ap_stop", "sta_join", "sta_leave", "serial", "testing",
                      "enter_portal", "bench_reset", "scan"}

VARIABLES
    lock,       \* who is in wifi_controller._lock
    mode,       \* _mode
    ap,         \* _ap_ssid, None when _ap_active is False
    hproc,      \* _ap_hostapd_proc, by the SSID it was started with
    hostapd,    \* SSIDs that a running hostapd beacons
    dnsmasq,    \* dnsmasq runs
    saved,      \* _saved_ap
    sta,        \* _sta_ssid, None when _sta_active is False
    wpa,        \* the network that a running wpa_supplicant is configured for
    watchers,   \* hostapd-watch threads
    polled,     \* they have looked at _ap_active since the last start began
    assoc,      \* stations that hostapd has associated
    unread,     \* stations whose AP-STA-DISCONNECTED line nobody has read
    leased,     \* dnsmasq's lease file, which outlives it
    notices,    \* lease notifications on their way, oldest first
    stations,   \* _stations
    req, todo, at,  \* each thread: its request, the calls left of it, where it is
    tries,      \* scan: attempts made
    quiet,      \* history: every attempt of this scan found an empty air
    result,     \* what the thread's last scan returned
    entering,   \* _enter_portal_running
    swept,      \* history: a bench reset has ended and nothing was posted since
    requests, granted

radio   == <<mode, ap, hproc, hostapd, dnsmasq, saved, sta, wpa>>
clients == <<watchers, polled, assoc, unread, leased, notices, stations, granted>>
scans   == <<tries, quiet, result>>
threads == <<req, todo, at, swept, requests>>
vars    == <<lock, radio, clients, scans, threads, entering>>

Modes == {"wifi-testing", "serial-interface"}
Call  == [op : {"ap_start"}, arg : Ssid]
    \cup [op : {"sta_join", "sta_join_internal"}, arg : Net]
    \cup [op : {"set_mode"}, arg : Modes]
    \cup [op : {"ap_stop", "sta_leave", "revert", "relay", "scan", "check", "flag"}, arg : {None}]

TypeOK ==
    /\ lock \in Thread \cup {None} /\ mode \in Modes
    /\ ap \in Ssid \cup {None} /\ hproc \in Ssid \cup {None} /\ saved \in Ssid \cup {None}
    /\ hostapd \in SUBSET Ssid /\ dnsmasq \in BOOLEAN
    /\ sta \in Net \cup {None} /\ wpa \in Net \cup {None}
    /\ watchers \in Nat /\ polled \in BOOLEAN
    /\ assoc \in SUBSET Mac /\ unread \in SUBSET Mac /\ leased \in SUBSET Mac
    /\ stations \in SUBSET Mac /\ notices \in Seq({"add", "del", "old"} \X Mac)
    /\ req \in [Thread -> Posted \cup {None}] /\ todo \in [Thread -> Seq(Call)]
    /\ at \in [Thread -> {"idle", "call", "lock", "beacon", "serve", "associate", "survey"}]
    /\ tries \in [Thread -> 0..(SCAN_ATTEMPTS - 1)] /\ quiet \in [Thread -> BOOLEAN]
    /\ result \in [Thread -> {None, "networks", "error"}]
    /\ entering \in BOOLEAN /\ swept \in BOOLEAN /\ requests \in Nat /\ granted \in Nat

\* The lease file may be left from an earlier run of the portal.
Init ==
    /\ lock = None /\ mode = "wifi-testing"
    /\ ap = None /\ hproc = None /\ hostapd = {} /\ dnsmasq = FALSE
    /\ saved = None /\ sta = None /\ wpa = None
    /\ watchers = 0 /\ polled = TRUE /\ assoc = {} /\ unread = {} /\ stations = {}
    /\ leased \in SUBSET Mac /\ notices = <<>> /\ granted = 0
    /\ req = [t \in Thread |-> None] /\ todo = [t \in Thread |-> <<>>]
    /\ at = [t \in Thread |-> "idle"]
    /\ tries = [t \in Thread |-> 0] /\ quiet = [t \in Thread |-> FALSE]
    /\ result = [t \in Thread |-> None]
    /\ entering = FALSE /\ swept = FALSE /\ requests = 0

-----------------------------------------------------------------------------
Do(op) == [op |-> op, arg |-> None]
On(op, arg) == [op |-> op, arg |-> arg]

\* The enter-portal handler and its thread: the flag, the board's own network, the
\* form, and the access point that the board is to join.
EnterCalls ==
    {<<Do("check"), Do("flag"), On("sta_join", n), Do("relay"), Do("sta_leave"),
       On("ap_start", s)>> : n \in Net, s \in Ssid}

\* The bench reset stops the AP, and then leaves the network.
BenchCalls == <<Do("ap_stop"), Do("sta_leave")>>

\* set_mode joins the network when it has changed the mode.
SerialCalls(n) == <<On("set_mode", "serial-interface"), On("sta_join_internal", n)>>

\* The calls each handler makes, in order.
Program(r) ==
    CASE r = "ap_start"     -> {<<On("ap_start", s)>> : s \in Ssid}
      [] r = "sta_join"     -> {<<On("sta_join", n)>> : n \in Net}
      [] r = "serial"       -> {SerialCalls(n) : n \in Net}
      [] r = "testing"      -> {<<On("set_mode", "wifi-testing")>>}
      [] r = "enter_portal" -> EnterCalls
      [] r = "bench_reset"  -> {BenchCalls}
      [] OTHER              -> {<<Do(r)>>}

Op(t)  == IF todo[t] = <<>> THEN "none" ELSE Head(todo[t]).op
Arg(t) == Head(todo[t]).arg
Rest(t) == Tail(todo[t])

Goto(t, l) == at' = [at EXCEPT ![t] = l]
Continue(t, calls) ==
    /\ todo' = [todo EXCEPT ![t] = calls] /\ Goto(t, "call")
    /\ UNCHANGED <<req, swept, requests>>

\* A call has returned, or has raised: set_mode takes its mode back, enter-portal
\* gives up after a failed join, the others go on with their next call.
Return(t) == Continue(t, Rest(t))
Raise(t) ==
    Continue(t, CASE Op(t) = "sta_join_internal" -> <<Do("revert")>>
                  [] Op(t) = "sta_join"          -> <<>>
                  [] OTHER                       -> Rest(t))

Acquire(t) == lock = None /\ lock' = t
Free == lock = None /\ UNCHANGED lock

\* _ap_stop_unlocked kills the hostapd it knows of.
SurvivorsAll == hostapd                     \* mutant
Survivors == hostapd \ {hproc}

StillActive == ap                           \* mutant
Inactive == None

ApStopped ==
    /\ ap' = Inactive /\ hproc' = None /\ hostapd' = Survivors /\ dnsmasq' = FALSE
    /\ stations' = {} /\ assoc' = {}
    /\ UNCHANGED <<watchers, polled, unread, leased, notices, granted>>

\* _sta_stop_unlocked also kills a wpa_supplicant it does not know of.
StaStopped == sta' = None /\ wpa' = None

\* _release_wlan kills every wpa_supplicant on the interface, whoever started it;
\* one is launched then, or none.
OnlySupplicant(n) == wpa' = n

-----------------------------------------------------------------------------
Post(t) ==
    /\ at[t] = "idle" /\ requests < MaxRequests
    /\ \E r \in Posted : \E calls \in Program(r) :
        /\ req' = [req EXCEPT ![t] = r] /\ todo' = [todo EXCEPT ![t] = calls]
    /\ Goto(t, "call") /\ requests' = requests + 1 /\ swept' = FALSE
    /\ UNCHANGED <<lock, radio, clients, scans, entering>>

\* The handler returns; the enter-portal thread clears its flag.
Reply(t) ==
    /\ at[t] = "call" /\ todo[t] = <<>>
    /\ req' = [req EXCEPT ![t] = None] /\ Goto(t, "idle")
    /\ entering' = (entering /\ req[t] # "enter_portal")
    /\ swept' = (req[t] = "bench_reset")
    /\ tries' = [tries EXCEPT ![t] = 0] /\ quiet' = [quiet EXCEPT ![t] = FALSE]
    /\ result' = [result EXCEPT ![t] = None]
    /\ UNCHANGED <<lock, radio, clients, todo, requests>>

\* _check_wifi_testing_mode, outside the lock.
CheckMode(t) ==
    /\ at[t] = "call" /\ Op(t) \in {"ap_start", "sta_join", "scan"}
    /\ IF mode # "wifi-testing" THEN Raise(t)
       ELSE Goto(t, "lock") /\ UNCHANGED <<req, todo, swept, requests>>
    /\ UNCHANGED <<lock, radio, clients, scans, entering>>

\* http_relay: whether it is refused, fails or is answered, the thread goes on.
Relay(t) ==
    /\ at[t] = "call" /\ Op(t) = "relay" /\ Return(t)
    /\ UNCHANGED <<lock, radio, clients, scans, entering>>

\* ap_start, up to the launch of hostapd: everything is stopped first.
ApBegin(t) ==
    /\ at[t] = "lock" /\ Op(t) = "ap_start" /\ Acquire(t)
    /\ ap' = None /\ hproc' = Arg(t) /\ hostapd' = Survivors \cup {Arg(t)} /\ dnsmasq' = FALSE
    /\ sta' = None /\ OnlySupplicant(None) /\ stations' = {} /\ assoc' = {} /\ unread' = {}
    /\ polled' = (watchers = 0) /\ Goto(t, "beacon")
    /\ UNCHANGED <<mode, saved, watchers, leased, notices, granted, scans, req, todo, swept, requests, entering>>

\* dnsmasq is launched on a live hostapd; it reports the leases of its file.
\* The start has slept longer than a watcher does between two looks.
ApServes(t) ==
    /\ at[t] = "beacon" /\ hproc \in hostapd /\ polled
    /\ dnsmasq' = TRUE /\ Goto(t, "serve")
    /\ notices' = notices \o SetToSeq({"old"} \X leased)
    /\ UNCHANGED <<lock, mode, ap, hproc, hostapd, saved, sta, wpa, watchers, polled, assoc, unread,
                   leased, stations, granted, scans, req, todo, swept, requests, entering>>

\* _ap_active is set before the watcher that loops on it is started.
WatchersLate == watchers                    \* mutant
WatchersAfter == watchers + 1

ApUp(t) ==
    /\ at[t] = "serve" /\ dnsmasq
    /\ ap' = Arg(t) /\ watchers' = WatchersAfter /\ stations' = {}
    /\ lock' = None /\ Return(t)
    /\ UNCHANGED <<mode, hproc, hostapd, dnsmasq, saved, sta, wpa, polled, assoc, unread,
                   leased, notices, granted, scans, entering>>

\* hostapd did not come up, or dnsmasq did not and hostapd is killed again.
ApFails(t) ==
    /\ \/ at[t] = "beacon" /\ hproc \notin hostapd /\ UNCHANGED <<hostapd, assoc>>
       \/ at[t] = "serve" /\ ~dnsmasq /\ hostapd' = hostapd \ {hproc} /\ assoc' = {}
    /\ lock' = None /\ Raise(t)
    /\ UNCHANGED <<mode, ap, hproc, dnsmasq, saved, sta, wpa, watchers, polled, unread,
                   leased, notices, stations, granted, scans, entering>>

ApStop(t) ==
    /\ at[t] = "call" /\ Op(t) = "ap_stop" /\ Free /\ ApStopped /\ Return(t)
    /\ UNCHANGED <<mode, saved, sta, wpa, scans, entering>>

\* sta_join, up to the launch of wpa_supplicant.
JoinBegin(t) ==
    /\ \/ at[t] = "lock" /\ Op(t) = "sta_join"
       \/ at[t] = "call" /\ Op(t) = "sta_join_internal"
    /\ Acquire(t) /\ saved' = ap /\ ApStopped
    /\ sta' = None /\ OnlySupplicant(Arg(t)) /\ Goto(t, "associate")
    /\ UNCHANGED <<mode, scans, req, todo, swept, requests, entering>>

\* Connected with an address; no connection or no address; or wpa_supplicant did
\* not go to the background in time, and is left behind.
JoinEnd(t) ==
    /\ at[t] = "associate" /\ lock' = None
    /\ \/ sta' = Arg(t) /\ Return(t) /\ UNCHANGED wpa
       \/ StaStopped /\ Raise(t)
       \/ Raise(t) /\ UNCHANGED <<sta, wpa>>
    /\ UNCHANGED <<mode, ap, hproc, hostapd, dnsmasq, saved, clients, scans, entering>>

\* The AP is restored outside the lock, because ap_start takes it.
LockLeaving(t) == IF saved = None THEN None ELSE t      \* mutant
LockLeft(t) == None
Restore == IF saved = None THEN <<>> ELSE <<On("ap_start", saved)>>

Leave(t) ==
    /\ at[t] = "call" /\ Op(t) = "sta_leave" /\ lock = None /\ lock' = LockLeft(t)
    /\ StaStopped /\ saved' = None /\ Continue(t, Restore \o Rest(t))
    /\ UNCHANGED <<mode, ap, hproc, hostapd, dnsmasq, clients, scans, entering>>

\* set_mode: nothing to do, or everything is stopped and the mode is changed.
SetMode(t) ==
    /\ at[t] = "call" /\ Op(t) = "set_mode" /\ Free
    /\ IF mode = Arg(t)
       THEN Continue(t, <<>>) /\ UNCHANGED <<mode, ap, hproc, hostapd, dnsmasq, sta, wpa, clients>>
       ELSE mode' = Arg(t) /\ ApStopped /\ StaStopped /\ Return(t)
    /\ UNCHANGED <<saved, scans, entering>>

Revert(t) ==
    /\ at[t] = "call" /\ Op(t) = "revert" /\ Free /\ mode' = "wifi-testing" /\ Return(t)
    /\ UNCHANGED <<ap, hproc, hostapd, dnsmasq, saved, sta, wpa, clients, scans, entering>>

\* scan refuses while the AP is up, without the lock.
ScanBegin(t) ==
    /\ at[t] = "lock" /\ Op(t) = "scan"
    /\ IF ap # None
       THEN result' = [result EXCEPT ![t] = "error"] /\ Return(t) /\ UNCHANGED quiet
       ELSE /\ quiet' = [quiet EXCEPT ![t] = TRUE] /\ Goto(t, "survey")
            /\ UNCHANGED <<req, todo, swept, requests, result>>
    /\ UNCHANGED <<lock, radio, clients, tries, entering>>

\* One `iw scan`: busy while the interface beacons.  Empty output is retried, and
\* in the end it is an error like the others.
Survey(t) ==
    /\ at[t] = "survey"
    /\ \E heard \in IF hostapd = {} THEN {"busy", "empty", "networks"} ELSE {"busy"} :
        /\ quiet' = [quiet EXCEPT ![t] = @ /\ heard = "empty"]
        /\ IF heard = "networks" \/ tries[t] + 1 = SCAN_ATTEMPTS
           THEN /\ result' = [result EXCEPT ![t] = IF heard = "networks" THEN heard ELSE "error"]
                /\ Return(t) /\ UNCHANGED tries
           ELSE /\ tries' = [tries EXCEPT ![t] = @ + 1]
                /\ UNCHANGED <<req, todo, at, swept, requests, result>>
    /\ UNCHANGED <<lock, radio, clients, entering>>

\* _handle_enter_portal tests its flag, and then sets it.
EnterPortal(t) ==
    /\ at[t] = "call" /\ Op(t) \in {"check", "flag"}
    /\ IF Op(t) = "flag" THEN entering' = TRUE /\ Return(t)
       ELSE /\ UNCHANGED entering
            /\ IF entering
               THEN /\ todo' = [todo EXCEPT ![t] = <<>>] /\ req' = [req EXCEPT ![t] = None]
                    /\ Goto(t, "idle") /\ UNCHANGED <<swept, requests>>
               ELSE Return(t)
    /\ UNCHANGED <<lock, radio, clients, scans>>

Step(t) ==
    \/ Reply(t) \/ CheckMode(t) \/ Relay(t)
    \/ ApBegin(t) \/ ApServes(t) \/ ApUp(t) \/ ApFails(t) \/ ApStop(t)
    \/ JoinBegin(t) \/ JoinEnd(t) \/ Leave(t) \/ SetMode(t) \/ Revert(t)
    \/ ScanBegin(t) \/ Survey(t) \/ EnterPortal(t)

-----------------------------------------------------------------------------
\* hostapd-watch looks at _ap_active, and at what hostapd has logged.
Watch ==
    /\ watchers > 0 /\ polled' = TRUE
    /\ IF ap = None THEN watchers' = watchers - 1 /\ UNCHANGED <<unread, stations>>
       ELSE stations' = stations \ unread /\ unread' = {} /\ UNCHANGED watchers
    /\ UNCHANGED <<lock, radio, assoc, leased, notices, granted, scans, threads, entering>>

\* A station associates and is given an address; its lease is new or known.
Associate(m) ==
    /\ hproc \in hostapd /\ dnsmasq /\ m \notin assoc /\ granted < MaxLeases
    /\ assoc' = assoc \cup {m} /\ leased' = leased \cup {m} /\ granted' = granted + 1
    /\ notices' = IF m \in leased THEN notices ELSE Append(notices, <<"add", m>>)
    /\ UNCHANGED <<lock, radio, watchers, polled, unread, stations, scans, threads, entering>>

\* It leaves, and hostapd logs it.
Dissociate(m) ==
    /\ m \in assoc /\ assoc' = assoc \ {m} /\ unread' = unread \cup {m}
    /\ UNCHANGED <<lock, radio, watchers, polled, leased, notices, stations, granted, scans, threads, entering>>

LeaseExpires(m) ==
    /\ dnsmasq /\ m \in leased \ assoc
    /\ leased' = leased \ {m} /\ notices' = Append(notices, <<"del", m>>)
    /\ UNCHANGED <<lock, radio, watchers, polled, assoc, unread, stations, granted, scans, threads, entering>>

\* handle_lease_event, without the lock.
StationsAfter(n) == IF n[1] = "del" THEN stations \ {n[2]} ELSE stations \cup {n[2]}

\* A notification is posted once, and lost if the portal does not take it within
\* two seconds: nobody looks.
LeaseEvent ==
    /\ notices # <<>> /\ notices' = Tail(notices)
    /\ stations' \in {StationsAfter(Head(notices)), stations}
    /\ UNCHANGED <<lock, radio, watchers, polled, assoc, unread, leased, granted, scans, threads, entering>>

\* hostapd gives up, now or while ap_start waits for it.
HostapdDies ==
    /\ hostapd # {} /\ hostapd' = {} /\ assoc' = {}
    /\ UNCHANGED <<lock, mode, ap, hproc, dnsmasq, saved, sta, wpa, watchers, polled, unread,
                   leased, notices, stations, granted, scans, threads, entering>>

\* dnsmasq ends at once when it cannot bind.
DnsmasqFails ==
    /\ dnsmasq /\ ap = None /\ dnsmasq' = FALSE
    /\ UNCHANGED <<lock, mode, ap, hproc, hostapd, saved, sta, wpa, clients, scans, threads, entering>>

Next ==
    \/ \E t \in Thread : Post(t) \/ Step(t)
    \/ \E m \in Mac : Associate(m) \/ Dissociate(m) \/ LeaseExpires(m)
    \/ Watch \/ LeaseEvent \/ HostapdDies \/ DnsmasqFails

\* Threads run, the watcher and dnsmasq's timers too; nobody has to post, to
\* associate or to fail.
Fairness ==
    /\ \A t \in Thread : WF_vars(Step(t))
    /\ WF_vars(Watch) /\ WF_vars(LeaseEvent) /\ \A m \in Mac : WF_vars(LeaseExpires(m))

Spec == Init /\ [][Next]_vars /\ Fairness

-----------------------------------------------------------------------------
(* Properties.                                                               *)

\* A thread holds the lock exactly from the launch of hostapd or wpa_supplicant
\* until it knows whether the process came up.
Holding == {"beacon", "serve", "associate"}
LockInv == \A t \in Thread : at[t] \in Holding <=> lock = t

\* One radio has one role: a hostapd that runs is the one ap_stop would kill, no
\* wpa_supplicant runs beside it, and what the controller reports as its AP or as
\* its network is what its processes were started for.
OneRole ==
    /\ hostapd \subseteq {hproc} /\ (hostapd # {} => wpa = None)
    /\ ap # None => hproc = ap /\ dnsmasq /\ sta = None
    /\ sta # None => wpa = sta

\* What a call that holds the lock may count on until it lets go: the process it
\* has launched is still the only one, nothing is reported of the radio, and an
\* AP that comes up meets no watcher of the AP before it.
CallInv ==
    \A t \in Thread :
        /\ at[t] = "lock" => Op(t) \in {"ap_start", "sta_join", "scan"}
        /\ at[t] = "survey" => Op(t) = "scan"
        /\ at[t] \in {"beacon", "serve"} => Op(t) = "ap_start" /\ hproc = Arg(t) /\ wpa = None
        /\ at[t] = "associate" =>
              Op(t) \in {"sta_join", "sta_join_internal"} /\ hproc = None /\ wpa = Arg(t)
        /\ at[t] \in Holding => ap = None /\ sta = None
        /\ (at[t] = "beacon" /\ polled) \/ at[t] = "serve" => watchers = 0

RadioInv == TypeOK /\ LockInv /\ OneRole /\ CallInv /\ watchers <= 1

\* While an AP is up one thread, and not two, reads hostapd's log.
OneWatcher == ap # None => watchers = 1

\* What the controller reports to use the radio: its AP, or the network joined.  A
\* role ends before another begins.
RadioUsers == ({"ap"} \X ({ap} \ {None})) \cup ({"sta"} \X ({sta} \ {None}))
Radio == INSTANCE ExclusiveUse WITH
    User <- ({"ap"} \X Ssid) \cup ({"sta"} \X Net), users <- RadioUsers
OneRoleAtATime == Radio!Spec

\* Every request is answered: no call waits for a lock its own thread holds.
Answered == \A t \in Thread : at[t] # "idle" ~> at[t] = "idle"

\* A station that hostapd has seen leave is taken off the list, whichever lease
\* notifications are lost, and however often the AP is stopped and started.
Listed == IF ap # None THEN stations ELSE {}
LeaverForgotten == \A m \in Mac : m \in Listed \cap unread ~> m \notin Listed \ assoc

\* A station that is not there any more is not listed for ever.
GhostForgotten == \A m \in Mac : m \in Listed \ assoc ~> m \notin Listed \ assoc

\* After a bench reset that nothing followed, the radio is idle.
BenchRadioIdle == swept /\ (\A t \in Thread : at[t] = "idle") => ap = None /\ sta = None

\* In serial-interface mode no AP is up: the test calls are disabled.
SerialModeQuiet == (mode = "serial-interface" /\ \A t \in Thread : at[t] = "idle") => ap = None

\* Only one enter-portal runs at a time.
OneEntering ==
    Cardinality({t \in Thread : req[t] = "enter_portal" /\ Op(t) \notin {"check", "flag"}}) <= 1

\* A scan of a quiet air returns the empty list.
QuietListed ==
    \A t \in Thread : req[t] = "scan" /\ todo[t] = <<>> /\ quiet[t] => result[t] # "error"
=============================================================================
