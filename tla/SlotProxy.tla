------------------------------ MODULE SlotProxy ------------------------------
(* One serial slot of the bench and the portal threads that start, stop and   *)
(* restart its RFC2217 proxy (pi/portal.py), with the proxy processes they    *)
(* spawn (pi/plain_rfc2217_server.py).  A storm of hotplug events is only     *)
(* ever over here: how one begins is in FlapRecovery.                         *)
(*                                                                            *)
(* Every HTTP request and every background job is a thread of its own.  A     *)
(* step of a thread runs from one blocking call (lock wait, sleep, process    *)
(* spawn, process wait, socket) to the next.  A slot has one devnode here:    *)
(* `present` also says that slot["devnode"] is set.                           *)
EXTENDS Naturals, Sequences, FiniteSets

CONSTANTS
    Thread,     \* portal threads
    Pid,        \* process ids the kernel hands out; a dead one is reused
    None,       \* Python's None
    Ops,        \* the operations requested in this instance
    MaxCrash,   \* bound: proxies that die on their own
    MaxReplug   \* bound: times the cable is pulled or plugged

AllOps == {"start", "stop", "flash", "reset", "add", "remove",
           "restart", "bench", "monitor", "health"}

\* Operations that take slot["_lock"] and look at the slot again under it.
LockedOps == {"start", "stop", "flash", "reset", "add", "remove", "monitor"}

ASSUME OpsAssumption   == Ops \subseteq AllOps
ASSUME NoneAssumption  == None \notin Pid \cup Thread
ASSUME BoundAssumption == MaxCrash \in Nat /\ MaxReplug \in Nat

VARIABLES
    lock,       \* owner of slot["_lock"], or None
    running,    \* slot["running"]
    pid,        \* slot["pid"]
    state,      \* slot["state"]
    present,    \* slot["present"], and slot["devnode"] is set
    failed,     \* slot["last_error"] is set
    flapping,   \* slot["flapping"]
    proc,       \* what each proxy process has reached; "none": no such process
    plugged,    \* the device node exists
    udev,       \* hotplug notifications on their way, oldest first
    pc, op,     \* where each thread is, and in which operation
    was,        \* was_running, the local of flash_device and read_flash_device
    child,      \* the process a thread has spawned and not yet recorded
    ended,      \* history: what has ended without a proxy since one last came up
    crashes, replugs

slot   == <<running, pid, state, present, failed, flapping>>
env    == <<plugged, udev, ended, crashes, replugs>>
thread == <<pc, op, was, child>>
vars   == <<lock, running, pid, state, present, failed, flapping, proc,
            plugged, udev, ended, crashes, replugs, pc, op, was, child>>

State == {"absent", "idle", "resetting", "monitoring", "flapping"}
\* A user's stop, a removal, a reset that could not open the port, an exception.
End   == {"stop", "remove", "reset", "raised"}
Stage == {"none", "boot", "open", "serve"}
Pc    == {"idle", "enter", "kill", "clear", "open", "drive", "reenter",
          "spawn", "poll", "ports", "watch", "forget"}

TypeOK ==
    /\ lock \in Thread \cup {None}
    /\ running \in BOOLEAN /\ present \in BOOLEAN /\ failed \in BOOLEAN
    /\ flapping \in BOOLEAN /\ plugged \in BOOLEAN
    /\ pid \in Pid \cup {None}
    /\ state \in State
    /\ proc \in [Pid -> Stage]
    /\ udev \in Seq({"add", "remove"})
    /\ pc \in [Thread -> Pc]
    /\ op \in [Thread -> AllOps \cup {"detect", "none"}]
    /\ was \in [Thread -> BOOLEAN]
    /\ child \in [Thread -> Pid \cup {None}]
    /\ ended \subseteq End
    /\ crashes \in Nat /\ replugs \in Nat

\* The slot as load_config leaves it, before or after a hotplug storm; a
\* device already plugged is announced by the boot scan or by udev.
Init ==
    /\ lock = None /\ running = FALSE /\ pid = None /\ failed = FALSE
    /\ flapping \in BOOLEAN /\ (flapping => "restart" \in Ops)
    /\ plugged \in BOOLEAN /\ (flapping => plugged)
    /\ present = flapping
    /\ state = IF flapping THEN "flapping" ELSE "absent"
    /\ udev = IF plugged /\ ~present THEN <<"add">> ELSE <<>>
    /\ proc = [p \in Pid |-> "none"]
    /\ pc = [t \in Thread |-> "idle"] /\ op = [t \in Thread |-> "none"]
    /\ was = [t \in Thread |-> FALSE] /\ child = [t \in Thread |-> None]
    /\ ended = {} /\ crashes = 0 /\ replugs = 0

-----------------------------------------------------------------------------
\* The recorded process lives.  _is_process_alive may say so of a dead one too,
\* as long as nobody has reaped it.
Alive(p) == p # None /\ proc[p] # "none"

\* is_port_listening on both ports: somebody answers, whoever it is.
ServingUnchecked == TRUE    \* mutant: the port loop of start_proxy is dropped
Serving == \E p \in Pid : proc[p] = "serve"

\* STATE_IDLE if slot["present"] else STATE_ABSENT
Settled == IF present THEN "idle" ELSE "absent"

Run(t, o, l) == /\ pc' = [pc EXCEPT ![t] = l]
                /\ op' = [op EXCEPT ![t] = IF l = "idle" THEN "none" ELSE o]

Begin(t, o, l) == pc[t] = "idle" /\ Run(t, o, l)

Goto(t, l) == Run(t, op[t], l)

\* Whether an operation that owns the lock stops the proxy first.
StopsFirstOnRequest(t) == op[t] \in {"stop", "remove", "reset"}     \* mutant
StopsFirst(t) ==
    \/ op[t] \in {"stop", "remove", "reset"}
    \/ op[t] \in {"start", "add"} /\ running /\ pid # None
    \/ op[t] = "flash" /\ running

\* Whether an operation that comes back for the lock starts the proxy again.
RestartsUnchecked(t)  == op[t] = "flash" => was[t]          \* mutant
RestartsOnlyReset(t)  == op[t] = "reset" /\ ~running        \* mutant
Restarts(t) ==
    CASE op[t] = "flash"  -> was[t] /\ ~running
      [] op[t] = "reset"  -> ~running
      [] op[t] = "detect" -> present /\ ~flapping /\ (~running \/ ~Alive(pid))
      [] OTHER            -> FALSE

\* slot["state"] once an operation has called start_proxy or decided not to.
ReturnStateKept(t, s) == s                                  \* mutant
ReturnState(t, s) ==
    CASE op[t] \in {"flash", "reset"} /\ s = "resetting"  -> Settled
      [] op[t] = "start" /\ s \notin {"idle", "flapping"} -> "idle"
      [] OTHER                                            -> s

\* Leaving the `with` block.
UnlockOnSuccess(t) ==                                       \* mutant
    lock' = IF lock = t /\ Serving THEN None ELSE lock
Unlock(t) == lock' = IF lock = t THEN None ELSE lock

\* start_proxy has returned; a hotplug add whose proxy came up goes on to JTAG
\* detection when the slot has a gdb_port, and may need the lock again.
Return(t, isUp) ==
    /\ Unlock(t)
    /\ child' = [child EXCEPT ![t] = None]
    /\ \/ Goto(t, "idle")
       \/ op[t] = "add" /\ isUp /\ Run(t, "detect", "reenter")

-----------------------------------------------------------------------------
(* Requests and notifications: what each does before it first blocks. *)

\* POST start, stop, flash, reset; bench_reset reaching this slot.  Only the
\* bench reset goes on without the lock.
Request(t) ==
    /\ \E o \in Ops \cap {"start", "stop", "flash", "reset", "bench"} :
         /\ o \in {"flash", "reset", "bench"} => present
         /\ Begin(t, o, IF o = "bench" THEN "kill" ELSE "enter")
    /\ UNCHANGED <<lock, slot, proc, env, was, child>>

HotplugAdd(t) ==
    /\ "add" \in Ops /\ udev # <<>> /\ Head(udev) = "add"
    /\ udev' = Tail(udev)
    /\ present' = TRUE
    /\ state' = IF flapping THEN state ELSE "idle"
    /\ Begin(t, "add", IF flapping THEN "idle" ELSE "enter")
    /\ UNCHANGED <<lock, running, pid, failed, flapping, proc, plugged,
                   ended, crashes, replugs, was, child>>

HotplugRemove(t) ==
    /\ "remove" \in Ops /\ udev # <<>> /\ Head(udev) = "remove"
    /\ udev' = Tail(udev)
    /\ present' = FALSE
    /\ state' = IF flapping THEN state ELSE "absent"
    /\ Begin(t, "remove", IF running THEN "enter" ELSE "idle")
    /\ UNCHANGED <<lock, running, pid, failed, flapping, proc, plugged,
                   ended, crashes, replugs, was, child>>

\* A poll or a hotplug finds the storm over; the proxy of a device that is
\* still there is restarted by a thread of its own.
ClearFlapping(t) ==
    /\ "restart" \in Ops /\ flapping
    /\ flapping' = FALSE /\ failed' = FALSE /\ state' = Settled
    /\ Begin(t, "restart", IF present /\ ~running THEN "enter" ELSE "idle")
    /\ UNCHANGED <<lock, running, pid, present, proc, env, was, child>>

\* serial_monitor: attach to the fan-out, later give the slot back.
MonitorAttach(t) ==
    /\ "monitor" \in Ops /\ running /\ Serving
    /\ state' = "monitoring"
    /\ Begin(t, "monitor", "watch")
    /\ UNCHANGED <<lock, running, pid, present, failed, flapping, proc, env,
                   was, child>>

MonitorDetach(t) ==
    /\ pc[t] = "watch"
    /\ state' = Settled
    /\ Goto(t, "idle")
    /\ UNCHANGED <<lock, running, pid, present, failed, flapping, proc, env,
                   was, child>>

\* _refresh_slot_health takes no lock: it looks, then writes.
HealthLook(t) ==
    /\ "health" \in Ops /\ running /\ pid # None /\ ~Alive(pid)
    /\ Begin(t, "health", "forget")
    /\ UNCHANGED <<lock, slot, proc, env, was, child>>

HealthForget(t) ==
    /\ pc[t] = "forget"
    /\ running' = FALSE /\ pid' = None /\ failed' = TRUE
    /\ state' = Settled
    /\ Goto(t, "idle")
    /\ UNCHANGED <<lock, present, flapping, proc, env, was, child>>

-----------------------------------------------------------------------------
(* Under the lock. *)

\* What an operation does once the proxy is stopped, or need not be.  One that
\* goes on to start_proxy reads slot["devnode"] at once: on None,
\* wait_for_device raises, which ends the thread and leaves the `with` block.
AfterStop(t) ==
    /\ present' = (present \/ op[t] = "start")
    /\ state' = CASE op[t] = "stop"               -> Settled
                  [] op[t] \in {"flash", "reset"} -> "resetting"
                  [] OTHER                        -> state
    /\ CASE op[t] \in {"stop", "remove"}  -> Goto(t, "idle")
         [] op[t] = "flash"               -> Goto(t, "drive")
         [] op[t] = "reset"               -> Goto(t, "open")
         [] OTHER -> Goto(t, IF present' THEN "spawn" ELSE "idle")
    /\ lock' = IF op[t] = "bench" THEN lock
               ELSE IF pc'[t] = "spawn" THEN t ELSE None

EnterToStop(t) ==
    /\ pc[t] = "enter" /\ lock = None /\ StopsFirst(t)
    /\ lock' = t
    /\ was' = [was EXCEPT ![t] = op[t] = "flash" /\ running]
    /\ Goto(t, "kill")
    /\ UNCHANGED <<slot, proc, env, child>>

EnterStopped(t) ==
    /\ pc[t] = "enter" /\ lock = None /\ ~StopsFirst(t)
    /\ was' = [was EXCEPT ![t] = op[t] = "flash" /\ running]
    /\ AfterStop(t)
    /\ UNCHANGED <<running, pid, failed, flapping, proc, env, child>>

\* stop_proxy, up to the death of the process; then the fields it clears.
Kill(t) ==
    /\ pc[t] = "kill"
    /\ proc' = [p \in Pid |-> IF p = pid THEN "none" ELSE proc[p]]
    /\ Goto(t, "clear")
    /\ UNCHANGED <<lock, slot, env, was, child>>

Clear(t) ==
    /\ pc[t] = "clear"
    /\ running' = FALSE /\ pid' = None /\ failed' = FALSE
    /\ AfterStop(t)
    /\ ended' = ended \cup ({op[t]} \cap {"stop", "remove"})
    /\ UNCHANGED <<flapping, proc, plugged, udev, crashes, replugs, was, child>>

\* start_proxy, from the settle loop on.  The device does not settle, or one of
\* the other early returns: no executable, no process.
SettleTimeout(t) ==
    /\ pc[t] = "spawn"
    /\ failed' = TRUE
    /\ state' = ReturnState(t, state)
    /\ Return(t, FALSE)
    /\ UNCHANGED <<running, pid, present, flapping, proc, env, was>>

Spawn(t) ==
    /\ pc[t] = "spawn" /\ plugged
    /\ \E p \in Pid :
         /\ proc[p] = "none" /\ p # pid /\ \A u \in Thread : child[u] # p
         /\ proc' = [proc EXCEPT ![p] = "boot"]
         /\ child' = [child EXCEPT ![t] = p]
    /\ Goto(t, "poll")
    /\ UNCHANGED <<lock, slot, env, was>>

PollDead(t) ==
    /\ pc[t] = "poll" /\ ~Alive(child[t])
    /\ failed' = TRUE
    /\ state' = ReturnState(t, state)
    /\ Return(t, FALSE)
    /\ UNCHANGED <<running, pid, present, flapping, proc, env, was>>

PollAlive(t) ==
    /\ pc[t] = "poll" /\ Alive(child[t])
    /\ Goto(t, "ports")
    /\ UNCHANGED <<lock, slot, proc, env, was, child>>

\* Both ports answer: this thread's process is taken for the one that answers.
PortsUp(t) ==
    /\ pc[t] = "ports" /\ Serving
    /\ running' = TRUE /\ pid' = child[t] /\ failed' = FALSE
    /\ state' = "idle" /\ ended' = {}
    /\ Return(t, TRUE)
    /\ UNCHANGED <<present, flapping, proc, plugged, udev, crashes, replugs, was>>

PortsTimeout(t) ==
    /\ pc[t] = "ports" /\ ~Serving
    /\ proc' = [proc EXCEPT ![child[t]] = "none"]
    /\ failed' = TRUE
    /\ state' = ReturnState(t, state)
    /\ Return(t, FALSE)
    /\ UNCHANGED <<running, pid, present, flapping, env, was>>

-----------------------------------------------------------------------------
(* Without the lock: esptool or the reset pulse has the device. *)

\* serial_reset cannot open the port: it answers without restarting the proxy.
ResetOpenFails(t) ==
    /\ pc[t] = "open"
    /\ state' = Settled /\ ended' = ended \cup {"reset"}
    /\ Goto(t, "idle")
    /\ UNCHANGED <<lock, running, pid, present, failed, flapping, proc, plugged,
                   udev, crashes, replugs, was, child>>

ResetOpens(t) ==
    /\ pc[t] = "open" /\ plugged
    /\ Goto(t, "drive")
    /\ UNCHANGED <<lock, slot, proc, env, was, child>>

\* The pulse and the boot output are done; esptool has ended, well or not.
Drive(t) ==
    /\ pc[t] = "drive"
    /\ Goto(t, "reenter")
    /\ UNCHANGED <<lock, slot, proc, env, was, child>>

\* The device goes away under serial_reset's pulse: the exception ends it.
ResetRaises(t) ==
    /\ pc[t] = "drive" /\ op[t] = "reset" /\ ~plugged
    /\ ended' = ended \cup {"raised"}
    /\ Goto(t, "idle")
    /\ UNCHANGED <<lock, slot, proc, plugged, udev, crashes, replugs, was, child>>

ReenterToStart(t) ==
    /\ pc[t] = "reenter" /\ lock = None /\ Restarts(t) /\ present
    /\ lock' = t
    /\ was' = [was EXCEPT ![t] = FALSE]
    /\ Goto(t, "spawn")
    /\ UNCHANGED <<slot, proc, env, child>>

\* The device was removed meanwhile: start_proxy(devnode None) raises.
ReenterRaises(t) ==
    /\ pc[t] = "reenter" /\ lock = None /\ Restarts(t) /\ ~present
    /\ was' = [was EXCEPT ![t] = FALSE] /\ ended' = ended \cup {"raised"}
    /\ Goto(t, "idle")
    /\ UNCHANGED <<lock, slot, proc, plugged, udev, crashes, replugs, child>>

\* A detection takes a dead proxy that nobody has reaped for a live one.
ReenterDone(t) ==
    /\ pc[t] = "reenter" /\ lock = None
    /\ ~Restarts(t) \/ (op[t] = "detect" /\ running)
    /\ state' = ReturnState(t, state)
    /\ was' = [was EXCEPT ![t] = FALSE]
    /\ Goto(t, "idle")
    /\ UNCHANGED <<lock, running, pid, present, failed, flapping, proc, env,
                   child>>

-----------------------------------------------------------------------------
(* A proxy process, and the cable. *)

\* Exclusive open, then the non-exclusive fallback: an open elsewhere is no
\* obstacle, a device that is gone is.
ProxyOpen(p) ==
    /\ proc[p] = "boot"
    /\ proc' = [proc EXCEPT ![p] = IF plugged THEN "open" ELSE "none"]
    /\ UNCHANGED <<lock, slot, env, thread>>

\* bind fails while another process listens, and ends this one.
ProxyBind(p) ==
    /\ proc[p] = "open"
    /\ proc' = [proc EXCEPT
         ![p] = IF \E q \in Pid : proc[q] = "serve" THEN "none" ELSE "serve"]
    /\ UNCHANGED <<lock, slot, env, thread>>

ProxyDies(p) ==
    /\ proc[p] # "none" /\ crashes < MaxCrash
    /\ crashes' = crashes + 1
    /\ proc' = [proc EXCEPT ![p] = "none"]
    /\ UNCHANGED <<lock, slot, plugged, udev, ended, replugs, thread>>

Replug ==
    /\ replugs < MaxReplug
    /\ replugs' = replugs + 1
    /\ plugged' = ~plugged
    /\ udev' = Append(udev, IF plugged THEN "remove" ELSE "add")
    /\ UNCHANGED <<lock, slot, proc, ended, crashes, thread>>

-----------------------------------------------------------------------------
Respond(t) ==
    \/ Request(t) \/ HotplugAdd(t) \/ HotplugRemove(t) \/ ClearFlapping(t)
    \/ MonitorAttach(t) \/ HealthLook(t)

Continue(t) ==
    \/ EnterToStop(t) \/ EnterStopped(t)
    \/ Kill(t) \/ Clear(t)
    \/ SettleTimeout(t) \/ Spawn(t)
    \/ PollDead(t) \/ PollAlive(t) \/ PortsUp(t) \/ PortsTimeout(t)
    \/ ResetOpenFails(t) \/ ResetOpens(t) \/ Drive(t) \/ ResetRaises(t)
    \/ ReenterToStart(t) \/ ReenterRaises(t) \/ ReenterDone(t)
    \/ MonitorDetach(t) \/ HealthForget(t)

Proxy(p) == ProxyOpen(p) \/ ProxyBind(p)

Next ==
    \/ \E t \in Thread : Respond(t) \/ Continue(t)
    \/ \E p \in Pid : Proxy(p) \/ ProxyDies(p)
    \/ Replug

Spec == Init /\ [][Next]_vars

\* The scheduler runs every thread and every process that can take a step; it
\* owes no thread the lock, which Python hands out in no particular order.
FairSpec ==
    /\ Spec
    /\ \A t \in Thread : WF_vars(Continue(t))
    /\ \A p \in Pid : WF_vars(Proxy(p))

-----------------------------------------------------------------------------
(* Properties. *)

\* The inductive invariant behind OneProxy and NoOrphan: who may be inside the
\* lock, which process a thread may still have to record, and that no thread
\* reaches start_proxy while the recorded proxy lives (portal.py: the `with
\* slot["_lock"]` blocks around stop_proxy and start_proxy).
Inside == {"kill", "clear", "spawn", "poll", "ports"}

LockHeldInside == \A t \in Thread : lock = t <=> pc[t] \in Inside

ChildOfStarter == \A t \in Thread : child[t] # None <=> pc[t] \in {"poll", "ports"}

PidWhileRunning == running <=> pid # None

StoppedBeforeStart ==
    \A t \in Thread : pc[t] \in {"clear", "spawn", "poll", "ports"} => ~Alive(pid)

EveryProxyKnown ==
    \A p \in Pid : proc[p] # "none" =>
        p = pid \/ \E t \in Thread : pc[t] \in {"poll", "ports"} /\ child[t] = p

PcFitsOp ==
    \A t \in Thread :
        /\ op[t] \in LockedOps \cup {"detect", "none"}
        /\ pc[t] \in {"enter", "kill", "clear"} =>
               op[t] \in {"start", "stop", "flash", "reset", "add", "remove"}
        /\ pc[t] \in {"open", "drive"} => op[t] \in {"flash", "reset"}
        /\ pc[t] = "reenter" => op[t] \in {"flash", "reset", "detect"}
        /\ pc[t] # "forget"

SlotInv ==
    /\ TypeOK
    /\ PcFitsOp
    /\ LockHeldInside
    /\ ChildOfStarter
    /\ PidWhileRunning
    /\ StoppedBeforeStart
    /\ EveryProxyKnown

\* No orphan: a proxy process that is alive is the one the slot records, or one
\* that a thread inside start_proxy is about to record or kill.  An orphan
\* keeps the device and both ports, and stop_proxy cannot reach it.
NoOrphan ==
    \A p \in Pid : proc[p] # "none" =>
        p = pid \/ \E t \in Thread : child[t] = p

\* At most one proxy process exists for the slot, whatever the order in which
\* starts, stops, resets, flashes and hotplug jobs get the lock.
OneProxy ==
    \A p, q \in Pid : proc[p] # "none" /\ proc[q] # "none" => p = q

\* While no proxy has died on its own, `running` means that the recorded
\* process answers on the ports, except while stop_proxy is taking it down.
RunningServes ==
    crashes = 0 /\ running /\ (\A t \in Thread : pc[t] # "clear")
        => proc[pid] = "serve"

\* Once every request and background job has ended, a slot that is present and
\* no longer flapping runs its proxy or says why not, unless a user's stop, a
\* removal, a reset that could not open the port or an exception was the last
\* word: a start, an arrival, a flash, a finished reset, the bench reset, the
\* restart after a storm and the health check never leave the proxy stopped.
LeftServed ==
    /\ \A t \in Thread : pc[t] = "idle"
    /\ udev = <<>> /\ present /\ ~flapping /\ ended = {}
    => running \/ failed

\* `resetting` is shown only while a reset or a flash is under way, or after an
\* exception has ended one: whatever else goes on at the same time, the bench
\* reset and a pulled cable included, nothing else leaves it behind.
ResettingEnds ==
    state = "resetting" /\ "raised" \notin ended =>
        \E t \in Thread : /\ op[t] \in {"flash", "reset"}
                          /\ pc[t] \in {"open", "drive", "reenter", "spawn",
                                        "poll", "ports"}

\* Only a user's stop leaves a present slot without a proxy and without a reason.
StoppedByUser ==
    /\ \A t \in Thread : pc[t] = "idle"
    /\ udev = <<>> /\ present /\ ~flapping /\ "stop" \notin ended
    => running \/ failed

\* `resetting` always ends with the operation that set it.
ResettingIsReset ==
    state = "resetting" => \E t \in Thread : op[t] \in {"flash", "reset"}

\* Whoever takes the slot lock gives it back, whatever start_proxy runs into.
LockReleased == \A t \in Thread : lock = t ~> lock # t

\* What the specification says (FR-034): every path of the portal that touches
\* the device node stops the proxy first, and nothing needs a shared open.  The
\* node has one user at a time: a proxy, esptool, or the reset pulse.
DevnodeUsers == {p \in Pid : proc[p] \in {"open", "serve"}}
                    \cup {t \in Thread : pc[t] = "drive"}
OneUser == \A u, v \in DevnodeUsers : u = v

\* The slot's proxies, one after the other: a proxy is spawned only when the one
\* before it is gone, whichever threads stop, start and restart it.
Live == {p \in Pid : proc[p] # "none"}
Proxies == INSTANCE ExclusiveUse WITH User <- Pid, users <- Live
ProxiesPassedOn == Proxies!Spec
=============================================================================
