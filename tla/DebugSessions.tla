---------------------------- MODULE DebugSessions ----------------------------
(* Debug sessions: pi/debug_controller.py and the handlers of pi/portal.py    *)
(* that start, stop and detect.  A session is an OpenOCD process that drives  *)
(* a JTAG adapter, either the one built into the slot's board or a probe, and *)
(* serves GDB on the slot's port.                                             *)
(*                                                                            *)
(* start and stop hold the controller's lock from their first test to their   *)
(* last assignment, waiting for processes meanwhile.  Chip detection of a     *)
(* hotplug runs without it, and what the portal does with a slot's state,     *)
(* before and after, is under no lock these share.                            *)
EXTENDS Naturals, FiniteSets

CONSTANTS
    Thread,       \* handler and background threads
    Slot, Probe,  \* slots, and probes of debug_probes
    Proc,         \* pids for OpenOCD
    None,
    Builtin,      \* slots whose board has JTAG of its own
    Located,      \* slots with a usb_prefix
    Wired,        \* the slot whose board a probe is wired to
    Kinds,        \* requests and events an instance covers
    Tries,        \* configurations that one detection goes through
    MaxRequests,  \* bound: requests and events
    MaxFaults     \* bound: launches that raise, processes that die or jam

ASSUME AdapterAssumption == Slot \cap Probe = {} /\ None \notin Slot \cup Probe \cup Thread \cup Proc
ASSUME SlotAssumption    == Builtin \subseteq Slot /\ Located \subseteq Slot
ASSUME WiredAssumption   == Wired \in [Probe -> Slot \cup {None}]
ASSUME BoundAssumption   == Tries \in Nat \ {0} /\ MaxRequests \in Nat /\ MaxFaults \in Nat

VARIABLES
    lock,      \* debug_controller._lock
    sessions,  \* _sessions
    inuse,     \* _probes[p]["in_use"]
    bound,     \* probes that the ftdi_sio driver has
    proc,      \* OpenOCD processes
    present, state, chip,   \* the slots' fields; chip is the board that was examined
    pc,        \* where each thread is
    req,       \* what it was asked for
    probe,     \* the probe it is working with
    todo, fell,   \* probes left to fall back on, and whether they were looked up
    tries, aim,   \* configurations tried, and the adapter under examination
    child,     \* the process it waits for, or is stopping
    was,       \* flash_device's was_debugging
    made, faults,
    leaked     \* history: probes marked by a launch that raised

slotVars   == <<present, state, chip>>
threadVars == <<pc, req, probe, todo, fell, tries, aim, child, was>>
vars == <<lock, sessions, inuse, bound, proc, slotVars, threadVars, made, faults, leaked>>

Kind     == {"start", "stop", "flash", "read", "bench", "reset", "add", "remove"}
Adapter  == Slot \cup Probe
State    == {"idle", "debugging", "resetting", "absent"}
Place    == {"idle", "ask", "look", "enter", "detect", "examine", "launch", "await",
             "mark", "offer", "pick", "stop", "kill", "unmark", "drive", "driving",
             "restart", "serve", "jtag", "telnet"}
Session  == [proc : Proc, probe : Probe \cup {None}]
Process  == [stage : {"boot", "up", "jammed"}, adapter : Adapter, slot : Slot]
Request  == [op : Kind, slot : Slot, chip : BOOLEAN]

ASSUME KindsAssumption == Kinds \subseteq Kind
ASSUME NoneAssumption  == None \notin Session \cup Process \cup Request

TypeOK ==
    /\ lock \in Thread \cup {None}
    /\ sessions \in [Slot -> Session \cup {None}]
    /\ inuse \subseteq Probe /\ bound \subseteq Probe /\ leaked \subseteq Probe
    /\ proc \in [Proc -> Process \cup {None}]
    /\ present \in [Slot -> BOOLEAN] /\ state \in [Slot -> State]
    /\ chip \in [Slot -> Slot \cup {None}]
    /\ pc \in [Thread -> Place] /\ req \in [Thread -> Request \cup {None}]
    /\ probe \in [Thread -> Probe \cup {None}]
    /\ todo \in [Thread -> SUBSET Probe] /\ fell \in [Thread -> BOOLEAN]
    /\ tries \in [Thread -> 0..Tries] /\ aim \in [Thread -> Adapter \cup {None}]
    /\ child \in [Thread -> Proc \cup {None}] /\ was \in [Thread -> BOOLEAN]
    /\ made \in 0..MaxRequests /\ faults \in 0..MaxFaults

Init ==
    /\ lock = None /\ sessions = [s \in Slot |-> None]
    /\ inuse = {} /\ bound = Probe /\ leaked = {}
    /\ proc = [q \in Proc |-> None]
    /\ present = [s \in Slot |-> TRUE] /\ state = [s \in Slot |-> "idle"]
    /\ chip = [s \in Slot |-> None]
    /\ pc = [t \in Thread |-> "idle"] /\ req = [t \in Thread |-> None]
    /\ probe = [t \in Thread |-> None]
    /\ todo = [t \in Thread |-> {}] /\ fell = [t \in Thread |-> FALSE]
    /\ tries = [t \in Thread |-> 0] /\ aim = [t \in Thread |-> None]
    /\ child = [t \in Thread |-> None] /\ was = [t \in Thread |-> FALSE]
    /\ made = 0 /\ faults = 0

-----------------------------------------------------------------------------
(* OpenOCD and the adapters. *)

Op(t) == req[t].op
My(t) == req[t].slot

Up(q) == proc[q] # None /\ proc[q].stage # "boot"

\* An adapter is claimed by one program at a time.
Taken(a) == \/ \E q \in Proc : Up(q) /\ proc[q].adapter = a
            \/ \E t \in Thread : pc[t] = "examine" /\ aim[t] = a

\* The board behind an adapter.
Behind(a) == IF a \in Slot THEN a ELSE Wired[a]

\* There is a chip to talk to, and the kernel leaves the adapter alone.
Answers(a) == /\ Behind(a) # None /\ present[Behind(a)]
              /\ IF a \in Slot THEN a \in Builtin ELSE a \notin bound

\* The built-in adapters that OpenOCD may open for a slot: without a location
\* it takes any one on the bus.
Boards(s) == IF s \in Located THEN {s} ELSE {b \in Builtin : present[b]} \cup {s}

Adapters(t) == IF probe[t] = None THEN Boards(My(t)) ELSE {probe[t]}

\* The port a slot's GDB clients connect to: the configured one, or 3333 and the
\* slot's number.  That no two slots have the same is an assumption.
GdbPortFixed(s) == None                                               \* mutant
GdbPort(s) == s

Listens(q, s) == Up(q) /\ GdbPort(proc[q].slot) = GdbPort(s)
Listening(s)  == \E q \in Proc : Listens(q, s)

\* OpenOCD claims its adapter and binds its ports, or ends.
ComesUp(q) ==
    /\ proc[q] # None /\ proc[q].stage = "boot"
    /\ LET o == proc[q] IN
       proc' = [proc EXCEPT ![q] = IF Answers(o.adapter) /\ ~Taken(o.adapter) /\ ~Listening(o.slot)
                                   THEN [o EXCEPT !.stage = "up"] ELSE None]
    /\ UNCHANGED <<lock, sessions, inuse, bound, slotVars, threadVars, made, faults, leaked>>

\* It ends by itself, or fills the pipe that nobody reads and answers no more.
Dies(q) ==
    /\ proc[q] # None /\ faults < MaxFaults
    /\ faults' = faults + 1
    /\ proc' = [proc EXCEPT ![q] = None]
    /\ UNCHANGED <<lock, sessions, inuse, bound, slotVars, threadVars, made, leaked>>

Jams(q) ==
    /\ proc[q] # None /\ proc[q].stage = "up" /\ faults < MaxFaults
    /\ faults' = faults + 1
    /\ proc' = [proc EXCEPT ![q].stage = "jammed"]
    /\ UNCHANGED <<lock, sessions, inuse, bound, slotVars, threadVars, made, leaked>>

\* A pid is used again when its process is gone and nobody keeps the Popen.
Spare(q) == /\ proc[q] = None
            /\ \A s \in Slot : sessions[s] # None => sessions[s].proc # q
            /\ \A t \in Thread : child[t] # q

-----------------------------------------------------------------------------
(* Requests and events. *)

\* `was`, `todo` and the other locals of a handler are fresh.
Begin(t, op, s, given, p, place) ==
    /\ op \in Kinds /\ pc[t] = "idle" /\ made < MaxRequests
    /\ made' = made + 1
    /\ req' = [req EXCEPT ![t] = [op |-> op, slot |-> s, chip |-> given]]
    /\ probe' = [probe EXCEPT ![t] = p]
    /\ todo' = [todo EXCEPT ![t] = {}] /\ fell' = [fell EXCEPT ![t] = p # None]
    /\ tries' = [tries EXCEPT ![t] = 0] /\ was' = [was EXCEPT ![t] = FALSE]
    /\ pc' = [pc EXCEPT ![t] = place]
    /\ UNCHANGED <<lock, sessions, inuse, bound, proc, aim, child, faults, leaked>>

\* POST /api/debug/start, with or without a chip and a probe, and .../stop.
RequestStart(t, s) ==
    /\ \E given \in BOOLEAN, p \in Probe \cup {None} : Begin(t, "start", s, given, p, "enter")
    /\ UNCHANGED slotVars

RequestStop(t, s) == Begin(t, "stop", s, FALSE, None, "stop") /\ UNCHANGED slotVars

\* A bench reset's turn for a slot, and /api/serial/reset.
RequestOther(t, s) ==
    /\ \E op \in {"bench", "reset"} : Begin(t, op, s, FALSE, None, "ask")
    /\ UNCHANGED slotVars

\* flash_device and read_flash_device want a board on the slot.
Flashable(s) == present[s]

\* POST /api/flash, when the form names a slot with a board and holds an image;
\* what the form looks like and esptool's arguments are left out.
RequestFlash(t, s) ==
    Flashable(s) /\ Begin(t, "flash", s, FALSE, None, "ask") /\ UNCHANGED slotVars

\* POST /api/flash/read asks nobody whether the slot is debugged.
RequestRead(t, s) ==
    Flashable(s) /\ Begin(t, "read", s, FALSE, None, "drive") /\ UNCHANGED slotVars

\* A notification of udev.  An add of a slot in state `debugging` ends here;
\* a remove may leave the board's other device node in place.
HotplugAdd(t, s) ==
    /\ state[s] # "debugging" /\ Begin(t, "add", s, FALSE, None, "ask") /\ UNCHANGED slotVars

HotplugRemove(t, s) ==
    /\ present[s] /\ Begin(t, "remove", s, FALSE, None, "ask")
    /\ \/ /\ present' = [present EXCEPT ![s] = FALSE]
          /\ state' = [state EXCEPT ![s] = "absent"]
          /\ chip' = [chip EXCEPT ![s] = None]
       \/ UNCHANGED slotVars

-----------------------------------------------------------------------------
(* Asking whether a slot is debugged: a brief hold of the lock. *)

WhenDebugged(op) == CASE op = "reset" -> "jtag" [] op = "add" -> "idle" [] OTHER -> "stop"
WhenNot(op)      == CASE op = "bench" -> "restart" [] op = "add" -> "serve"
                      [] op = "remove" -> "idle" [] OTHER -> "drive"

Ask(t) ==
    /\ pc[t] = "ask" /\ lock = None
    /\ LET debugged == sessions[My(t)] # None IN
       /\ pc' = [pc EXCEPT ![t] = IF debugged THEN WhenDebugged(Op(t)) ELSE WhenNot(Op(t))]
       /\ was' = [was EXCEPT ![t] = Op(t) = "flash" /\ debugged]
    /\ UNCHANGED <<lock, sessions, inuse, bound, proc, slotVars, req, probe, todo, fell, tries,
                   aim, child, made, faults, leaked>>

-----------------------------------------------------------------------------
(* start *)

UnlockForgotten(t) == lock' = IF pc[t] = "launch" THEN lock ELSE None      \* mutant
Unlock(t) == lock' = None

\* What follows a start that failed: a handler that named no probe looks for one.
AfterFailure(t) == IF Op(t) = "flash" THEN "idle" ELSE IF fell[t] THEN "pick" ELSE "offer"

EnterRefused(t) ==
    /\ pc[t] = "enter" /\ lock = None
    /\ sessions[My(t)] # None \/ ~present[My(t)]
    /\ pc' = [pc EXCEPT ![t] = AfterFailure(t)]
    /\ UNCHANGED <<lock, sessions, inuse, bound, proc, slotVars, req, probe, todo, fell, tries,
                   aim, child, was, made, faults, leaked>>

\* The chip is given by the request, or is the one that the slot is known by.
ChipKnown(t) == IF Op(t) = "flash" THEN chip[My(t)] # None ELSE req[t].chip

Enter(t) ==
    /\ pc[t] = "enter" /\ lock = None
    /\ sessions[My(t)] = None /\ present[My(t)]
    /\ lock' = t
    /\ tries' = [tries EXCEPT ![t] = 0]
    /\ pc' = [pc EXCEPT ![t] = IF ChipKnown(t) THEN "launch" ELSE "detect"]
    /\ UNCHANGED <<sessions, inuse, bound, proc, slotVars, req, probe, todo, fell, aim, child,
                   was, made, faults, leaked>>

\* _unbind_ftdi_interface, when the adapter is a probe.
Unbound(t) == bound \ {probe[t]}

\* The checks of the probe and of the chip, once the chip is known.  The chip is
\* looked up by name: a detected one is known to the adapter that found it, one
\* that the request names may be any, whatever board is in the slot.
InUseNever(t) == FALSE                                                \* mutant
InUse(t)   == probe[t] \in inuse
Supports(t) == {probe[t] # None \/ My(t) \in Builtin}
               \cup (IF Op(t) = "start" /\ req[t].chip THEN BOOLEAN ELSE {})
Refuses(t) == InUse(t) \/ FALSE \in Supports(t)
Accepts(t) == ~InUse(t) /\ TRUE \in Supports(t)

LaunchRefused(t) ==
    /\ pc[t] = "launch" /\ Refuses(t)
    /\ Unlock(t)
    /\ pc' = [pc EXCEPT ![t] = AfterFailure(t)]
    /\ UNCHANGED <<sessions, inuse, bound, proc, slotVars, req, probe, todo, fell, tries, aim,
                   child, was, made, faults, leaked>>

\* The probe is marked, and OpenOCD is launched.
Launch(t) ==
    /\ pc[t] = "launch" /\ Accepts(t)
    /\ bound' = Unbound(t) /\ inuse' = inuse \cup ({probe[t]} \ {None})
    /\ \E q \in Proc, a \in Adapters(t) :
          /\ Spare(q)
          /\ proc' = [proc EXCEPT ![q] = [stage |-> "boot", adapter |-> a, slot |-> My(t)]]
          /\ child' = [child EXCEPT ![t] = q]
    /\ pc' = [pc EXCEPT ![t] = "await"]
    /\ UNCHANGED <<lock, sessions, slotVars, req, probe, todo, fell, tries, aim, was, made,
                   faults, leaked>>

\* Popen raises: the handler returns, and the probe stays marked.
LaunchRaises(t) ==
    /\ pc[t] = "launch" /\ Accepts(t) /\ faults < MaxFaults
    /\ faults' = faults + 1
    /\ bound' = Unbound(t) /\ inuse' = inuse \cup ({probe[t]} \ {None})
    /\ leaked' = leaked \cup ({probe[t]} \ {None})
    /\ Unlock(t)
    /\ pc' = [pc EXCEPT ![t] = AfterFailure(t)]
    /\ UNCHANGED <<sessions, proc, slotVars, req, probe, todo, fell, tries, aim, child, was, made>>

\* Somebody answers on the slot's GDB port.  (What flash_device asks of the
\* restored session, to run on, changes nothing here.)
Started(t) ==
    /\ pc[t] = "await" /\ Listening(My(t))
    /\ sessions' = [sessions EXCEPT ![My(t)] = [proc |-> child[t], probe |-> probe[t]]]
    /\ child' = [child EXCEPT ![t] = None]
    /\ Unlock(t)
    /\ pc' = [pc EXCEPT ![t] = IF Op(t) = "start" THEN "mark" ELSE "idle"]
    /\ UNCHANGED <<inuse, bound, proc, slotVars, req, probe, todo, fell, tries, aim, was, made,
                   faults, leaked>>

\* Nobody does in five seconds: the process is killed and the probe released.
KilledNever(q) == proc                                                \* mutant
Killed(q) == [proc EXCEPT ![q] = None]

ReleasedNever(t) == inuse                                             \* mutant
Released(t) == inuse \ {probe[t]}

StartFails(t) ==
    /\ pc[t] = "await" /\ ~Listening(My(t))
    /\ proc' = Killed(child[t]) /\ inuse' = Released(t)
    /\ child' = [child EXCEPT ![t] = None]
    /\ Unlock(t)
    /\ pc' = [pc EXCEPT ![t] = AfterFailure(t)]
    /\ UNCHANGED <<sessions, bound, slotVars, req, probe, todo, fell, tries, aim, was, made,
                   faults, leaked>>

\* _handle_debug_start, once start has returned: a session over USB is a state
\* of the slot.
Mark(t) ==
    /\ pc[t] = "mark"
    /\ state' = [state EXCEPT ![My(t)] = IF probe[t] = None THEN "debugging" ELSE @]
    /\ pc' = [pc EXCEPT ![t] = "idle"]
    /\ UNCHANGED <<lock, sessions, inuse, bound, proc, present, chip, req, probe, todo, fell,
                   tries, aim, child, was, made, faults, leaked>>

-----------------------------------------------------------------------------
(* Detection: of a start inside its lock, of a hotplug outside any. *)

\* An attempt cannot have its adapter, or the ports of another detection.
AttemptFails(t) ==
    /\ pc[t] = "detect" /\ tries[t] < Tries
    /\ \/ \E a \in Adapters(t) : Taken(a)
       \/ \E u \in Thread : pc[u] = "examine"
    /\ tries' = [tries EXCEPT ![t] = @ + 1]
    /\ bound' = Unbound(t)
    /\ UNCHANGED <<lock, sessions, inuse, proc, slotVars, pc, req, probe, todo, fell, aim, child,
                   was, made, faults, leaked>>

Attempt(t) ==
    /\ pc[t] = "detect" /\ tries[t] < Tries
    /\ bound' = Unbound(t)
    /\ \E a \in Adapters(t) : ~Taken(a) /\ aim' = [aim EXCEPT ![t] = a]
    /\ tries' = [tries EXCEPT ![t] = @ + 1]
    /\ pc' = [pc EXCEPT ![t] = "examine"]
    /\ UNCHANGED <<lock, sessions, inuse, proc, slotVars, req, probe, todo, fell, child, was, made,
                   faults, leaked>>

\* The board names itself; a hotplug records that, a start goes on.
Identified(t) ==
    /\ pc[t] = "examine" /\ Answers(aim[t])
    /\ aim' = [aim EXCEPT ![t] = None]
    /\ IF Op(t) = "add"
       THEN /\ chip' = [chip EXCEPT ![My(t)] = Behind(aim[t])]
            /\ pc' = [pc EXCEPT ![t] = "idle"]
       ELSE /\ UNCHANGED chip
            /\ pc' = [pc EXCEPT ![t] = "launch"]
    /\ UNCHANGED <<lock, sessions, inuse, bound, proc, present, state, req, probe, todo, fell,
                   tries, child, was, made, faults, leaked>>

Unidentified(t) ==
    /\ pc[t] = "examine" /\ ~Answers(aim[t])
    /\ aim' = [aim EXCEPT ![t] = None]
    /\ pc' = [pc EXCEPT ![t] = "detect"]
    /\ UNCHANGED <<lock, sessions, inuse, bound, proc, slotVars, req, probe, todo, fell, tries,
                   child, was, made, faults, leaked>>

\* No configuration is left.
NotDetected(t) ==
    /\ pc[t] = "detect" /\ tries[t] = Tries
    /\ IF Op(t) = "add"
       THEN /\ UNCHANGED lock
            /\ pc' = [pc EXCEPT ![t] = IF fell[t] THEN "pick" ELSE "offer"]
       ELSE /\ Unlock(t)
            /\ pc' = [pc EXCEPT ![t] = AfterFailure(t)]
    /\ UNCHANGED <<sessions, inuse, bound, proc, slotVars, req, probe, todo, fell, tries, aim,
                   child, was, made, faults, leaked>>

\* The probes that are free now are tried one after the other.
Offer(t) ==
    /\ pc[t] = "offer" /\ lock = None
    /\ todo' = [todo EXCEPT ![t] = Probe \ inuse] /\ fell' = [fell EXCEPT ![t] = TRUE]
    /\ pc' = [pc EXCEPT ![t] = "pick"]
    /\ UNCHANGED <<lock, sessions, inuse, bound, proc, slotVars, req, probe, tries, aim, child, was,
                   made, faults, leaked>>

Pick(t) ==
    /\ pc[t] = "pick"
    /\ \E p \in todo[t] :
          /\ probe' = [probe EXCEPT ![t] = p]
          /\ todo' = [todo EXCEPT ![t] = @ \ {p}]
    /\ tries' = [tries EXCEPT ![t] = 0]
    /\ pc' = [pc EXCEPT ![t] = IF Op(t) = "add" THEN "detect" ELSE "enter"]
    /\ UNCHANGED <<lock, sessions, inuse, bound, proc, slotVars, req, fell, aim, child, was, made,
                   faults, leaked>>

GiveUp(t) ==
    /\ pc[t] = "pick" /\ todo[t] = {}
    /\ pc' = [pc EXCEPT ![t] = "idle"]
    /\ UNCHANGED <<lock, sessions, inuse, bound, proc, slotVars, req, probe, todo, fell, tries, aim,
                   child, was, made, faults, leaked>>

-----------------------------------------------------------------------------
(* stop *)

AfterStop(t) == CASE Op(t) = "stop"   -> "unmark"
                  [] Op(t) = "flash"  -> "drive"
                  [] Op(t) = "bench"  -> "restart"
                  [] OTHER           -> "idle"

StopNone(t) ==
    /\ pc[t] = "stop" /\ lock = None /\ sessions[My(t)] = None
    /\ pc' = [pc EXCEPT ![t] = AfterStop(t)]
    /\ UNCHANGED <<lock, sessions, inuse, bound, proc, slotVars, req, probe, todo, fell, tries, aim,
                   child, was, made, faults, leaked>>

\* The session leaves the table before its process is killed.
Stop(t) ==
    /\ pc[t] = "stop" /\ lock = None /\ sessions[My(t)] # None
    /\ lock' = t
    /\ sessions' = [sessions EXCEPT ![My(t)] = None]
    /\ child' = [child EXCEPT ![t] = sessions[My(t)].proc]
    /\ probe' = [probe EXCEPT ![t] = sessions[My(t)].probe]
    /\ pc' = [pc EXCEPT ![t] = "kill"]
    /\ UNCHANGED <<inuse, bound, proc, slotVars, req, todo, fell, tries, aim, was, made, faults,
                   leaked>>

\* The telnet command has run or timed out.
Kill(t) ==
    /\ pc[t] = "kill"
    /\ proc' = Killed(child[t]) /\ inuse' = Released(t)
    /\ bound' = bound \cup ({probe[t]} \ {None})
    /\ child' = [child EXCEPT ![t] = None] /\ probe' = [probe EXCEPT ![t] = None]
    /\ Unlock(t)
    /\ pc' = [pc EXCEPT ![t] = AfterStop(t)]
    /\ UNCHANGED <<sessions, slotVars, req, todo, fell, tries, aim, was, made, faults, leaked>>

\* _handle_debug_stop, once stop has returned.
Settled(s) == IF present[s] THEN "idle" ELSE "absent"

Unmark(t) ==
    /\ pc[t] = "unmark"
    /\ state' = [state EXCEPT ![My(t)] = IF @ = "debugging" THEN Settled(My(t)) ELSE @]
    /\ pc' = [pc EXCEPT ![t] = "idle"]
    /\ UNCHANGED <<lock, sessions, inuse, bound, proc, present, chip, req, probe, todo, fell, tries,
                   aim, child, was, made, faults, leaked>>

-----------------------------------------------------------------------------
(* What the other operations do between and after. *)

\* flash_device, read_flash_device and serial_reset take the device node; the
\* first then restores the session, over USB.
Drive(t) ==
    /\ pc[t] = "drive"
    /\ state' = [state EXCEPT ![My(t)] = "resetting"]
    /\ pc' = [pc EXCEPT ![t] = "driving"]
    /\ UNCHANGED <<lock, sessions, inuse, bound, proc, present, chip, req, probe, todo, fell, tries,
                   aim, child, was, made, faults, leaked>>

\* The proxy is started again, which makes the slot idle, or it is not.
StateAfter(t, served) ==
    IF served /\ present[My(t)] THEN "idle"
    ELSE IF state[My(t)] = "resetting" THEN Settled(My(t)) ELSE state[My(t)]

Driven(t) ==
    /\ pc[t] = "driving" /\ Op(t) # "read"
    /\ \E served \in BOOLEAN : state' = [state EXCEPT ![My(t)] = StateAfter(t, served)]
    /\ probe' = [probe EXCEPT ![t] = None]
    /\ pc' = [pc EXCEPT ![t] = IF was[t] THEN "enter" ELSE "idle"]
    /\ UNCHANGED <<lock, sessions, inuse, bound, proc, present, chip, req, todo, fell, tries, aim,
                   child, was, made, faults, leaked>>

\* read_flash_device, once esptool has read, failed or timed out.
ReadEnds(t) ==
    /\ pc[t] = "driving" /\ Op(t) = "read"
    /\ \E served \in BOOLEAN : state' = [state EXCEPT ![My(t)] = StateAfter(t, served)]
    /\ pc' = [pc EXCEPT ![t] = "idle"]
    /\ UNCHANGED <<lock, sessions, inuse, bound, proc, present, chip, req, probe, todo, fell, tries,
                   aim, child, was, made, faults, leaked>>

\* A bench reset restarts the proxy of a present slot.
Restart(t) ==
    /\ pc[t] = "restart"
    /\ \E served \in BOOLEAN :
          state' = [state EXCEPT ![My(t)] = IF served /\ present[My(t)] THEN "idle" ELSE @]
    /\ pc' = [pc EXCEPT ![t] = "idle"]
    /\ UNCHANGED <<lock, sessions, inuse, bound, proc, present, chip, req, probe, todo, fell, tries,
                   aim, child, was, made, faults, leaked>>

\* A hotplug add; its background thread starts the proxy, and detects the
\* board if no session has begun by then.
Serve(t) ==
    /\ pc[t] = "serve"
    /\ present' = [present EXCEPT ![My(t)] = TRUE]
    /\ state' = [state EXCEPT ![My(t)] = "idle"]
    /\ \E served \in BOOLEAN : pc' = [pc EXCEPT ![t] = IF served THEN "look" ELSE "idle"]
    /\ UNCHANGED <<lock, sessions, inuse, bound, proc, chip, req, probe, todo, fell, tries, aim,
                   child, was, made, faults, leaked>>

Look(t) ==
    /\ pc[t] = "look" /\ lock = None
    /\ state' = [state EXCEPT ![My(t)] = "idle"]
    /\ pc' = [pc EXCEPT ![t] = IF sessions[My(t)] # None THEN "idle"
                               ELSE IF My(t) \in Builtin THEN "detect" ELSE "offer"]
    /\ UNCHANGED <<lock, sessions, inuse, bound, proc, present, chip, req, probe, todo, fell, tries,
                   aim, child, was, made, faults, leaked>>

\* jtag_reset: the session's port is read under the lock and used after it.
JtagReset(t) ==
    /\ pc[t] = "jtag" /\ lock = None
    /\ pc' = [pc EXCEPT ![t] = IF sessions[My(t)] # None THEN "telnet" ELSE "drive"]
    /\ UNCHANGED <<lock, sessions, inuse, bound, proc, slotVars, req, probe, todo, fell, tries, aim,
                   child, was, made, faults, leaked>>

\* Without an answer the reset falls back to the control lines.
Telnet(t) ==
    /\ pc[t] = "telnet"
    /\ LET answered == \E q \in Proc : Listens(q, My(t)) /\ proc[q].stage = "up" IN
       pc' = [pc EXCEPT ![t] = IF answered THEN "idle" ELSE "drive"]
    /\ UNCHANGED <<lock, sessions, inuse, bound, proc, slotVars, req, probe, todo, fell, tries, aim,
                   child, was, made, faults, leaked>>

-----------------------------------------------------------------------------
Handle(t) ==
    \/ Ask(t) \/ EnterRefused(t) \/ Enter(t)
    \/ AttemptFails(t) \/ Attempt(t) \/ Identified(t) \/ Unidentified(t) \/ NotDetected(t)
    \/ LaunchRefused(t) \/ Launch(t) \/ Started(t) \/ StartFails(t) \/ Mark(t)
    \/ Offer(t) \/ Pick(t) \/ GiveUp(t)
    \/ StopNone(t) \/ Stop(t) \/ Kill(t) \/ Unmark(t)
    \/ Drive(t) \/ Driven(t) \/ ReadEnds(t) \/ Restart(t) \/ Serve(t) \/ Look(t)
    \/ JtagReset(t) \/ Telnet(t)

Asked(t, s) ==
    \/ RequestStart(t, s) \/ RequestStop(t, s) \/ RequestOther(t, s) \/ RequestFlash(t, s)
    \/ RequestRead(t, s) \/ HotplugAdd(t, s) \/ HotplugRemove(t, s)

Next ==
    \/ \E t \in Thread : Handle(t) \/ LaunchRaises(t) \/ \E s \in Slot : Asked(t, s)
    \/ \E q \in Proc : ComesUp(q) \/ Dies(q) \/ Jams(q)

Spec == Init /\ [][Next]_vars

\* Threads and processes run on; every wait in the code has a timeout.
FairSpec == /\ Spec
            /\ \A t \in Thread : WF_vars(Handle(t))
            /\ \A q \in Proc : WF_vars(ComesUp(q))

-----------------------------------------------------------------------------
(* Properties. *)

\* Inside start or stop.
Inside(t) == \/ pc[t] \in {"launch", "await", "kill"}
             \/ pc[t] \in {"detect", "examine"} /\ Op(t) # "add"

\* The threads that wait for a process of theirs, or kill it.
Parent(t) == pc[t] \in {"await", "kill"}

\* FR-026: a probe serves one session, or one start or stop, at a time.
ProbeExclusive ==
    /\ \A s, r \in Slot :
          sessions[s] # None /\ sessions[r] # None /\ sessions[s].probe # None
             /\ sessions[s].probe = sessions[r].probe => s = r
    /\ \A s \in Slot, t \in Thread :
          sessions[s] # None /\ Parent(t) /\ probe[t] # None => sessions[s].probe # probe[t]

\* FR-026 as a whole: the OpenOCD that a session or a start or stop in progress
\* has on a probe is let go before another is launched on it.
Drivers(p) ==
    {q \in Proc :
        \/ \E s \in Slot : sessions[s] # None /\ sessions[s].proc = q /\ sessions[s].probe = p
        \/ \E t \in Thread : Parent(t) /\ child[t] = q /\ probe[t] = p}
OnProbe(p) == INSTANCE ExclusiveUse WITH User <- Proc, users <- Drivers(p)
ProbePassedOn ==
    /\ \A p \in Probe : OnProbe(p)!Init
    /\ [][\A p \in Probe : [OnProbe(p)!Next]_(Drivers(p))]_vars

\* Every OpenOCD process is one that a session records or that a thread inside
\* the lock is waiting for or about to kill.
NoStray ==
    \A q \in Proc : proc[q] # None =>
        \/ \E s \in Slot : sessions[s] # None /\ sessions[s].proc = q
        \/ \E t \in Thread : Parent(t) /\ child[t] = q

\* FR-037: what listens on a session's port is the session's own process.
OwnPort ==
    \A s \in Slot, q \in Proc :
        sessions[s] # None /\ Listens(q, s) => q = sessions[s].proc

\* Every request is answered, whatever dies, jams or is pulled meanwhile.
Answered == \A t \in Thread : pc[t] # "idle" ~> pc[t] = "idle"

\* FR-037: the chip a slot is known by is that of the slot's own board.
ChipOwn == \A s \in Slot : chip[s] \in {s, None}

\* A probe marked in use has a user (get_probes is what the next start asks).
ProbeReturned ==
    \A p \in inuse :
        \/ \E s \in Slot : sessions[s] # None /\ sessions[s].probe = p
        \/ \E t \in Thread : Parent(t) /\ probe[t] = p

\* FR-026: a probe nobody uses has its serial port back.
ProbeRebound == (\A t \in Thread : pc[t] = "idle") => Probe \ inuse \subseteq bound

\* FR-024: in state `debugging`, which turns hotplug adds away, a slot has a
\* session, once every request is answered ...
NoGhost ==
    (\A t \in Thread : pc[t] = "idle") =>
        \A s \in Slot : state[s] = "debugging" => sessions[s] # None

\* ... and a slot that is debugged over USB is in that state.
Shown ==
    (\A t \in Thread : pc[t] = "idle") =>
        \A s \in Slot : sessions[s] # None /\ sessions[s].probe = None => state[s] = "debugging"

\* FR-035: esptool neither writes nor reads a board that OpenOCD has.
FlashAlone ==
    \A t \in Thread, a \in Adapter :
        pc[t] = "driving" /\ Op(t) \in {"flash", "read"} /\ Behind(a) = My(t) => ~Taken(a)

\* FR-008: a slot with a session is not reset by its control lines.
ResetByJtag ==
    \A t \in Thread : pc[t] = "driving" /\ Op(t) = "reset" => sessions[My(t)] = None

\* A slot that was being debugged when it was flashed gets its session back
\* (the comment in flash_device), if nothing fails and nobody else interferes.
FlashRestores ==
    \A t \in Thread :
        pc[t] = "idle" /\ req[t] # None /\ req[t].op = "flash" /\ was[t] =>
            sessions[My(t)] # None

-----------------------------------------------------------------------------
(* The inductive invariant. *)

\* A thread inside start or stop has the lock, and nobody else.
LockHeldInside == \A t \in Thread : lock = t <=> Inside(t)

\* A busy thread knows what it was asked for, and is where that leads.
PlacedAt(t) ==
    pc[t] # "idle" =>
        /\ req[t] \in Request
        /\ pc[t] = "ask" => Op(t) \in {"flash", "bench", "remove", "reset", "add"}
        /\ pc[t] \in {"stop", "kill"} => Op(t) \in {"stop", "flash", "bench", "remove"}
        /\ pc[t] \in {"enter", "launch", "await"} => Op(t) \in {"start", "flash"}
        /\ pc[t] \in {"look", "serve"} => Op(t) = "add"
        /\ pc[t] \in {"offer", "pick"} => Op(t) \in {"start", "add"}
        /\ pc[t] \in {"detect", "examine"} => Op(t) \in {"start", "flash", "add"}
        /\ pc[t] = "examine" => aim[t] \in Adapter
        /\ was[t] => Op(t) = "flash"

Placed == \A t \in Thread : PlacedAt(t)

\* A slot has no session while one is started or stopped.
NoneInside == \A t \in Thread : Inside(t) => sessions[My(t)] = None

\* A process has one keeper, and was launched for its keeper's slot.
OneKeeper ==
    /\ \A t \in Thread : child[t] # None <=> Parent(t)
    /\ \A s \in Slot : sessions[s] # None =>
          /\ \A r \in Slot : sessions[r] # None /\ sessions[r].proc = sessions[s].proc => r = s
          /\ \A t \in Thread : child[t] # sessions[s].proc
          /\ proc[sessions[s].proc] # None => proc[sessions[s].proc].slot = s
    /\ \A t \in Thread : Parent(t) /\ proc[child[t]] # None => proc[child[t]].slot = My(t)

\* A probe is marked for the session or the thread that uses it, which has it
\* unbound from the serial driver, or by a launch that raised.
ProbesAccounted ==
    /\ leaked \subseteq inuse
    /\ \A s \in Slot : sessions[s] # None /\ sessions[s].probe # None =>
          sessions[s].probe \in inuse \ (leaked \cup bound)
    /\ \A t \in Thread : Parent(t) /\ probe[t] # None => probe[t] \in inuse \ (leaked \cup bound)
    /\ \A p \in inuse \ leaked :
          \/ \E s \in Slot : sessions[s] # None /\ sessions[s].probe = p
          \/ \E t \in Thread : Parent(t) /\ probe[t] = p

DebugInv == /\ TypeOK /\ Placed /\ LockHeldInside /\ NoneInside /\ OneKeeper /\ ProbesAccounted
            /\ ProbeExclusive /\ NoStray
=============================================================================
