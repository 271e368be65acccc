---------------------------- MODULE FlapRecovery ----------------------------
(* The hotplug notifications of one slot and the recovery of a device whose   *)
(* USB keeps cycling (pi/portal.py).  udev starts one detached notifier per   *)
(* event, so a notification arrives late, and may overtake another.  The      *)
(* proxy is reduced to `running` and to who is in slot["_lock"]; SlotProxy    *)
(* has its processes.                                                         *)
EXTENDS Naturals, Sequences, SequencesExt

CONSTANTS
    Rec,            \* threads that may run a recovery or a pin release
    Wired,          \* what slot["gpio_wired"] may be, with BOOT and EN configured
    Keyed,          \* whether the slot_key names the USB device by itself
    PinFaults,      \* driving a pin may fail
    FLAP_THRESHOLD, \* events within the window that make a storm
    FLAP_MAX_RETRIES,
    Prompt,         \* notifications and background threads take less than the
                    \* cooldown, FLAP_COOLDOWN_S
    Overtake,       \* how many earlier notifications one may overtake
    MaxManual,      \* bound: calls of POST /api/serial/recover and release
    MaxAttempts,    \* bound: no storm is noticed after so many attempts
    MaxCycles,      \* bound: times the device drops off the bus on its own
    MaxUnplugs      \* bound: times somebody pulls the cable

ASSUME ThresholdAssumption == FLAP_THRESHOLD \in Nat \ {0, 1}
ASSUME RetriesAssumption   == FLAP_MAX_RETRIES \in Nat
ASSUME SwitchAssumption    == Wired \cup Keyed \cup {PinFaults, Prompt} \subseteq BOOLEAN
ASSUME BoundAssumption     == {Overtake, MaxManual, MaxAttempts, MaxCycles, MaxUnplugs} \subseteq Nat

VARIABLES
    wired, keyed,   \* which kind of slot this is; neither changes
    usb,        \* the device: "gone" (unplugged), "off" (re-enumerating),
                \* "up" (has a device node), "unbound"
    loader,     \* it is in download mode, where its firmware cannot crash
    boot,       \* the BOOT pin
    udev,       \* notifications on their way, oldest first
    newest,     \* history: what became of the last one sent: it is "coming", was
                \* "heard" in its turn, or is "past": dropped, or heard before
                \* an older one
    recent,     \* how many _event_times lie within FLAP_WINDOW_S
    quiet,      \* FLAP_COOLDOWN_S have passed since the last of them
    present, known,     \* slot["present"]; slot["devnode"] is set
    running,    \* slot["running"]
    lock,       \* start_proxy is under way in slot["_lock"]
    jobs,       \* background threads waiting for the lock
    flapping, recovering, state, error, retries,    \* fields of the slot
    pc,         \* where each recovery thread is
    event,      \* the notification it must still deal with
    retry,      \* `retry`, read when _recover_without_gpio begins
    attempts,   \* history: device restarts tried since the last one a user asked for
    confirmed,  \* history: the board answered in download mode since BOOT was driven
    cycles, unplugs, manual

device  == <<usb, loader, boot, confirmed>>
notify  == <<udev, newest, recent, quiet>>
proxy   == <<present, known, running, lock, jobs>>
flap    == <<flapping, recovering, state, error, retries>>
threads == <<pc, event, retry, attempts>>
others  == <<wired, keyed, cycles, unplugs, manual>>
vars    == <<device, notify, proxy, flap, threads, others>>

Job == {"start", "restart", "stop"}
Pc  == {"idle", "halt", "unbind", "begin", "cooldown", "rebind", "resume",
        "resolve", "probe", "unhold", "pulse"}

TypeOK ==
    /\ wired \in Wired /\ keyed \in Keyed /\ newest \in {"coming", "heard", "past"}
    /\ usb \in {"gone", "off", "up", "unbound"} /\ boot \in {"z", "low"}
    /\ loader \in BOOLEAN /\ confirmed \in BOOLEAN /\ quiet \in BOOLEAN
    /\ udev \in Seq({"add", "remove"}) /\ recent \in 0..FLAP_THRESHOLD
    /\ present \in BOOLEAN /\ known \in BOOLEAN /\ running \in BOOLEAN
    /\ lock \in BOOLEAN /\ jobs \in [Job -> Nat]
    /\ flapping \in BOOLEAN /\ recovering \in BOOLEAN
    /\ state \in {"absent", "idle", "flapping", "recovering", "download_mode"}
    /\ error \in {"none", "flap", "gave_up", "other"}
    /\ retries \in 0..FLAP_MAX_RETRIES
    /\ pc \in [Rec -> Pc] /\ event \in [Rec -> {"add", "remove", "none"}]
    /\ retry \in [Rec -> 0..FLAP_MAX_RETRIES] /\ attempts \in Nat
    /\ cycles \in Nat /\ unplugs \in Nat /\ manual \in Nat

\* An empty slot, or one that the boot scan has found its device in.
Init ==
    /\ wired \in Wired /\ keyed \in Keyed /\ newest = "heard"
    /\ usb \in {"gone", "up"} /\ loader = FALSE /\ boot = "z" /\ confirmed = FALSE
    /\ udev = <<>> /\ recent = 0 /\ quiet = TRUE
    /\ present = (usb = "up") /\ known = present /\ running = present
    /\ lock = FALSE /\ jobs = [j \in Job |-> 0]
    /\ flapping = FALSE /\ recovering = FALSE /\ error = "none" /\ retries = 0
    /\ state = IF present THEN "idle" ELSE "absent"
    /\ pc = [r \in Rec |-> "idle"] /\ event = [r \in Rec |-> "none"]
    /\ retry = [r \in Rec |-> 0] /\ attempts = 0
    /\ cycles = 0 /\ unplugs = 0 /\ manual = 0

-----------------------------------------------------------------------------
Goto(r, l) == pc' = [pc EXCEPT ![r] = l]

Settled == IF present THEN "idle" ELSE "absent"

\* _usb_device_for_slot: by the key, or by asking udev about the devnode.
DeviceNamed == keyed \/ (known /\ usb = "up")

\* _event_times once the handler has appended this event; a count beyond the
\* threshold makes no difference.
Counted == IF recent < FLAP_THRESHOLD THEN recent + 1 ELSE recent

\* The handler's own test that a storm is over, and its test that one begins.
Cleared == flapping /\ (Counted < 2 \/ quiet)
StillFlapping == flapping /\ ~Cleared
Storm == ~StillFlapping /\ Counted >= FLAP_THRESHOLD

Queue(j, when) == IF when THEN [jobs EXCEPT ![j] = @ + 1] ELSE jobs

\* A proxy that died in the storm is started again when the storm is over.
Restarted == Queue("restart", present /\ ~running)

\* What is known of the newest notification when the i-th is taken.
After(i) ==
    CASE newest = "coming" /\ i # Len(udev) -> "coming"
      [] newest = "coming" /\ i = Len(udev) -> IF recovering THEN "past" ELSE "heard"
      [] OTHER                              -> IF recovering THEN newest ELSE "past"

\* A notification reaches the portal, which drops it during a recovery.
Arrives(e) ==
    \E i \in 1..Len(udev) :
        /\ i <= 1 + Overtake /\ udev[i] = e
        /\ udev' = RemoveAt(udev, i) /\ newest' = After(i)

\* udev starts a notifier.
Notify(e) == udev' = Append(udev, e) /\ newest' = "coming"
Silent == UNCHANGED <<udev, newest>>

\* slot["present"] once a notification is dealt with.
PresentSticky(e) == present \/ e = "add"            \* mutant
PresentAfter(e) == e = "add"

-----------------------------------------------------------------------------
(* _handle_hotplug *)

\* During a recovery every event is dropped.
HotplugIgnored ==
    /\ recovering
    /\ \E e \in {"add", "remove"} : Arrives(e)
    /\ UNCHANGED <<device, recent, quiet, proxy, flap, threads, others>>

HotplugAdd ==
    /\ ~recovering /\ ~Storm /\ Arrives("add")
    /\ recent' = Counted /\ quiet' = FALSE
    /\ flapping' = StillFlapping
    /\ error' = IF Cleared THEN "none" ELSE error
    /\ present' = PresentAfter("add") /\ known' = TRUE
    /\ state' = IF StillFlapping THEN state ELSE "idle"
    /\ jobs' = LET js == IF Cleared THEN Restarted ELSE jobs IN
               IF StillFlapping THEN js ELSE [js EXCEPT !["start"] = @ + 1]
    /\ UNCHANGED <<device, running, lock, recovering, retries, threads, others>>

HotplugRemove ==
    /\ ~recovering /\ ~Storm /\ Arrives("remove")
    /\ recent' = Counted /\ quiet' = FALSE
    /\ flapping' = StillFlapping
    /\ error' = IF Cleared THEN "none" ELSE error
    /\ present' = PresentAfter("remove") /\ known' = FALSE
    /\ state' = IF StillFlapping THEN state ELSE "absent"
    /\ jobs' = LET js == IF Cleared THEN Restarted ELSE jobs IN
               IF running THEN [js EXCEPT !["stop"] = @ + 1] ELSE js
    /\ UNCHANGED <<device, running, lock, recovering, retries, threads, others>>

\* The event that makes it a storm starts the recovery before it is dealt with.
HotplugStorm(r) ==
    /\ ~recovering /\ Storm /\ pc[r] = "idle" /\ attempts < MaxAttempts
    /\ \E e \in {"add", "remove"} : Arrives(e) /\ event' = [event EXCEPT ![r] = e]
    /\ recent' = Counted /\ quiet' = FALSE
    /\ flapping' = TRUE /\ error' = "flap"
    /\ recovering' = TRUE /\ state' = "recovering"
    /\ jobs' = IF Cleared THEN Restarted ELSE jobs
    /\ Goto(r, "halt")
    /\ UNCHANGED <<device, present, known, running, lock, retries, retry, attempts,
                   others>>

\* _slot_info, on any poll: the events have aged out of the window.
PollClears ==
    /\ flapping /\ ~recovering /\ recent < FLAP_THRESHOLD
    /\ flapping' = FALSE /\ error' = "none" /\ state' = Settled
    /\ jobs' = Restarted
    /\ UNCHANGED <<device, notify, present, known, running, lock, recovering,
                   retries, threads, others>>

-----------------------------------------------------------------------------
(* The background threads, one at a time in slot["_lock"]. *)

Take(j) == ~lock /\ jobs[j] > 0 /\ jobs' = [jobs EXCEPT ![j] = @ - 1]

\* _bg_start stops a proxy that runs; without a devnode start_proxy raises.
Start ==
    /\ Take("start")
    /\ LET goes == ~flapping /\ ~recovering IN
         /\ running' = (running /\ ~goes)
         /\ error' = IF goes /\ running THEN "none" ELSE error
         /\ lock' = (goes /\ known)
    /\ UNCHANGED <<device, notify, present, known, flapping, recovering, state,
                   retries, threads, others>>

Restart ==
    /\ Take("restart")
    /\ lock' = known
    /\ UNCHANGED <<device, notify, present, known, running, flap, threads, others>>

Stop ==
    /\ Take("stop")
    /\ running' = FALSE /\ error' = "none"
    /\ UNCHANGED <<device, notify, present, known, lock, flapping, recovering,
                   state, retries, threads, others>>

\* start_proxy returns; a hotplug add then reports a storm that goes on.
Reported(e) == {e} \cup (IF flapping THEN {"flap"} ELSE {})

ProxyUp ==
    /\ lock /\ usb = "up"
    /\ lock' = FALSE /\ running' = TRUE /\ state' = "idle" /\ error' \in Reported("none")
    /\ UNCHANGED <<device, notify, present, known, jobs, flapping, recovering,
                   retries, threads, others>>

ProxyFails ==
    /\ lock /\ usb # "up"
    /\ lock' = FALSE /\ error' \in Reported("other")
    /\ UNCHANGED <<device, notify, present, known, running, jobs, flapping,
                   recovering, state, retries, threads, others>>

-----------------------------------------------------------------------------
(* _handle_serial_recover and _start_flap_recovery *)

\* Already in a recovery cycle.
BusyNever == FALSE                                  \* mutant
Busy == recovering

Recover(r) ==
    /\ manual < MaxManual /\ pc[r] = "idle" /\ DeviceNamed
    /\ manual' = manual + 1
    /\ flapping' = TRUE /\ recovering' = TRUE
    /\ retries' = 0 /\ attempts' = 0
    /\ state' = IF Busy THEN state ELSE "recovering"
    /\ Goto(r, IF Busy THEN "idle" ELSE "halt")
    /\ UNCHANGED <<device, notify, proxy, error, event, retry, wired, keyed, cycles,
                   unplugs>>

Halt(r) ==
    /\ pc[r] = "halt" /\ ~lock
    /\ running' = FALSE /\ error' = IF running THEN "none" ELSE error
    /\ Goto(r, "unbind")
    /\ UNCHANGED <<device, notify, present, known, lock, jobs, flapping,
                   recovering, state, retries, event, retry, attempts, others>>

\* The handler goes on to the event that set off the storm.
Handled(r) ==
    /\ present' = IF event[r] = "none" THEN present ELSE PresentAfter(event[r])
    /\ known'   = IF event[r] = "none" THEN known   ELSE event[r] = "add"
    /\ event'   = [event EXCEPT ![r] = "none"]
    /\ jobs'    = IF event[r] = "remove" THEN Queue("stop", running) ELSE jobs

\* Unbinding a device that is off the bus fails, and nobody looks.
Unbind(r) ==
    /\ pc[r] = "unbind" /\ DeviceNamed
    /\ usb' = IF usb = "up" THEN "unbound" ELSE usb
    /\ IF usb = "up" THEN Notify("remove") ELSE Silent
    /\ Handled(r)
    /\ Goto(r, "begin")
    /\ UNCHANGED <<loader, boot, confirmed, recent, quiet, running, lock, flap,
                   retry, attempts, others>>

AbortedStays == recovering                          \* mutant
Aborted == FALSE

UnbindUnnamed(r) ==
    /\ pc[r] = "unbind" /\ ~DeviceNamed
    /\ recovering' = Aborted /\ state' = "flapping"
    /\ Handled(r)
    /\ Goto(r, "idle")
    /\ UNCHANGED <<device, notify, running, lock, flapping, error, retries,
                   retry, attempts, others>>

-----------------------------------------------------------------------------
(* _recover_without_gpio and _recover_with_gpio *)

GivesUpNever(n) == FALSE                            \* mutant
GivesUp(n) == n >= FLAP_MAX_RETRIES

GiveUp(r) ==
    /\ pc[r] = "begin" /\ ~wired /\ GivesUp(retries)
    /\ recovering' = FALSE /\ state' = "flapping" /\ error' = "gave_up"
    /\ Goto(r, "idle")
    /\ UNCHANGED <<device, notify, proxy, flapping, retries, event, retry, attempts,
                   others>>

Begin(r) ==
    /\ pc[r] = "begin" /\ (wired \/ ~GivesUp(retries))
    /\ retry' = [retry EXCEPT ![r] = retries]
    /\ Goto(r, "cooldown")
    /\ UNCHANGED <<device, notify, proxy, flap, event, attempts, others>>

CooledDown == Prompt => udev = <<>> /\ \A j \in Job : jobs[j] = 0

\* Without wires: forget the storm, then bring the device back.
Retry(r) ==
    /\ pc[r] = "cooldown" /\ ~wired /\ CooledDown
    /\ retries' = retry[r] + 1 /\ attempts' = attempts + 1
    /\ recovering' = FALSE /\ flapping' = FALSE
    /\ recent' = 0 /\ error' = "none" /\ state' = "idle"
    /\ Goto(r, "rebind")
    /\ UNCHANGED <<device, udev, newest, quiet, proxy, event, retry, others>>

\* A pulse on EN resets the board, and its USB may drop off the bus for it;
\* a pulse that fails is not fatal.
PulseEn ==
    \/ /\ wired
       /\ loader' = (boot' = "low" /\ usb # "gone")
       /\ usb' \in IF usb = "up" THEN {"up", "off"} ELSE {usb}
       /\ IF usb' # usb THEN Notify("remove") ELSE Silent
    \/ (~wired \/ PinFaults) /\ UNCHANGED <<loader, usb>> /\ Silent

Hold(r) ==
    /\ pc[r] = "cooldown" /\ wired /\ CooledDown
    /\ boot' = "low" /\ confirmed' = FALSE
    /\ PulseEn
    /\ attempts' = attempts + 1
    /\ Goto(r, "rebind")
    /\ UNCHANGED <<recent, quiet, proxy, flap, event, retry, others>>

HoldFails(r) ==
    /\ pc[r] = "cooldown" /\ wired /\ PinFaults
    /\ recovering' = FALSE /\ state' = "flapping"
    /\ Goto(r, "idle")
    /\ UNCHANGED <<device, notify, proxy, flapping, error, retries, event, retry,
                   attempts, others>>

\* The kernel takes its time to enumerate the device.
Rebind(r) ==
    /\ pc[r] = "rebind"
    /\ usb' = IF usb = "unbound" THEN "off" ELSE usb
    /\ Goto(r, IF wired THEN "resume" ELSE "idle")
    /\ UNCHANGED <<loader, boot, confirmed, notify, proxy, flap, event, retry,
                   attempts, others>>

\* From here on hotplug events count again, though the recovery goes on.
Resume(r) ==
    /\ pc[r] = "resume"
    /\ recovering' = FALSE /\ flapping' = FALSE
    /\ Goto(r, "resolve")
    /\ UNCHANGED <<device, notify, proxy, state, error, retries, event, retry,
                   attempts, others>>

\* _devnode_from_usb_device, for up to 15 s.
Resolve(r) ==
    /\ pc[r] = "resolve"
    /\ known' = (known \/ usb = "up")
    /\ Goto(r, "probe")
    /\ UNCHANGED <<device, notify, present, running, lock, jobs, flap, event, retry,
                   attempts, others>>

ProbeOk(r) ==
    /\ pc[r] = "probe" /\ known /\ usb = "up" /\ loader
    /\ retries' = 0 /\ state' = "download_mode" /\ error' = "none"
    /\ confirmed' = TRUE
    /\ Goto(r, "idle")
    /\ UNCHANGED <<usb, loader, boot, notify, proxy, flapping, recovering, event,
                   retry, attempts, others>>

\* esptool may fail for any reason, a proxy on the device included.
BootStillHeld == boot                               \* mutant
BootReleased == "z"

ProbeFails(r) ==
    /\ pc[r] = "probe"
    /\ boot' = BootReleased
    /\ Goto(r, "unhold")
    /\ UNCHANGED <<usb, loader, confirmed, notify, proxy, flap, event, retry,
                   attempts, others>>

\* _release_slot_gpio reports that it could not drive BOOT; nobody looks.
ProbeFailsStuck(r) ==
    /\ pc[r] = "probe" /\ PinFaults
    /\ state' = "flapping" /\ error' = "other"
    /\ Goto(r, "idle")
    /\ UNCHANGED <<device, notify, proxy, flapping, recovering, retries, event,
                   retry, attempts, others>>

Unhold(r) ==
    /\ pc[r] = "unhold"
    /\ boot' = boot /\ PulseEn
    /\ retries' = 0 /\ state' = "flapping" /\ error' = "other"
    /\ Goto(r, "idle")
    /\ UNCHANGED <<confirmed, recent, quiet, proxy, flapping, recovering, event,
                   retry, attempts, others>>

\* POST /api/serial/release, from any state.
Release(r) ==
    /\ manual < MaxManual /\ pc[r] = "idle"
    /\ manual' = manual + 1
    /\ boot' = "z"
    /\ Goto(r, "pulse")
    /\ UNCHANGED <<usb, loader, confirmed, notify, proxy, flap, event, retry,
                   attempts, wired, keyed, cycles, unplugs>>

Pulse(r) ==
    /\ pc[r] = "pulse"
    /\ boot' = boot /\ PulseEn
    /\ retries' = 0 /\ state' = "idle" /\ attempts' = 0
    /\ Goto(r, "idle")
    /\ UNCHANGED <<confirmed, recent, quiet, proxy, flapping, recovering, error,
                   event, retry, others>>

-----------------------------------------------------------------------------
(* The device, the cable and the clock. *)

\* The firmware crashes, or esptool resets the chip: USB drops off the bus.
Crash ==
    /\ usb = "up" /\ ~loader /\ cycles < MaxCycles
    /\ cycles' = cycles + 1
    /\ usb' = "off" /\ Notify("remove")
    /\ UNCHANGED <<loader, boot, confirmed, recent, quiet, proxy, flap, threads,
                   wired, keyed, unplugs, manual>>

Reappear ==
    /\ usb = "off"
    /\ usb' = "up" /\ Notify("add")
    /\ loader' = (boot = "low")
    /\ UNCHANGED <<boot, confirmed, recent, quiet, proxy, flap, threads, others>>

Unplug ==
    /\ usb # "gone" /\ unplugs < MaxUnplugs
    /\ unplugs' = unplugs + 1
    /\ usb' = "gone" /\ IF usb = "up" THEN Notify("remove") ELSE Silent
    /\ UNCHANGED <<loader, boot, confirmed, recent, quiet, proxy, flap, threads,
                   wired, keyed, cycles, manual>>

Plug ==
    /\ usb = "gone"
    /\ usb' = "up" /\ Notify("add")
    /\ loader' = (boot = "low")
    /\ UNCHANGED <<boot, confirmed, recent, quiet, proxy, flap, threads, others>>

\* Ten seconds or more without an event.
Wait ==
    /\ recent > 0 \/ ~quiet
    /\ quiet' = TRUE /\ recent' \in 0..recent
    /\ UNCHANGED <<device, udev, newest, proxy, flap, threads, others>>

-----------------------------------------------------------------------------
Handle == HotplugIgnored \/ HotplugAdd \/ HotplugRemove

Background == Start \/ Restart \/ Stop \/ ProxyUp \/ ProxyFails

Recovery(r) ==
    \/ Halt(r) \/ Unbind(r) \/ UnbindUnnamed(r)
    \/ GiveUp(r) \/ Begin(r) \/ Retry(r)
    \/ Hold(r) \/ HoldFails(r) \/ Rebind(r) \/ Resume(r) \/ Resolve(r)
    \/ ProbeOk(r) \/ ProbeFails(r) \/ ProbeFailsStuck(r) \/ Unhold(r) \/ Pulse(r)

Next ==
    \/ Handle \/ PollClears \/ Background
    \/ \E r \in Rec : HotplugStorm(r) \/ Recover(r) \/ Release(r) \/ Recovery(r)
    \/ Crash \/ Reappear \/ Unplug \/ Plug \/ Wait

Spec == Init /\ [][Next]_vars

\* The portal's threads run on, and start_proxy always returns.
FairSpec ==
    /\ Spec
    /\ WF_vars(Background)
    /\ \A r \in Rec : WF_vars(Recovery(r))

-----------------------------------------------------------------------------
(* Properties. *)

\* Where a recovery thread says that a recovery is under way.
Shown == {"halt", "unbind", "begin", "cooldown"} \cup
         (IF wired THEN {"rebind", "resume"} ELSE {})

\* `recovering` is the portal's own guard against a second recovery: it is set
\* exactly while one thread, and no other, has a recovery to finish; events in
\* hand belong to that thread.
FlapInv ==
    /\ TypeOK
    /\ recovering <=> \E r \in Rec : pc[r] \in Shown
    /\ \A r, q \in Rec : pc[r] \in Shown /\ pc[q] \in Shown => r = q
    /\ \A r \in Rec : event[r] # "none" => pc[r] \in {"halt", "unbind"}
    /\ recovering => flapping

\* FR-007: without confirmed wires, the attempts since the last one a user
\* asked for never exceed the stated limit, whichever events and polls come
\* between them.
RetryLimit == ~wired => attempts <= FLAP_MAX_RETRIES

\* The same with and without wires.
EveryRetryLimited == attempts <= FLAP_MAX_RETRIES

\* Every recovery that begins is over some day (FR-007: the slot does not stay
\* in `recovering`).
RecoveryEnds == recovering ~> ~recovering

AllIdle == \A r \in Rec : pc[r] = "idle"

\* Once no recovery is under way, BOOT is low only if the board has answered in
\* download mode since BOOT was last driven: a failed attempt never leaves it
\* unable to boot.
FailedReleasesBoot == AllIdle /\ boot = "low" => confirmed

\* At most one recovery drives the pins and the USB device of the slot.
Driving == {"unbind", "begin", "cooldown", "rebind", "resume", "resolve",
            "probe", "unhold"}

OneRecovery ==
    \A r, q \in Rec : pc[r] \in Driving /\ pc[q] \in Driving => r = q

\* Once every notification and background job is dealt with, the slot is
\* present exactly when the device has its node.
PresentAgrees ==
    /\ AllIdle /\ udev = <<>> /\ ~lock /\ \A j \in Job : jobs[j] = 0
    /\ usb \in {"gone", "up"}
    => (present <=> usb = "up")

\* A notification lost in a recovery, or overtaken by an older one, is made up
\* for: whatever became of those before it, the slot is right again when the
\* newest one is dealt with in its turn.
PresentSettles == newest = "heard" => PresentAgrees

\* A slot in download mode can be flashed, at the latest when no notification
\* about it is on its way: flash_device refuses an absent one.
DownloadUsable ==
    state = "download_mode" /\ usb = "up" /\ udev = <<>> => present /\ known

\* Only the release of BOOT, or a new recovery, ends download mode.
DownloadHeld ==
    [][state = "download_mode" /\ state' # "download_mode"
         => boot = "z" \/ state' = "recovering"]_vars

\* When recovery gives up it leaves a device that can be flashed by hand.
GaveUpFlashable == error = "gave_up" => usb # "unbound"

\* A slot whose recovery gave up stays `flapping` while its device is unbound.
GaveUpShown ==
    [][error = "gave_up" /\ usb = "unbound" /\ usb' = "unbound" /\ ~recovering'
         => flapping']_vars
=============================================================================
