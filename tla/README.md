# A model of the Embedded AI Harness testbench

The harness is a Raspberry Pi with boards plugged into it. One Python program,
`pi/portal.py`, serves a JSON API; every HTTP request and every background job
is a thread of its own, and the threads share dictionaries ("slots", grants,
sessions) under a handful of locks, some of them only part of the time. This
directory holds TLA+ models of that program, model-checked with TLC and, for
the parts where it matters most, proved with TLAPS. Every definition is taken
from the code; `docs/Harness-FSD.md` is quoted only for what the code promises.

## The system

| component | state it keeps | operations | what makes it correct |
|---|---|---|---|
| slot proxy lifecycle (`portal.py`, `plain_rfc2217_server.py`) | `running`, `pid`, `state`, `present`, `last_error`, the slot's lock, one server process | start, stop, flash, read, reset, monitor, hotplug add and remove, health check, bench reset | one server per slot and it is the recorded one; the device node has one user; a present slot is served or says why not |
| hotplug and flap recovery (`portal.py`, udev rule, notifier) | `_event_times`, `flapping`, `_recovering`, `_recover_retries`, the BOOT pin, the USB binding | hotplug, poll, recover, release, the two recovery threads | one recovery at a time, which ends; retries are bounded; BOOT is never left low; the slot ends up present when the device is |
| access manager (`portal.py`) | `_grants` under `_grants_lock` | acquire, renew, release, mode, bench reset | no two clients believe they hold a slot; a live grant is not pre-empted; a renewing holder keeps its slot |
| debug controller (`debug_controller.py`, handlers in `portal.py`) | `_sessions`, `_probes`, `_lock`, OpenOCD processes, the FTDI binding, the slots' `state` and `_auto_debug_chip` | start, stop, detect, status; debug start and stop, flash, reset, bench reset, hotplug | a probe has one user and is released; no OpenOCD is left behind; a slot's port, socket and chip are its own; `debugging` means a session |
| RFC2217 server and its readers (`plain_rfc2217_server.py`; recorder, `serial_monitor`, `serial_write` in `portal.py`) | the control client, the monitors, three locks, the slot's ring of lines | accept, drain, fan-out, filter, record, monitor, write | every reader gets the lines in order; an `ok` means that the device was given the bytes; a stuck reader does not stop the others |
| operator prompt (`portal.py`) | `_human_event`, `_human_message`, `_human_confirmed` | post, done, cancel, timeout, bench reset | the answer goes to the prompt it was given for |
| SDR (`sdr_controller.py`) | the dongle's lock, the console's lock, a live process, its reader | capture, acquire, live start and stop, status, reset, stop | one process receives; each lock is given back once, by its owner; status tells the truth |
| WiFi (`wifi_controller.py`, `/api/wifi` and enter-portal in `portal.py`) | mode, AP, station, saved AP, stations, the watcher of hostapd's log | AP and station start and stop, scan, relay, mode, lease notifications | the radio is in one role, the one reported; a station that left is not listed for ever |
| signal generator (`signal_generator.py`, `morse.py`) | the backend, the keyer and its thread, the state shown | start, stop, retune | nothing radiates once it is stopped; the carrier shown is on the air |
| configuration (`portal.py`) | slots, their ports | load, boot scan, learn | ports are unique |
| MQTT, BLE, TLS mirror, scan, sniffer | one process or device each | start, stop, status | no concurrency of their own beyond one lock |
| clients (`mcp/`, `pytest/`) and the test firmware (`test-firmware/`) | leases they believe in; the board's provisioning state | | |

They interact through shared state and calls: the hotplug handler starts
proxies, recoveries and JTAG detection in background threads; the access
manager asks the debug controller, under its own lock; the bench reset reaches
into all of them; udev notifies the portal by detached `curl` processes, which
arrive late, out of order, or never.

The behaviours that are hard to test are listed with their lines under
`hazards` in `PROJECT.json`: operations that take a slot's lock only for the
stop and for the restart, operations that never take it, flags cleared before
the work they guard is done, notifications dropped while a flag is set, a lock
held while waiting for another, leases counted on two clocks.

## Plan

In order of importance; the first eight are written.

1. `ExclusiveUse`, the abstract specification of whatever one party may use at a
   time: written; four components are checked against it and proved to implement it.
   `SlotProxy`: written, checked, proved.
2. `SlotGrants`, with `RevocableUse`, its abstract specification: written, checked,
   proved.
3. `FlapRecovery`: written, checked, proved.
4. `DebugSessions`: written, checked, proved. Next: the boot scan's detection
   as one more event, and slots with two device nodes (FR-025).
5. `HumanPrompt`: written, checked, proved.
6. `SerialPort`: the proxy's traffic and everybody at its two ports. Written,
   checked, proved.
7. `SdrDongle` and `WifiRadio`: who owns the receiver and the radio. Written,
   checked, proved.
8. `SigGen`: the carrier, its keyer's thread and what is shown. Written, checked,
   proved.
9. `SlotConfig`: port allocation and slot assignment as pure operators, checked
   against a reference definition over small inputs.
10. `Provisioning`: the state machine of `wifi_prov.c` with its NVS writes and
    restarts between them.

`SlotProxy` and `FlapRecovery` meet in the slot's fields. `FlapRecovery` keeps
of the proxy only `running` and who is in the lock; `SlotProxy` keeps of storms
only the `flapping` flag being cleared. `SlotGrants` keeps of the proxy only
whether it has the node open and whether its pid is recorded. `SerialPort` keeps
of the slot's life that the proxy starts and stops, with or without warning.
The bench reset is an operation of `SlotProxy`, `SlotGrants`, `DebugSessions`,
`HumanPrompt`, `WifiRadio` and `SdrDongle`, in each with what it does there.

## How the models correspond to the code

**Grain.** A step of a thread runs from one blocking call to the next: a lock
wait, a sleep, the spawn of a process or the wait for one, a socket. Python
releases its interpreter lock in all of these, and they last from milliseconds
to minutes. Between two of them a thread executes a few assignments; the models
take these as one step. `HealthLook`/`HealthForget` is the exception: that
check-then-act has no blocking call in it but is split, since a thread switch
between the two is what it is exposed to. `Mark` and `Unmark` of `DebugSessions`
come after a lock was given back, which lets a waiting thread in.

**`SlotProxy.tla`.** One slot. Variables are the slot's fields (`running`,
`pid`, `state`, `present`, `failed` for `last_error`, `flapping`), its lock, the
stage each server process has reached (booting, device open, serving), the
cable, the queue of notifications, and for each thread its place and operation.
The operations share one body: `Request`, `HotplugAdd`, `HotplugRemove`,
`ClearFlapping`, `MonitorAttach` and `HealthLook` begin one; `EnterToStop`,
`Kill` and `Clear` are `stop_proxy`; `SettleTimeout` to `PortsTimeout` are
`start_proxy`, one action for each of its exits; `ResetOpens` to `ResetRaises`
are what runs without the lock; the `Reenter` actions are the second `with`
block. `StopsFirst`, `Restarts` and `ReturnState` say where the operations
differ. "flash" stands for `flash_device` and for `read_flash_device`, which
treat the proxy alike. A process is started under a pid that is free; a server
whose port is taken ends (`ProxyBind`), and `is_port_listening` is true whoever
answers (`Serving`), as in the code. A process that has died counts as dead at once
(`Alive`); `_is_process_alive` may still find the zombie that nobody has reaped, which
`ReenterDone` allows for. `SettleTimeout` stands for all the exits of `start_proxy`
before a process is there: they do the same to the slot. `ended` is history: which of
the four ends without a restart came since a proxy was last up.

**`ExclusiveUse.tla`.** What the bench promises of each thing that only one party
can use: it is free or has exactly one user, and passes from one to another only
through being free. Four modules state it of something of theirs, with `INSTANCE`
and a set of users computed from their state:

| module | property | of what | users |
|---|---|---|---|
| `SlotProxy` | `ProxiesPassedOn` | the slot's ports | proxy processes that are alive |
| `DebugSessions` | `ProbePassedOn` | each probe (FR-026) | the OpenOCD of its session, or of the start or stop in progress |
| `SdrDongle` | `DonglePassedOn` | the dongle | the console's processes, the capture's |
| `WifiRadio` | `OneRoleAtATime` | the radio | the AP, or the network, that is reported |

A user that hands over to itself in another form is no step of `ExclusiveUse`: a
start that succeeds gives its OpenOCD to the session. Of the device node of a slot the
specification promises one user too (FR-034); the code does not keep that promise
(`OneUser`, run `SlotProxy_shared`).

**`RevocableUse.tla`.** The same for a thing that can be taken back without its user
being told. A slot's lease (FR-033) is one: it has no holder or one, and passes from one
to another only through being free, but a bench reset sweeps it away, and the client
learns of that on its next call (FR-032). Until then, or until its lease would have run
out, it is out of date, beside whoever holds the slot by now. `SlotGrants` states it of
each slot (`LeasePassedOn`): `Believers` are the clients that think, by their own clock,
that they hold it, `Outdated` those of them that a reset has swept.

**`SlotGrants.tla`.** `_grants` is a function whose domain is its keys, a token
is the number of grants issued before. `slot_acquire` is split where it may
wait inside `_grants_lock`: after the first test (`AcquireFree`), at
`is_debugging` (`AcquireDebugged`, `AcquireNotDebugged`), and at the scan of
open files (`AcquireStray`, `AcquireGrant`). Clients are part of the model:
`belief` is what a client knows, counted from when it sent its request, and any
answer may be lost, the refusal of a renewal too. A bench reset changes no belief;
`Swept` tells, from a history of resets, whose grant it has taken back. Time passes (`Tick`) only while every thread is idle or
waits for a lock or a process: the code between takes milliseconds and the
shortest lease is a second. `ReadMode` is the reader that reclaims an expired
grant.

**`FlapRecovery.tla`.** One slot, its USB device (`gone`, `off` the bus, `up`,
`unbound`), its BOOT pin, the notifications on their way, the event times
reduced to how many lie in the window and whether the cooldown has passed since
the last. `HotplugStorm` starts a recovery inside the handler, which goes on to
its event only when the recovery's first part returns (`Handled`). A GPIO
recovery is `Begin`, `Hold`, `Rebind`, `Resume`, `Resolve`, `Probe…`; one
without wires is `Begin` or `GiveUp`, `Retry`, `Rebind`. `Wired` and `Keyed` are
the kinds of slot an instance covers. History variables: `attempts`, `confirmed`, and
`newest`, what became of the newest notification: it is on its way, was the last one
that the portal heard, or is past (dropped during a recovery, or overtaken by one
heard after it). `Hold` takes BOOT low, the pulse on EN and the short sleeps between as
one step. `HotplugAdd` tests `_recovering` and goes on at once, though `is_debugging`
may wait for the debug controller's lock between the two.

**`DebugSessions.tla`.** Slots, probes and OpenOCD processes. `lock`,
`sessions`, `inuse` and `bound` are the controller's and the kernel's, `present`,
`state` and `chip` the slots' fields. A board answers behind an adapter: the one
built into it, or a probe wired to it (`Wired`, which the code does not know).
An adapter is claimed by one program at a time (`Taken`), and an OpenOCD that
cannot claim its adapter or bind its port ends (`ComesUp`). `Begin` starts a
request; `Ask` is `is_debugging`, from which each operation goes its own way
(`WhenDebugged`, `WhenNot`). `Supports` are the outcomes of the test of the chip, which
a request may name: then it need not be the slot's. Each slot's GDB port is its own;
that the configured ones differ is assumed. `EnterRefused` to `StartFails` are `start`, with
`AfterFailure` the fallback to a free probe in `_handle_debug_start`;
`AttemptFails` to `NotDetected` are `detect_chip`, inside the lock for a start
and outside it for a hotplug; `Offer`, `Pick` and `GiveUp` go through the probes;
`Stop`, `StopNone` and `Kill` are `stop`. A read of the flash (`RequestRead`)
goes straight to the device node, without asking or stopping anybody. `Mark`,
`Unmark`, `Drive`, `Driven`, `ReadEnds`, `Restart`, `Serve` and `Look` are what the handlers do to the slot outside the
controller's lock, with the outcome of `start_proxy` left open (`SlotProxy` has
its inside). `leaked` is a history variable: probes marked by a launch that
raised. A pid is not used again while a `Popen` of it is kept.

**`HumanPrompt.tla`.** A prompt is a number, which stands for its message and
its `threading.Event`. The handler is split at the wait (`PostPrompt`, `Wait` or
`WaitRaises`, `WaitReturns`, `Cleanup`), which is on the module's variable and
not on the event the handler made. `Poll` and `Press` are the page: it takes over
a message only when it shows none. `verdict`, `seen` and `answer` are history. Some
of its names say `Prompt` since one module of proofs extends it together with `WifiRadio`.

**`SerialPort.tla`.** One slot's traffic. The proxy has three threads: `Accept`
takes the fan-out's connections; the drain (`DrainReads` to `DrainSends`) reads a
line, sends it to each monitor inside `monitors_lock`, then, if a control client
is connected, escapes it under `pm_lock` and sends it there; the client loop (`LoopAccepts` to
`LoopLeaves`) serves one RFC2217 client after the other and hands its bytes to
the device. At the ports are the portal's threads: the recorder
(`RecorderConnects`, `Reads`, `RecorderLeft`), which writes the ring
`_serial_buf`; `serial_monitor` and `jtag_reset_capturing` (`Connect`,
`MonitorEnds`); `serial_write` (`Call` to `WriteEnds`), which tries again on a
new connection; and readers and clients elsewhere (`watch`, `Client`), which may
read as slowly as they like. What the device says is the lines 1, 2, 3…; bytes,
line splitting, decoding and the negotiation are left out. A connection is an
inbox of `Buffer` lines, a send to a full one blocks. `ProxyStarts` attaches the
recorder, as the portal's start does; a recorder may be left from an earlier run
of the proxy, in any of its places. The accepted monitors are a set and the
fan-out sends to those that are left in any order; the code goes through its list,
which is one of those orders. `written` counts, per connection, how often its bytes
reached the device.

**`WifiRadio.tla`.** The controller's variables, the processes (`hostapd`,
`dnsmasq`, `wpa`), the threads that watch hostapd's log, the stations as hostapd,
the lease file and `_stations` know them, the notifications of leases on their
way, and per thread the calls its request still has to make (`Program`). Each
call takes `_lock` for itself: `ApBegin` to `ApFails` are `ap_start`, split at the
wait for the beacon and for dnsmasq; `JoinBegin`, `JoinEnd` and `Leave` the
station; `SetMode`, `Revert`, `Relay`, `Survey` and `EnterPortal` what handlers
and the enter-portal thread do besides. `Leave` restores `_saved_ap`, as a further
call. `Watch`, `LeaseEvent`, `LeaseExpires`, `HostapdDies` and
`DnsmasqFails` are the environment's. A notification of dnsmasq may be late or lost:
the notifier posts in the background with a limit of two seconds and ignores errors.
Assumed of the environment: dnsmasq does not die while an AP is up, and a watcher
looks once in the two seconds that `ap_start` takes (`polled`; it polls every half
second). The relay's HTTP body, NAT and the queue of events are left out.

**`SdrDongle.tla`.** `holder` is who has `_lock`: a capture, a stop at its
barrier, or the console, which keeps it from its start to its cleanup
(`_live_owns_lock`). `admin` is `_live_admin`. A request is a list of calls
(`Program`), since the handlers make several, each of which looks again: status
polls reap a dead session (`Reap`, `ReapCleans`) and probe the dongle if no capture runs
(`Probe`); a start and a capture may probe it whatever runs (`Requires`), and so does a
USB reset (`Detect`). A capture's process is there before `_proc` names it (`ShotNamed`):
a stop in between misses it. A USB reset may end a receiver or leave it.
`Start` to `StartRetries` are `start_live` with its one reset and retry, `Shot` to
`ShotEnds` a capture, `Halt` to `HaltLeaves` is `stop`, `Reset` the USB reset. A
session is its number; its reader (`ReaderEnds`) and its process (`LiveExits`)
end apart from each other.

**`SigGen.tla`.** An output of the Si5351 or the clock pin, what radiates (`on`)
and what each output was programmed to (`tuned`). `StartBegins` and `StopBegins`
take the lock and tell the keyer to end; the other half (`StopEnds`,
`StartRefused`, `StartRaises`, `Start`) waits until its thread is through
(`Joined`). `Checks`, `KeysOn`, `KeysOff` are that thread, which takes no lock.
`Retune` is `set_frequency`, with the Si5351's silence after a retune as the code
has it; `RetuneFails` is its failure half way. With `BusFaults` any write to the chip may
fail: a retune then fails half way, the keyer's thread ends, and a stop or a start loses
its old backend with outputs on (`Fails`, `Reached`), which `missed` remembers. Register contents and the level of
the attenuator are left out, a read-modify-write over I2C is one step.

## Runs and what they show

Each property has a mutant in `PROJECT.json`: the named definition changed the
way a plausible bug would change it, which TLC finds.

| run | instance | shows |
|---|---|---|
| `SlotProxy_locked` | 3 threads, 3 pids, one crash, one replug | `SlotInv`, `NoOrphan`, `OneProxy`, `RunningServes`, `ProxiesPassedOn` for the operations that use the lock |
| `SlotProxy_served` | 2 threads, 3 pids, every operation, one crash, one replug | `LeftServed`, `ResettingEnds` |
| `SlotProxy_shared` | 2 threads, a hotplug add and a flash | that `OneUser` fails: a hotplug add starts the proxy while esptool has the device node, against FSD line 1207 |
| `SlotGrants_lease` | 2 clients, 1 slot, leases of 1 and 2, clock to 3, one bench reset | `GrantInv`, `LeasePassedOn`, `NoPreemption`, `SweptPowerless` |
| `FlapRecovery_storms` | 2 recovery threads, threshold 2, 1 retry, 1 crash, 1 unplug, 1 manual call, wired or not, notifications that overtake one another | `FlapInv`, `RetryLimit`, `FailedReleasesBoot`, `PresentSettles` |
| `FlapRecovery_ends` | wired or not, keyed or not, pin faults, late notifications, fair | `RecoveryEnds` |
| `HumanPrompt_answers` | 2 scripts, 3 prompts, 1 bench reset, fair | `PromptInv`, `OnePendingAtFirst`, `OwnAnswerAtFirst`, `PromptAnswered` |
| `DebugSessions_sessions` | 2 threads, 2 slots (one board with JTAG, one with a probe), 2 pids, 3 requests of any kind, 1 fault, fair | `DebugInv`, `NoStray`, `OwnPort`, `ProbePassedOn`, `Answered` |
| `SerialPort_traffic` | recorder, 1 monitor of any kind, 1 writer, 1 client elsewhere, 2 lines, 1 start, 2 calls of 2 attempts, fair | `PortInv`, `InOrder`, `Truthful`, `Recorded`, `RecorderReturns` |
| `WifiRadio_roles` | 2 threads, 2 requests of any kind, 1 AP name, 1 network, 1 station with 2 leases, fair | `RadioInv`, `OneWatcher`, `Answered`, `OneRoleAtATime`, `LeaverForgotten` |
| `SdrDongle_lock` | 2 threads, 3 requests of any kind, at most 2 captures per acquire, fair | `SdrInv`, `Answered` |
| `SigGen_carrier` | 2 threads, 2 channels and the pin, 2 frequencies, 4 starts and retunes, a bus that may fail, fair | `SigInv`, `ClockAsShown`, `Answered` |

### Further configurations

Each run's configuration with a few changes takes a component further, or shows
what happens where a run's property stops. They were run by hand and are not kept
as files: the table names the run each starts from, what is changed, and the one
property that replaces the run's. Where a failure contradicts the documentation
or a comment, the line is named; these are the places to look at in the code.

| configuration | changes | outcome |
|---|---|---|
| `SlotProxy_one_request` | of `served`: `Thread = {t1}`, `MaxCrash = 2`, `MaxReplug = 2` | passes: `OneUser` holds when requests come one at a time |
| `SlotProxy_reset_stopped` | of `locked`: `Thread = {t1, t2}`, `Ops = {"add", "reset"}`, `MaxCrash = 0`, `MaxReplug = 0` | `StoppedByUser` fails: a reset that cannot open the port leaves the proxy stopped, with no error |
| `SlotProxy_restart_orphan` | of `served`: `Ops = {"add", "restart", "start"}` | `NoOrphan` fails: `_bg_restart` starts a proxy without asking whether one runs |
| `SlotProxy_health_orphan` | of `served`: `Ops = {"start", "health"}` | `NoOrphan` fails: the health check forgets a proxy started since it looked |
| `SlotProxy_reset_stuck` | of `locked`: `Thread = {t1, t2}`, `Ops = {"add", "reset"}`, `MaxCrash = 0` | `ResettingIsReset` fails: the device goes away under the pulse and the exception leaves `resetting` |
| `SlotProxy_flash_stuck` | of `locked`: `Thread = {t1, t2}`, `Ops = {"add", "remove", "flash"}`, `MaxCrash = 0` | `ResettingIsReset` fails: the removal comes while esptool runs, `start_proxy` raises and leaves `resetting` |
| `SlotProxy_replug_stopped` | of `locked`: `Thread = {t1, t2}`, `Ops = {"add", "remove"}`, `MaxCrash = 0`, `MaxReplug = 2` | `StoppedByUser` fails: the removal's stop comes after the add's start |
| `SlotProxy_lock_released` | of `locked`: `SPECIFICATION FairSpec`, `Ops = {"start", "flash", "add", "monitor"}`, `MaxCrash = 0`, `MaxReplug = 0`, no `SYMMETRY` | passes: `LockReleased` under `FairSpec` |
| `SlotProxy_bench_orphan` | of `served`: `Ops = {"start", "bench"}` | `NoOrphan` fails: the bench reset restarts proxies without the slot's lock. Beside a start it leaves a server that nothing records (portal.py 830: "caller holds lock already"; FSD line 3386: "Actions serialized per slot") |
| `SlotGrants_live` | of `lease`: `SPECIFICATION FairSpec`, `Ttl = {1}`, `Ops = {"acquire", "bench", "debug", "open"}`, `MaxTime = 2`, no `SYMMETRY` | passes: `GrantsLockReleased` under `FairSpec` |
| `SlotGrants_debug_work` | of `lease`: `Ttl = {2}`, `Ops = {"acquire", "debug"}`, `MaxEpoch = 0`, no `SYMMETRY` | `DebugExcludesWork` fails: debug start asks for no grant |
| `SlotGrants_own_proxy` | of `lease`: `Client = {c1}`, `Ttl = {2}`, `Ops = {"acquire", "open"}`, `MaxEpoch = 0`, no `SYMMETRY` | `OwnProxyIsNoStray` fails: a proxy not recorded yet counts as a stray |
| `SlotGrants_renew_blocked` | of `lease`: `Client = {c1, c2, c3}`, `Slot = {s1, s2}`, `Ttl = {1}`, `Ops = {"acquire", "renew", "debug"}`, `MaxTime = 2`, `MaxEpoch = 0` | `RenewerKeeps` fails: a renewal sent in time is refused, because `_grants_lock` was held through an OpenOCD start (FSD line 1146) |
| `FlapRecovery_unplugged` | of `storms`: `Wired = {FALSE}`, `FLAP_THRESHOLD = 3`, `FLAP_MAX_RETRIES = 2`, `MaxAttempts = 3`, `MaxCycles = 0` | `PresentAgrees` fails: a cable pulled during a recovery is never noticed (FSD line 327) |
| `FlapRecovery_overtaken` | of `storms`: `Wired = {FALSE}`, `FLAP_THRESHOLD = 9`, `FLAP_MAX_RETRIES = 2`, `MaxManual = 0`, `MaxAttempts = 3`, `MaxCycles = 1`, `MaxUnplugs = 0` | `PresentAgrees` fails once one notification has overtaken another |
| `FlapRecovery_overlap` | of `storms`: `Wired = {TRUE}`, `FLAP_MAX_RETRIES = 2`, `MaxManual = 0`, `MaxAttempts = 3`, `MaxUnplugs = 0` | `OneRecovery` fails: `_recovering` is cleared before the device is probed |
| `FlapRecovery_endless` | of `storms`: `Wired = {TRUE}`, `MaxManual = 0`, `MaxAttempts = 3`, `MaxCycles = 3`, `MaxUnplugs = 0` | `EveryRetryLimited` fails: the GPIO path keeps no count, and `_event_times` is not cleared |
| `FlapRecovery_download_absent` | of `storms`: `Wired = {TRUE}`, `FLAP_THRESHOLD = 3`, `FLAP_MAX_RETRIES = 2`, `MaxManual = 0`, `MaxAttempts = 3`, `MaxUnplugs = 0` | `DownloadUsable` fails: the board is in download mode while the slot is absent |
| `FlapRecovery_download_lost` | of `storms`: `Wired = {TRUE}`, `FLAP_THRESHOLD = 3`, `FLAP_MAX_RETRIES = 2`, `MaxManual = 0`, `MaxAttempts = 3`, `MaxUnplugs = 0`, no `SYMMETRY` | `DownloadHeld` fails: a background thread overwrites `download_mode` |
| `FlapRecovery_gave_up_cleared` | of `storms`: `Wired = {FALSE}`, `FLAP_THRESHOLD = 3`, `MaxManual = 0`, `MaxAttempts = 3`, `MaxCycles = 6`, `MaxUnplugs = 0`, no `SYMMETRY` | `GaveUpShown` fails: a poll declares the unbound device stable |
| `FlapRecovery_gave_up_unbound` | of `storms`: `Wired = {FALSE}`, `FLAP_THRESHOLD = 3`, `MaxManual = 0`, `MaxAttempts = 3`, `MaxCycles = 6`, `MaxUnplugs = 0` | `GaveUpFlashable` fails: giving up leaves the device unbound, with no node to flash through (FSD line 999) |
| `FlapRecovery_pins` | of `storms`: `Wired = {TRUE}`, `PinFaults = TRUE`, `MaxManual = 0`, `MaxUnplugs = 0` | `FailedReleasesBoot` fails: `_release_slot_gpio` reports failure by a return value its caller ignores (portal.py 2518) |
| `HumanPrompt_reset_pending` | of `answers`: `SPECIFICATION PromptSpec`, `Caller = {c1, c2, c3}` | `OnePending` fails: the handler woken by a bench reset clears the prompt posted since |
| `HumanPrompt_reset_confirmed` | of `answers`: `SPECIFICATION PromptSpec`, `Caller = {c1, c2, c3}` | `ConfirmedByDone` fails: after a reset a handler waits on a later prompt's event, and is told of its Done |
| `HumanPrompt_late_done` | of `answers`: `SPECIFICATION PromptSpec`, `Caller = {c1, c2, c3}`, `MaxResets = 0` | `DoneIsHeard` fails: a Done between timeout and cleanup is accepted and answered as a timeout |
| `HumanPrompt_stale_page` | of `answers`: `SPECIFICATION PromptSpec`, `Caller = {c1, c2, c3}`, `MaxResets = 0` | `DoneIsMeant` fails: the page shows an earlier prompt, its Done confirms the next |
| `DebugSessions_ghost_stop` | of `sessions`: `SPECIFICATION Spec`, `Kinds = {"start", "stop"}`, `MaxFaults = 0` | `NoGhost` fails: a stop between a start's return and its `Mark` leaves `debugging` without a session, and hotplug adds are turned away |
| `DebugSessions_ghost_bench` | of `sessions`: `SPECIFICATION Spec`, `Thread = {t1}`, `Kinds = {"start", "bench"}`, `MaxFaults = 0` | `NoGhost` fails: a bench reset whose proxy does not come up leaves `debugging` |
| `DebugSessions_ghost_unplug` | of `sessions`: `SPECIFICATION Spec`, `Thread = {t1}`, `Kinds = {"start", "remove"}`, `MaxFaults = 0` | `NoGhost` fails: so does the removal of one of two device nodes |
| `DebugSessions_flash_hidden` | of `sessions`: `SPECIFICATION Spec`, `Thread = {t1}`, `Kinds = {"start", "flash"}`, `MaxFaults = 0` | `Shown` fails: the session that a flash restores runs with the slot `idle` |
| `DebugSessions_flash_forgets` | of `sessions`: `SPECIFICATION Spec`, `Thread = {t1}`, `Builtin = {}`, `Kinds = {"start", "flash"}`, `MaxFaults = 0` | `FlashRestores` fails: a session over a probe is restored without its probe (portal.py 2067; the comment at 2049 promises it back) |
| `DebugSessions_flash_shared` | of `sessions`: `SPECIFICATION Spec`, `Kinds = {"start", "flash"}`, `MaxFaults = 0` | `FlashAlone` fails: a debug start attaches to the board under esptool (FSD line 1234) |
| `DebugSessions_read_attached` | of `sessions`: `SPECIFICATION Spec`, `Thread = {t1}`, `Kinds = {"start", "read"}`, `MaxFaults = 0` | `FlashAlone` fails: `read_flash_device` (portal.py 2080) does not ask for a session as `flash_device` does, and esptool drives a board that OpenOCD has attached to; the comment at 1991 says a session must not be holding the chip then |
| `DebugSessions_reset_lines` | of `sessions`: `SPECIFICATION Spec`, `Thread = {t1}`, `Kinds = {"start", "reset"}` | `ResetByJtag` fails: without an answer from OpenOCD a reset drives the control lines (FSD line 855) |
| `DebugSessions_probe_leaked` | of `sessions`: `SPECIFICATION Spec`, `Thread = {t1}`, `Kinds = {"start"}`, `MaxRequests = 2` | `ProbeReturned` fails: the probe of a launch that raised stays marked |
| `DebugSessions_probe_unbound` | of `sessions`: `SPECIFICATION Spec`, `Thread = {t1}`, `Kinds = {"start", "add"}`, `MaxRequests = 2`, `MaxFaults = 0` | `ProbeRebound` fails: a start that failed, or a detection, leaves the probe's serial port unbound |
| `DebugSessions_wrong_board` | of `sessions`: `SPECIFICATION Spec`, `Thread = {t1}`, `Builtin = {}`, `Kinds = {"add", "remove"}`, `MaxFaults = 0` | `ChipOwn` fails: detection for a board without JTAG tries every free probe, and records the chip of the board that the probe is wired to (FSD line 2948; debug_controller.py 218: "verifies wiring by probing") |
| `SerialPort_blocked` | of `traffic`: `NeverBlocked` | fails: a reader elsewhere that stops reading blocks the fan-out, and with it the drain, for everybody (server 118–119) |
| `SerialPort_proven` | of `traffic`: `Proven` | fails: `serial_write` answers `ok` after 0.6 seconds of reading, which prove nothing about the write (portal.py 1642–1643) |
| `SerialPort_stalled` | of `traffic`: `Stalls = TRUE`; `Truthful` | fails: so it does when the device takes no more bytes |
| `SerialPort_always` | of `traffic`: `AlwaysRecorded` | fails: what the board says before the recorder has connected is not recorded (README.md line 167 of the repository) |
| `SerialPort_twice` | of `traffic`: `RecordedOnce` | fails: a recorder left from before a restart records beside the new one (portal.py 1560, 2212) |
| `SerialPort_deaf` | of `traffic`: `Client = {}`, `Writer = {w1, w2}`; `ClientHears` | fails: the drain clears the control client it finds, not the one its send failed for (server 198) |
| `SerialPort_answered` | of `traffic`: `MaxCalls = 1`; `WriteAnswered` | passes |
| `WifiRadio_ghost` | of `roles`: `Thread = {t1}`, `Posted = {"ap_start"}`, `MaxRequests = 1` | `GhostForgotten` fails: a station listed again by a late notification stays, if that of the end of its lease is lost (wifi-lease-notify.sh 21) |
| `WifiRadio_bench_ap` | of `roles`: `Thread = {t1}`, `Posted = {"ap_start", "sta_join", "bench_reset"}`, `MaxRequests = 3`, `MaxLeases = 0` | `BenchRadioIdle` fails: the reset stops the AP, then leaves the network, and leaving starts the AP again that the join had saved (portal.py 1734) |
| `WifiRadio_serial_ap` | of `roles`: `Posted = {"ap_start", "serial"}`, `MaxLeases = 0` | `SerialModeQuiet` fails: an `ap_start` that passed the mode check comes up after the switch to serial mode |
| `WifiRadio_entered_twice` | of `roles`: `Posted = {"enter_portal"}`, `MaxLeases = 0` | `OneEntering` fails: enter-portal's flag is tested and set without a lock |
| `WifiRadio_quiet_air` | of `roles`: `Thread = {t1}`, `Posted = {"scan"}`, `MaxRequests = 1`, `MaxLeases = 0` | `QuietListed` fails: a scan that hears nothing in any attempt answers with an error |
| `SdrDongle_passed_on` | of `lock`: `DonglePassedOn` | passes |
| `SdrDongle_probe_shared` | of `lock`: `Posted = {"capture", "stop_live"}`, `MaxRequests = 2` | `ProbeAlone` fails: a status probe opens the dongle beside a capture that began after its look |
| `SdrDongle_bench_acquire` | of `lock`: `Posted = {"acquire", "bench"}`, `MaxRequests = 2` | `BenchDongleIdle` fails: a capture that has the lock and not yet its process outlives the reset's stop, and so does the next phase of an acquire |
| `SdrDongle_reaped` | of `lock`: `Posted = {"start_live", "stop_live", "live"}`, `MaxRequests = 4` | `LiveKept` fails: the dead session was seen before the lock was taken (line 489), the session cleaned up is the one started meanwhile |
| `SdrDongle_unreported` | of `lock`: `Thread = {t1}`, `Posted = {"start_live", "stop_live"}` | `LiveReported` fails: the reader of the session before clears `_live_running` (line 469) |
| `SdrDongle_relaunch` | of `lock`: `Thread = {t1}`, `Posted = {"start_live"}`, `MaxRequests = 2` | `RelaunchApplies` fails: a second start is refused, since the console itself holds the dongle |
| `SdrDongle_refused` | of `lock`: `Thread = {t1}`, `Posted = {"start_live", "capture"}`, `MaxRequests = 2` | `RefusedRightly` fails: a capture is refused because of a console whose process is dead and that nobody has reaped |
| `SigGen_silent` | of `carrier`: `BusFaults = FALSE`; `CarrierAsShown` | fails: a retune on the Si5351 leaves its output off (line 268; FSD line 3058: "Retune active carrier without restarting the keyer") |
| `SigGen_unshown` | of `carrier`: `BusFaults = FALSE`; `ShownWhenRadiating` | fails: a start that raised leaves its backend, and a retune then keys the pin |
| `SigGen_two` | of `carrier`: `BusFaults = FALSE`; `OneOutput` | fails: a retune under the keyer changes the channel while the old one is keyed, and then fails: the old one stays on |
| `SigGen_keyed` | of `carrier`: `BusFaults = FALSE`; `KeyedOnly` | fails: so it does for good when the message ends |

Some hazards are real and have neither a property nor a place among the forty of
`PROJECT.json`: `bcm_gpio.py` seeks and writes one shared mapping without its lock
(line 115); two slots may be given one port while the table is empty (portal.py
631). The proxy of a slot that is not recorded yet counting as a stray (1837), the
page's old message (5610) and the probe that a flash forgets (2067) are in the
table above.

### Bounds

* Two threads are enough for a race between two operations; the third lets one
  operation fall between the two lock holds of another. Three pids give each
  thread a process. A crash and a replug at any moment cover each hazard once.
  `SlotProxy_served` has two threads for all ten operations: with a third, the
  states are too many.
* Two clients are what `LeasePassedOn` is about; after a bench reset one is swept and
  the other is the next holder. A clock to 3 lets a lease of 2
  expire and be granted again, and a lease of 1 expire twice. `MaxToken` stops
  acquires, not grants under way.
* A threshold of 2 and one retry (the code has 6 and 4) make a storm from one
  crash and a limit of one restart; the bound on attempts lies one above the
  limit, so that a breach would be seen; the proofs need neither bound. With two crashes
  (8.9 million states), or with notifications that may be late (`Prompt = FALSE`) and no
  unplug (12.2 million), the invariants of `FlapRecovery_storms` hold too.
* `Prompt = TRUE` says that the notifications and background threads that were
  under way when a cooldown of ten seconds began are through when it ends.
  `Overtake` is how many earlier notifications one may overtake: one in
  `FlapRecovery_storms`, none in `FlapRecovery_ends`, where the queue decides nothing.

* `DebugSessions` has one slot of each kind and a probe that any slot may be
  given. Two threads and three requests allow a session and two operations that
  race about it; one fault at any moment covers each failure once. With four
  requests and three pids the invariants hold as well (1.3 million states under
  symmetry). `Tries = 1` stands for the list of configurations: each attempt has
  the same outcomes. The proofs need none of these bounds.
* `SerialPort`: two lines show order, gap and repetition; a connection that holds
  one blocks the next send. One start is enough for a restart, since `Init` lets a
  recorder be left from the run before. Two attempts per write allow one to fail
  and one to follow, two calls let a write meet the connection of another that hung. The proofs need none
  of these bounds.
* `WifiRadio`: two requests at a time are every pair of operations, the longest of
  them (enter-portal) being six calls. A station that takes its lease twice can
  leave and come back while the first notification is on its way. With two SSIDs
  the invariants hold as well.
* `SdrDongle`: three requests let one end a session while the other two race about
  the next. `SigGen`: four starts and retunes let a carrier be moved, keyed, moved
  and stopped by two threads. Neither proof needs these bounds.
* Three prompts let one be answered late, one be pending and one be posted after
  a reset.

### Fairness

* `SlotProxy`: weak fairness on each thread's next step and on each server
  process. Every blocking call there has a timeout, and the scheduler is fair.
  Nothing is assumed about who gets the lock.
* `SlotGrants`: the same; and a thread that finds the debug controller's lock
  free again and again gets it once (strong fairness of `AskDebugger`).
* `DebugSessions`: weak fairness of each thread's next step and of an OpenOCD
  that comes up; it is not assumed to die. Threads get the lock since requests
  are bounded.
* `HumanPrompt`: weak fairness of each handler; nobody has to click.
* `SerialPort`: weak fairness of each thread of the proxy, of the recorder, of
  `serial_write` and of `serial_monitor`, which end by a timeout. No reader elsewhere
  has to go on reading. One that stops may block the fan-out for ever
  (`SerialPort_blocked`): `Recorded` and `RecorderReturns` say that this is the only way
  to lose lines or the recorder.
* `WifiRadio`: weak fairness of each request, of the watchers, of the notifications,
  which arrive or are lost, and of the end of a lease. Nobody has to come, go or post.
* `SdrDongle`: weak fairness of each request, of the readers and of the end of a
  capture, whose process is given its duration. The console need never end.
* `SigGen`: weak fairness of each request and of the keyer's thread.
* `FlapRecovery`: weak fairness of the recovery threads and of the background
  threads taken together. Nothing is assumed of the device, the cable, the
  clock or the notifications.

`CHECK_DEADLOCK FALSE` stands where the bounds, or a request nobody makes any
more, let the system stop.

## Proofs

`SlotProxy_proofs.tla` has four inductions, for any number of threads, processes,
crashes and replugs. The first two assume of `Ops` what their theorems are false without:

* `SlotInvariant`: `Spec => []SlotInv`, under `Disciplined`: only operations that
  take the slot lock are requested (`Ops \subseteq LockedOps`). The bench reset, the
  restart thread and the health check break it (`SlotProxy_bench_orphan`,
  `_restart_orphan`, `_health_orphan`). The invariant is stronger than what it
  is for. `NoOrphan` alone is not preserved by `PortsUp`, which overwrites
  `pid`: one needs that the recorded process is dead by then
  (`StoppedBeforeStart`), which needs that no other thread is between stop and
  start (`LockHeldInside`), and that a child has an owner (`ChildOfStarter`).
  `NoOrphanProxy` and `OneProxyPerSlot` follow.
* `RunningProxyServes`: `Spec => []RunningServes`, under `Disciplined` too. It is
  inductive relative to `SlotInv`: the process that answers when `running` is set is
  the child of the thread that sets it, and whoever kills it holds the lock and
  clears `running` before giving it back.
* `SlotImplementsExclusiveUse`: `Spec => ProxiesPassedOn`, under `Disciplined`. Each
  step is mapped to an open, a close or a stutter of `ExclusiveUse`: only `Spawn` adds a
  process (`NobodyNew`), and the thread that spawns it stands where the recorded process
  is dead and no other has a child (`SpawnAlone`).
* `ResettingAlwaysEnds`: `Spec => []ResettingEnds`, with no assumption: every operation
  there is, in any number of threads. A reset whose device goes away raises under the
  pulse, a flash whose slot was removed raises at the restart; that these two exceptions
  are all that leaves `resetting` behind is the theorem.
* `PresentSlotServed`: `Spec => []LeftServed`, with no assumption either. The induction
  follows the debt: while the slot is present and neither runs nor says why, and none of
  the four ends without a restart has come since, some thread is due to start the proxy
  (`RestartDue`, `RestartPending`), and none of them gives up without `last_error`. It
  needs that a flash which stops the proxy remembers that it ran (`FlashRemembers`).

The proofs have one lemma per group of conjuncts, each with a step per action.

`SlotGrants_proofs.tla` has no assumption but those on the constants:

* `GrantInvariant`: `Spec => []GrantInv`. `BeliefBacked` carries the result: a
  belief is counted from `sent`, the grant from a later `now`, so the grant
  lasts longer. It needs that tokens differ, that a thread past the first test
  finds the slot free until it grants, and that only the owner of `_grants_lock`
  is there.
* `OneBelieverPerSlot`: two beliefs that no bench reset has swept would be backed by one
  grant with one token.
* `SweptTokensPowerless`: a swept belief has no grant (`TokensDiffer`), so a renewal or
  a release with its token finds none.
* `LeaseImplementsRevocableUse`: `Spec => LeasePassedOn`, a refinement for each slot.
  Only an answer of `slot_acquire` or `slot_renew` makes anybody believe
  (`BeliefFromAnswer`), since beliefs that stay the same only end, with time or a release
  on its way (`BeliefOnlyEnds`); a bench reset makes holders outdated. An acquire is answered only where
  no grant is, hence no believer; a renewal is answered to the one whose token the
  grant has, hence to the only one (`NewBeliever`).
* `GrantsNotPreempted`: the action property, from the same invariant.

`FlapRecovery_proofs.tla`, for any number of recovery threads, any threshold and any
limit on retries:

* `FlapInvariant`: `Spec => []FlapInv`, with no assumption but those on the
  constants. It is inductive once one adds where a recovery without wires may be,
  and that such a one read a retry count below the limit when it waits (`WirelessPc`).
* `RetriesLimited`: `Spec => []RetryLimit`. What is counted and what was done differ,
  as a user's request may reset the count in the middle of a cooldown:
  `AttemptsCounted` compares the attempts with the retries shown and with the number
  that the waiting thread has read.
* `FailedAttemptReleasesBoot`: `Spec => []FailedReleasesBoot`, under `~PinFaults`: the
  pins can be driven. `BootWatched` finds, for each low BOOT that nobody has
  answered to, a thread that has still to look, since GPIO recoveries may overlap
  (`FlapRecovery_overlap`) and the one that drove the pin need not be the one that
  releases it.
* `NewestSettlesPresence`: `Spec => []PresentSettles`, with no assumption: whatever
  overtakes and whatever is dropped. `LatestTrue` follows the newest notification: on its
  way it tells what the device is; heard last, it is what the portal has in hand (`Held`:
  the event a recovery carries, or else the slot).

`PromptAndRadio_proofs.tla` is about the two modules it extends, which share nothing.
Of `HumanPrompt`, for any number of scripts, prompts and resets:

* `PromptInvariant`: `Spec => []PromptInv`. Until a reset there is one handler
  (`OneHandler`), so the module's variables are about its prompt; that the
  confirmed flag is the verdict of that prompt's click (`WokenByClick`) then
  gives the answer.
* `OnePendingPrompt` and `AnswersAreOwn` follow. Neither holds after a reset.

Of `WifiRadio`, for any threads, networks and requests and any finite set of
stations (a lease file has finitely many lines; the requests posted are those the
module has programs for):

* `RadioInvariant`: `Spec => []RadioInv`. `OneRole`, that the processes, `_ap_active`
  and `_sta_active` agree, is not inductive: a call that holds the lock writes what
  it reports only after it has waited, and trusts then that its process is still
  the only one. `CallInv` says what each such call may count on at each of its
  waits: the process launched is its own, no other role is reported, and between the
  kill of the old AP and the report of the new one no watcher is left once the old
  ones have looked (`polled`). Whoever changes any of it must hold the lock or must
  be the environment, which only takes processes away.
* `SingleWatcher`: `Spec => []OneWatcher`; an AP begins with no watcher of an earlier
  one and starts its own, and watchers end only when no AP is reported.
* `RadioImplementsExclusiveUse`: `Spec => OneRoleAtATime`. `ap_start` and `sta_join`
  report the radio free before they launch anything, so that each new role finds none.

`DebugSessions_proofs.tla` has no assumption but those on the constants, and
covers every request, event and fault of the module:

* `DebugInvariant`: `Spec => []DebugInv`. `NoStray` alone is not inductive:
  that the process a thread waits for is its own, and was launched for its slot,
  needs that it is inside the lock (`LockHeldInside`), that its slot has no
  session until it returns (`NoneInside`), and that a process has one keeper
  (`OneKeeper`). `ProbeExclusive` needs that whoever uses a probe has it marked
  (`ProbesAccounted`), since a start checks only the mark. The proof has one
  lemma per group of conjuncts; `Still` gathers the steps that touch no session,
  no process and no mark, so that five steps are left to look at.
* `ProbesImplementExclusiveUse`: `Spec => ProbePassedOn`, a refinement for each probe.
  Of all steps only a launch adds a user, and the check of the mark inside the lock
  means that the probe then has none (`DriversStep`); a start that succeeds and a stop
  that begins hand over the process they have.
* `ProbesExclusive` and `NoStrayOpenOcd` follow; `OwnPortAnswers` follows too,
  since what listens on a slot's port was launched for that slot.

`SerialPort_proofs.tla`, for any readers, writers and clients, any number of lines,
starts and calls, and any `Buffer`:

* `PortInvariant`: `Spec => []PortInv`, with no assumption but those on the constants.
  That the locks are what they say is inductive together with the state of a proxy
  that is down (`Down`), since a restart begins from it, and with what the fan-out
  has left to do being a part of the list whose lock it holds (`Sending`).
* `LinesInOrder`: `Spec => []InOrder`. A line is the last one plus one because a
  reader that is still due has not been sent the newest, one that has been served
  has, and one that waits to be accepted has read nothing (`Fresh`). The lemmas
  follow the stream of one reader through each step: `StreamsKept` where no line
  moves, `ReadOn` from its inbox to its hands, `SentOn` for the fan-out.
* `AnswersTruthful`: `Spec => []Truthful`, under `~Stalls`: the device takes the bytes
  it is given (`SerialPort_stalled` shows that it fails otherwise). `Honest` follows
  one write: until its connection is held the device has none of its bytes; while it is,
  they are on their way or the device has had them once, never both; afterwards nothing
  changes any more. It needs that nothing is known of connections that have not been
  made yet (`Known`).

`SdrDongle_proofs.tla`, for any threads, requests and captures:

* `SdrInvariant`: `Spec => []SdrInv`. That one process receives needs the locks to
  agree with where each thread is (`LockInv`): a capture runs only in the thread
  that has the lock, and the console's process only while the console has it. Two
  parts of `LockInv` are there for the induction: whoever launches the console finds
  no process (it had to find the lock free), and a thread inside a call knows what
  is left of its request. The lemmas group the steps by what they do to the locks:
  moves that touch none (`MoveKeeps`), cleanups (`CleanupKeeps`), takings and givings.
* `DongleImplementsExclusiveUse`: `Spec => DonglePassedOn`. Only two steps begin to
  receive, the spawn of the console and that of a capture (`ReceiversStep`); whoever
  takes one has the dongle's lock, under which the other kind has no process.

`SigGen_proofs.tla`, for any threads, channels and frequencies:

* `SigInvariant`: `Spec => []SigInv`. After `_stop_locked` nothing of the backend radiates
  but what a failed write left on (`SilencedLeft`, `MadeLeft`), and the keyer's thread, which takes no lock, only
  ever switches the backend's own output, and only while there is a keyer
  (`KeyerKeeps`).
* `NothingRadiates` and `ClockRadiates` follow. The first says that the pin is quiet
  whatever the bus does, and everything is where it does not fail (`~BusFaults`).

Model-checked only: the liveness properties (`RecoveryEnds`, `Recorded`,
`RecorderReturns`, `LeaverForgotten`, `PromptAnswered`, and `Answered` of four
modules), which are out of the prover's reach. Every safety property of a passing
run, invariant, action property or refinement, is stated by a theorem. The theorems'
own limits are their assumptions: where one is named above (`Disciplined`,
`~PinFaults`, `~Stalls`), a further configuration shows the property false without it.

## Not modelled

Within the modelled parts: slots with two device nodes (a JTAG and a serial
interface on one board), the URL and port fields, the contents of serial
output, the command line of esptool, enter-portal's own reset pulse. Of the debug
controller: the detection of the boot scan, halt and
resume, the serial output that a JTAG reset captures, requests that leave the
slot to be found, the names of slots without a label, and the three scratch ports
of detection, whose use by another detection is one of the outcomes of
`AttemptFails`. Of the proxy process: the control lines and settings that a client
may negotiate. Of the radio: NAT, the queue of events and those who wait for one,
and the sniffer, which no caller starts. Of the receiver: the session log and
everything about what is received. Of the generator: registers and arithmetic.

Where the models are simpler than the code: the join of the keyer's thread has a
limit of five seconds, which the thread meets, since it looks at its event before every
symbol (`Joined` waits without one); `serial_write` holds its connection for 0.6
seconds, taken to be enough for a device that takes its bytes (`Holds`; `Stalls` is the
other case); `test_gpio_wiring`, with which an operator checks the wires, drives BOOT and
EN and restarts the proxy too and is no action of `FlapRecovery` or `SlotProxy`.

The modules are not composed with one another. Each bench reset is checked beside
the requests of its own component; that its parts run one after the other in one
thread is used nowhere.

Whole components are left out for one of three reasons, given for each in
`PROJECT.json`. MQTT, BLE, the TLS mirror, the network scan and the legacy proxy
start and stop one process or call one library under one lock, and share nothing
with the others. Layout, logging, HTTP routing, the HTML page but for what it does
with prompts, the installer and the clients are formatting and input or output.
The slots' configuration, with its port allocator, and the test firmware's
provisioning have questions worth asking and are next in the plan; those of the
parts that are shared by all requests came first.
