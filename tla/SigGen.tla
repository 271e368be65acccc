-------------------------------- MODULE SigGen --------------------------------
(* The signal generator (pi/signal_generator.py): one carrier at a time from   *)
(* the Si5351 or from a clock pin of the Pi, keyed by a Morse thread           *)
(* (pi/morse.py) or continuous, and the handlers of /api/siggen that change    *)
(* it (pi/portal.py).  The chip is written over a bus whose errors the code    *)
(* mostly swallows.  Register contents and the attenuator's level are left     *)
(* out; the attenuator matters because a start may fail on it.                 *)
EXTENDS Naturals, FiniteSets

CONSTANTS
    Thread, None,
    Channel,        \* outputs of the Si5351 that are used
    Freq,           \* frequencies asked for
    SI5351,         \* the chip answers on the bus
    BusFaults,      \* an access to the chip may fail
    MaxStarts       \* bound: starts and retunes

ASSUME OutputAssumption == "pin" \notin Channel /\ None \notin Channel \cup Freq \cup Thread
ASSUME SwitchAssumption == {SI5351, BusFaults} \subseteq BOOLEAN /\ MaxStarts \in Nat

Output == Channel \cup {"pin"}
Kind   == {"si5351", "gpclk"}

VARIABLES
    lock,       \* who is in _lock
    backend,    \* _backend, with its channel or pin
    keyer,      \* _keyer is set
    player,     \* the keyer's thread, while it is alive
    state,      \* _state, of what status() answers
    on,         \* outputs that radiate
    tuned,      \* what each output was last programmed to
    missed,     \* outputs of the chip still on when its backend was dropped (history)
    at, starts

hardware == <<on, tuned, missed>>
vars == <<lock, backend, keyer, player, state, hardware, at, starts>>

Backend == [kind : Kind, out : Output]
Player  == [out : Output, repeat : BOOLEAN, stop : BOOLEAN, at : {"check", "key", "mark"}]
Stopped == [active |-> FALSE, kind |-> None, freq |-> None, morse |-> FALSE]

ASSUME NoneAssumption == None \notin Backend

Init ==
    /\ lock = None /\ backend = None /\ keyer = FALSE /\ player = None /\ state = Stopped
    /\ on = {} /\ missed = {} /\ tuned = [o \in Output |-> None]
    /\ at = [t \in Thread |-> "idle"] /\ starts = 0

-----------------------------------------------------------------------------
\* start and stop take the lock and first stop what plays: the event is set,
\* and the keyer's thread joined.
Signalled == IF player = None THEN None ELSE [player EXCEPT !.stop = TRUE]

Begin(t, what) ==
    /\ at[t] = "idle" /\ lock = None /\ lock' = t
    /\ at' = [at EXCEPT ![t] = what] /\ player' = Signalled
    /\ UNCHANGED <<backend, keyer, state, hardware>>

StartBegins(t) == Begin(t, "start") /\ starts < MaxStarts /\ starts' = starts + 1
StopBegins(t)  == Begin(t, "stop") /\ UNCHANGED starts

\* The thread looks at the event before every symbol, so that the join does not
\* come to the five seconds it is given.
JoinedAtOnce == TRUE                                                    \* mutant
Joined == player = None

\* _stop_locked and _close_backend: key_off silences the backend's output, the
\* close every output of the chip.  Each of the two may fail on the bus unheard,
\* and the backend is dropped all the same; a pin is always let go.
Fails ==
    IF BusFaults /\ backend # None /\ backend.kind = "si5351"
    THEN SUBSET {"key_off", "close"} ELSE {{}}

ReachedOne(f) == IF "key_off" \in f THEN {} ELSE {backend.out}           \* mutant
Reached(f) ==
    (IF "key_off" \in f THEN {} ELSE {backend.out}) \cup
    (IF "close" \in f \/ backend.kind = "gpclk" THEN {} ELSE Channel)

Silenced(f) == IF backend = None THEN on ELSE on \ Reached(f)
Dropped(f)  == IF f = {} THEN missed ELSE missed \cup Silenced(f)

Return(t) == lock' = None /\ at' = [at EXCEPT ![t] = "idle"]

StopEnds(t) ==
    /\ at[t] = "stop" /\ Joined /\ Return(t)
    /\ backend' = None /\ keyer' = FALSE /\ state' = Stopped
    /\ \E f \in Fails : on' = Silenced(f) /\ missed' = Dropped(f)
    /\ UNCHANGED <<player, tuned, starts>>

\* _choose_backend and _make_backend: "auto" prefers the chip, whose init
\* switches every output off.
Choices == {[kind |-> "gpclk", out |-> "pin"]} \cup
           (IF SI5351 THEN {[kind |-> "si5351", out |-> c] : c \in Channel} ELSE {})
Made(b, left) == IF b.kind = "si5351" THEN left \ Channel ELSE left

\* No such backend, a chip whose init or tuning fails, before or after its
\* outputs are off, or a frequency out of its range.
StartRefused(t) ==
    /\ at[t] = "start" /\ Joined /\ Return(t)
    /\ backend' = None /\ keyer' = FALSE /\ state' = Stopped
    /\ \E f \in Fails :
         \/ on' = Silenced(f) /\ missed' = Dropped(f)
         \/ \E b \in Choices : on' = Made(b, Silenced(f)) /\ missed' = Made(b, Dropped(f))
    /\ UNCHANGED <<player, tuned, starts>>

Tune(b, f) == tuned' = [tuned EXCEPT ![b.out] = f]

\* The attenuator is absent, the message empty, or the chip not keyed: the
\* backend stays, tuned.
StartRaises(t, b, f) ==
    /\ at[t] = "start" /\ Joined /\ Return(t)
    /\ backend' = b /\ keyer' = FALSE /\ state' = Stopped
    /\ \E w \in Fails : on' = Made(b, Silenced(w)) /\ missed' = Made(b, Dropped(w))
    /\ Tune(b, f) /\ UNCHANGED <<player, starts>>

Start(t, b, f, morse) ==
    /\ at[t] = "start" /\ Joined /\ Return(t)
    /\ backend' = b /\ keyer' = morse /\ Tune(b, f)
    /\ state' = [active |-> TRUE, kind |-> b.kind, freq |-> f, morse |-> morse]
    /\ \E w \in Fails :
         /\ on' = Made(b, Silenced(w)) \cup (IF morse THEN {} ELSE {b.out})
         /\ missed' = Made(b, Dropped(w))
    /\ IF morse
       THEN \E r \in BOOLEAN :
              player' = [out |-> b.out, repeat |-> r, stop |-> FALSE, at |-> "check"]
       ELSE UNCHANGED player
    /\ UNCHANGED starts

\* set_frequency programs the output and leaves it off; the pin is keyed again
\* unless a keyer plays on it.
RekeyedNever == on \ {"pin"}                                            \* mutant
Rekeyed == IF keyer /\ player # None THEN on \ {"pin"} ELSE on \cup {"pin"}

Retune(t, f) ==
    /\ at[t] = "idle" /\ lock = None /\ backend # None
    /\ starts < MaxStarts /\ starts' = starts + 1
    /\ \E c \in (IF backend.kind = "si5351" THEN Channel ELSE {"pin"}) :
         /\ backend' = [backend EXCEPT !.out = c] /\ Tune([out |-> c], f)
         /\ on' = IF backend.kind = "gpclk" THEN Rekeyed ELSE on \ {c}
         /\ player' = IF player = None THEN None ELSE [player EXCEPT !.out = c]
    /\ state' = [state EXCEPT !.freq = f]
    /\ UNCHANGED <<lock, keyer, missed, at>>

\* A frequency the chip cannot reach, or a bus that fails under way: the
\* channel has been changed by then, and what it is tuned to perhaps.
RetuneFails(t, f) ==
    /\ at[t] = "idle" /\ lock = None /\ backend # None /\ backend.kind = "si5351"
    /\ starts < MaxStarts /\ starts' = starts + 1
    /\ \E c \in Channel :
         /\ backend' = [backend EXCEPT !.out = c]
         /\ player' = IF player = None THEN None ELSE [player EXCEPT !.out = c]
         /\ tuned' \in {tuned} \cup
              (IF BusFaults THEN {[tuned EXCEPT ![c] = x] : x \in {f, None}} ELSE {})
    /\ UNCHANGED <<lock, keyer, state, on, missed, at>>

-----------------------------------------------------------------------------
Onto(o) == {on \ {o}} \cup (IF BusFaults /\ o \in Channel THEN {on} ELSE {})

\* The keyer's thread: the event, then a symbol, then the event again; after
\* the message it repeats or ends.  A write that fails ends it, and at its end
\* it switches the output off, if that write does not fail.
Keyer(next) ==
    player' = next /\ UNCHANGED <<lock, backend, keyer, state, tuned, missed, at, starts>>
KeyerEnds == Keyer(None) /\ on' \in Onto(player.out)
Faulty(o) == BusFaults /\ o \in Channel

HeardNever == FALSE                                                     \* mutant
Heard == player.stop

Checks ==
    /\ player # None /\ player.at = "check"
    /\ IF Heard THEN KeyerEnds
                ELSE Keyer([player EXCEPT !.at = "key"]) /\ UNCHANGED on

KeysOn ==
    /\ player # None /\ player.at = "key"
    /\ \/ Keyer([player EXCEPT !.at = "mark"]) /\ on' = on \cup {player.out}
       \/ Faulty(player.out) /\ KeyerEnds

KeysOff ==
    /\ player # None /\ player.at = "mark"
    /\ \/ Keyer([player EXCEPT !.at = "check"]) /\ on' = on \ {player.out}
       \/ ~player.repeat /\ Keyer(None) /\ on' = on \ {player.out}
       \/ Faulty(player.out) /\ KeyerEnds

-----------------------------------------------------------------------------
Ends(t) ==
    \/ StopEnds(t) \/ StartRefused(t)
    \/ \E b \in Choices, f \in Freq :
         StartRaises(t, b, f) \/ \E m \in BOOLEAN : Start(t, b, f, m)

Next ==
    \/ \E t \in Thread : StartBegins(t) \/ StopBegins(t) \/ Ends(t)
    \/ \E t \in Thread, f \in Freq : Retune(t, f) \/ RetuneFails(t, f)
    \/ Checks \/ KeysOn \/ KeysOff

Spec == Init /\ [][Next]_vars

\* Threads run on; the keyer's message goes on symbol by symbol.
FairSpec == Spec /\ WF_vars(Checks \/ KeysOn \/ KeysOff) /\ \A t \in Thread : WF_vars(Ends(t))

-----------------------------------------------------------------------------
TypeOK ==
    /\ lock \in Thread \cup {None} /\ backend \in Backend \cup {None} /\ keyer \in BOOLEAN
    /\ player \in Player \cup {None}
    /\ state \in [active : BOOLEAN, kind : Kind \cup {None}, freq : Freq \cup {None},
                  morse : BOOLEAN]
    /\ on \subseteq Output /\ missed \subseteq Channel /\ tuned \in [Output -> Freq \cup {None}]
    /\ at \in [Thread -> {"idle", "start", "stop"}] /\ starts \in Nat

\* Whoever is in start or stop has the lock; a keyer plays on the backend's output;
\* what radiates is of the backend, or was left on by a bus that failed when an
\* earlier backend of the chip was dropped; an active state is the backend's, and
\* is a Morse state exactly when there is a keyer.
Held == \A t \in Thread : (at[t] # "idle") <=> (lock = t)
OutputsOf(k) == IF k = "si5351" THEN Channel ELSE {"pin"}
PlaysOwn == player # None => keyer /\ backend # None /\ player.out = backend.out
OwnOutputs ==
    /\ on \subseteq missed \cup (IF backend = None THEN {} ELSE OutputsOf(backend.kind))
    /\ backend # None => backend.out \in OutputsOf(backend.kind)
    /\ ~BusFaults => missed = {}
OwnState ==
    /\ state.active => backend # None /\ state.kind = backend.kind /\ state.morse = keyer
    /\ state.active /\ state.kind = "gpclk" /\ ~state.morse
         => "pin" \in on /\ tuned["pin"] = state.freq
SigInv == TypeOK /\ Held /\ PlaysOwn /\ OwnOutputs /\ OwnState

\* Without a backend nothing radiates but what a failed bus left on as the backend
\* was dropped: after a stop has answered, or a start that was refused, no keyer
\* switches an output on again, and the Pi's pin is quiet whatever the bus does.
QuietWhenStopped == lock = None /\ backend = None => on \subseteq missed

\* A continuous carrier of the Pi's clock is on the air, at the frequency that
\* the status tells, through retunes and failed requests.
AsShown(kinds) ==
    lock = None /\ state.active /\ state.kind \in kinds /\ ~state.morse
        => backend.out \in on /\ tuned[backend.out] = state.freq
ClockAsShown == AsShown({"gpclk"})

\* So is one of the Si5351.
CarrierAsShown == AsShown(Kind)

\* A start or a stop always comes to its answer: the keyer lets go.
Answered == \A t \in Thread : at[t] # "idle" ~> at[t] = "idle"

\* What radiates is shown as active.
ShownWhenRadiating == lock = None /\ on # {} => state.active

\* The generator has one carrier.
OneOutput == Cardinality(on) <= 1

\* A keyed carrier is on while its keyer plays, and not after its message.
KeyedOnly == lock = None /\ state.morse /\ player = None => on = {}
=============================================================================
