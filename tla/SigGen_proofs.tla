----------------------------- MODULE SigGen_proofs -----------------------------
(* The signal generator, for any threads, channels and frequencies: its          *)
(* inductive invariant, that without a backend nothing radiates but what a       *)
(* failed bus left on, and that a continuous carrier of the Pi's clock is on     *)
(* the air as its status tells.                                                  *)
EXTENDS SigGen, TLAPS

\* The constants apart from one another.
LEMMA Constants ==
    /\ "pin" \notin Channel /\ None \notin Channel /\ None \notin Freq /\ None \notin Thread
    /\ None \notin Backend
BY OutputAssumption, NoneAssumption

LEMMA SigInit == Init => SigInv
<1> SUFFICES ASSUME Init PROVE SigInv
  OBVIOUS
<1>1. TypeOK
  <2>1. state \in [active : BOOLEAN, kind : Kind \cup {None}, freq : Freq \cup {None},
                   morse : BOOLEAN]
    BY DEF Init, Stopped
  <2>2. QED
    BY <2>1 DEF Init, TypeOK
<1>2. Held
  BY Constants DEF Init, Held
<1>3. PlaysOwn /\ OwnOutputs
  BY DEF Init, PlaysOwn, OwnOutputs
<1>4. OwnState
  BY DEF Init, OwnState, Stopped
<1>5. QED
  BY <1>1, <1>2, <1>3, <1>4 DEF SigInv

\* What the stop that precedes a start leaves on are outputs of the chip whose
\* silencing failed; the init of the chip switches these off too.
LEMMA SilencedLeft ==
    ASSUME SigInv, NEW f \in Fails
    PROVE  /\ Silenced(f) \subseteq Dropped(f) /\ Dropped(f) \subseteq Channel
           /\ ~BusFaults => Dropped(f) = {}
<1>1. missed \subseteq Channel /\ (~BusFaults => missed = {})
  BY DEF SigInv, TypeOK, OwnOutputs
<1>2. CASE backend = None
  <2>1. f = {} /\ on \subseteq missed
    BY <1>2 DEF Fails, SigInv, OwnOutputs
  <2>2. QED
    BY <1>1, <1>2, <2>1 DEF Silenced, Dropped
<1>3. CASE backend # None /\ backend.kind = "si5351"
  <2>1. on \subseteq Channel
    BY <1>1, <1>3 DEF SigInv, OwnOutputs, OutputsOf
  <2>2. CASE f = {}
    BY <1>1, <1>3, <2>1, <2>2 DEF Silenced, Dropped, Reached
  <2>3. CASE f # {}
    <3>1. BusFaults
      BY <1>3, <2>3 DEF Fails
    <3>2. QED
      BY <1>1, <1>3, <2>1, <2>3, <3>1 DEF Silenced, Dropped
  <2>4. QED
    BY <2>2, <2>3
<1>4. CASE backend # None /\ backend.kind # "si5351"
  <2>1. f = {} /\ backend.kind = "gpclk" /\ backend.out = "pin" /\ on \subseteq missed \cup {"pin"}
    BY <1>4 DEF Fails, SigInv, TypeOK, OwnOutputs, OutputsOf, Backend, Kind
  <2>2. QED
    BY <1>1, <1>4, <2>1 DEF Silenced, Dropped, Reached
<1>5. QED
  BY <1>2, <1>3, <1>4

LEMMA MadeLeft ==
    ASSUME SigInv, NEW f \in Fails, NEW b \in Choices
    PROVE  /\ Made(b, Silenced(f)) \subseteq Made(b, Dropped(f))
           /\ Made(b, Dropped(f)) \subseteq Channel
           /\ ~BusFaults => Made(b, Dropped(f)) = {}
BY SilencedLeft DEF Made

\* A start or a stop takes the lock and tells the keyer's thread to end.
LEMMA BeginKeeps ==
    ASSUME SigInv, NEW t \in Thread, NEW what \in {"start", "stop"}, Begin(t, what),
           starts' \in Nat
    PROVE  SigInv'
<1> USE DEF Begin, SigInv
<1>1. Signalled \in Player \cup {None} /\ (Signalled # None => player # None /\ Signalled.out = player.out)
  <2>1. CASE player = None
    BY <2>1 DEF Signalled
  <2>2. CASE player # None
    <3>1. player \in Player
      BY <2>2 DEF TypeOK
    <3>2. [player EXCEPT !.stop = TRUE] \in Player /\ [player EXCEPT !.stop = TRUE].out = player.out
      BY <3>1 DEF Player
    <3>3. QED
      BY <2>2, <3>2 DEF Signalled
  <2>3. QED
    BY <2>1, <2>2
<1>2. TypeOK'
  BY <1>1 DEF TypeOK, hardware
<1>3. Held'
  BY Constants DEF TypeOK, Held
<1>4. PlaysOwn'
  BY <1>1 DEF PlaysOwn
<1>5. OwnOutputs' /\ OwnState'
  BY DEF OwnOutputs, OwnState, hardware
<1>6. QED
  BY <1>2, <1>3, <1>4, <1>5

\* What every end of a start or a stop does to the lock.
LEMMA ReturnHeld ==
    ASSUME SigInv, NEW t \in Thread, at[t] # "idle", Return(t)
    PROVE  Held' /\ lock' \in Thread \cup {None} /\ at' \in [Thread -> {"idle", "start", "stop"}]
BY Constants DEF SigInv, TypeOK, Held, Return

\* A stop, and a start that is refused, leave no backend.
LEMMA EmptiedKeeps ==
    ASSUME SigInv, NEW t \in Thread, StopEnds(t) \/ StartRefused(t)
    PROVE  SigInv'
<1> USE DEF StopEnds, StartRefused
<1>1. /\ Held' /\ lock' \in Thread \cup {None} /\ at' \in [Thread -> {"idle", "start", "stop"}]
  BY ReturnHeld
<1>2. player' = None /\ on' \subseteq missed' /\ missed' \subseteq Channel /\ (~BusFaults => missed' = {})
  <2>1. player' = None
    BY DEF Joined
  <2>2. CASE StopEnds(t)
    BY <2>1, <2>2, SilencedLeft
  <2>3. CASE StartRefused(t)
    BY <2>1, <2>3, SilencedLeft, MadeLeft
  <2>4. QED
    BY <2>2, <2>3
<1>3. Stopped \in [active : BOOLEAN, kind : Kind \cup {None}, freq : Freq \cup {None},
                   morse : BOOLEAN]
  BY DEF Stopped
<1>4. TypeOK'
  BY <1>1, <1>2, <1>3 DEF SigInv, TypeOK, Output
<1>5. PlaysOwn' /\ OwnOutputs'
  BY <1>2 DEF PlaysOwn, OwnOutputs
<1>6. OwnState'
  BY DEF OwnState, Stopped
<1>7. QED
  BY <1>1, <1>4, <1>5, <1>6 DEF SigInv

LEMMA ChoicesType ==
    ASSUME NEW b \in Choices
    PROVE  b \in Backend /\ b.out \in OutputsOf(b.kind) /\ b # None
BY Constants DEF Choices, Backend, Kind, Output, OutputsOf

\* A start that raises after the backend was made leaves the backend, off.
LEMMA StartRaisesKeeps ==
    ASSUME SigInv, NEW t \in Thread, NEW b \in Choices, NEW f \in Freq, StartRaises(t, b, f)
    PROVE  SigInv'
<1> USE DEF StartRaises
<1>1. /\ Held' /\ lock' \in Thread \cup {None} /\ at' \in [Thread -> {"idle", "start", "stop"}]
  BY ReturnHeld
<1>2. player' = None /\ on' \subseteq missed' /\ missed' \subseteq Channel /\ (~BusFaults => missed' = {})
  BY MadeLeft DEF Joined
<1>3. Stopped \in [active : BOOLEAN, kind : Kind \cup {None}, freq : Freq \cup {None},
                   morse : BOOLEAN]
  BY DEF Stopped
<1>4. tuned' \in [Output -> Freq \cup {None}]
  BY DEF SigInv, TypeOK, Tune
<1>5. TypeOK'
  BY <1>1, <1>2, <1>3, <1>4, ChoicesType DEF SigInv, TypeOK, Output
<1>6. PlaysOwn' /\ OwnOutputs'
  BY <1>2, ChoicesType DEF PlaysOwn, OwnOutputs
<1>7. OwnState'
  BY DEF OwnState, Stopped
<1>8. QED
  BY <1>1, <1>5, <1>6, <1>7 DEF SigInv

\* A start makes the backend, and keys it or starts the keyer.
LEMMA StartKeeps ==
    ASSUME SigInv, NEW t \in Thread, NEW b \in Choices, NEW f \in Freq, NEW m \in BOOLEAN,
           Start(t, b, f, m)
    PROVE  SigInv'
<1> USE DEF Start
<1>1. /\ Held' /\ lock' \in Thread \cup {None} /\ at' \in [Thread -> {"idle", "start", "stop"}]
  BY ReturnHeld
<1>2. player = None
  BY DEF Joined
<1>3. b \in Backend /\ b.out \in OutputsOf(b.kind) /\ b # None /\ b.kind \in Kind /\ b.out \in Output
  BY ChoicesType DEF Backend
<1>4. b.kind = "gpclk" => b.out = "pin"
  BY <1>3 DEF OutputsOf
<1>5. /\ on' \subseteq missed' \cup {b.out} /\ (~m => b.out \in on')
      /\ missed' \subseteq Channel /\ (~BusFaults => missed' = {})
  BY MadeLeft
<1>6. /\ player' \in Player \cup {None}
      /\ player' # None => m /\ player'.out = b.out
  <2>1. CASE m
    <3>1. PICK r \in BOOLEAN : player' = [out |-> b.out, repeat |-> r, stop |-> FALSE, at |-> "check"]
      BY <2>1
    <3>2. QED
      BY <1>3, <2>1, <3>1 DEF Player
  <2>2. CASE ~m
    BY <1>2, <2>2
  <2>3. QED
    BY <2>1, <2>2
<1>7. tuned' \in [Output -> Freq \cup {None}] /\ tuned'[b.out] = f
  BY <1>3 DEF SigInv, TypeOK, Tune
<1>8. /\ state' \in [active : BOOLEAN, kind : Kind \cup {None}, freq : Freq \cup {None},
                     morse : BOOLEAN]
      /\ state'.kind = b.kind /\ state'.freq = f /\ state'.morse = m
  BY <1>3
<1>9. TypeOK'
  BY <1>1, <1>3, <1>5, <1>6, <1>7, <1>8 DEF SigInv, TypeOK, Output
<1>10. PlaysOwn'
  BY <1>3, <1>6 DEF PlaysOwn
<1>11. OwnOutputs'
  BY <1>3, <1>5 DEF OwnOutputs
<1>12. OwnState'
  BY <1>3, <1>4, <1>5, <1>7, <1>8 DEF OwnState
<1>13. QED
  BY <1>1, <1>9, <1>10, <1>11, <1>12 DEF SigInv

\* The outputs that a retune of the backend may choose are of its kind.
LEMMA ChannelsOwn ==
    ASSUME SigInv, backend # None,
           NEW c \in (IF backend.kind = "si5351" THEN Channel ELSE {"pin"})
    PROVE  /\ c \in Output /\ c \in OutputsOf(backend.kind)
           /\ [backend EXCEPT !.out = c] \in Backend
           /\ [backend EXCEPT !.out = c].out = c
           /\ [backend EXCEPT !.out = c].kind = backend.kind
<1>1. backend \in Backend
  BY DEF SigInv, TypeOK
<1>2. c \in Output /\ c \in OutputsOf(backend.kind)
  BY DEF Output, OutputsOf
<1>3. QED
  BY <1>1, <1>2 DEF Backend

\* The player follows the backend to its new output.
LEMMA PlayerFollows ==
    ASSUME SigInv, NEW c \in Output,
           player' = IF player = None THEN None ELSE [player EXCEPT !.out = c]
    PROVE  player' \in Player \cup {None} /\ (player' # None => player # None /\ player'.out = c)
<1>1. CASE player = None
  BY <1>1
<1>2. CASE player # None
  <2>1. player \in Player
    BY <1>2 DEF SigInv, TypeOK
  <2>2. [player EXCEPT !.out = c] \in Player /\ [player EXCEPT !.out = c].out = c
    BY <2>1 DEF Player
  <2>3. QED
    BY <1>2, <2>2
<1>3. QED
  BY <1>1, <1>2

\* A retune of the pin keeps the carrier on it: a player means a keyer.
LEMMA RetuneKeeps ==
    ASSUME SigInv, NEW t \in Thread, NEW f \in Freq, Retune(t, f)
    PROVE  SigInv'
<1> USE DEF Retune
<1>1. PICK c \in (IF backend.kind = "si5351" THEN Channel ELSE {"pin"}) :
        /\ backend' = [backend EXCEPT !.out = c] /\ Tune([out |-> c], f)
        /\ on' = IF backend.kind = "gpclk" THEN Rekeyed ELSE on \ {c}
        /\ player' = IF player = None THEN None ELSE [player EXCEPT !.out = c]
  OBVIOUS
<1>2. /\ backend # None /\ c \in Output /\ c \in OutputsOf(backend.kind)
      /\ backend' \in Backend /\ backend'.out = c /\ backend'.kind = backend.kind
  BY <1>1, ChannelsOwn
<1>3. backend' # None
  BY <1>2, Constants
<1>4. player' \in Player \cup {None} /\ (player' # None => player # None /\ player'.out = c)
  BY <1>1, <1>2, PlayerFollows
<1>5. on' \subseteq missed \cup OutputsOf(backend.kind) /\ on' \subseteq Output
  <2>1. on \subseteq missed \cup OutputsOf(backend.kind) /\ on \subseteq Output
    BY <1>2 DEF SigInv, OwnOutputs, TypeOK
  <2>2. CASE backend.kind = "gpclk"
    BY <1>1, <2>1, <2>2 DEF Rekeyed, OutputsOf, Output
  <2>3. CASE backend.kind # "gpclk"
    BY <1>1, <2>1, <2>3
  <2>4. QED
    BY <2>2, <2>3
<1>6. tuned' \in [Output -> Freq \cup {None}] /\ tuned'[c] = f
  BY <1>1, <1>2 DEF SigInv, TypeOK, Tune
<1>7. /\ state' \in [active : BOOLEAN, kind : Kind \cup {None}, freq : Freq \cup {None},
                     morse : BOOLEAN]
      /\ state'.active = state.active /\ state'.kind = state.kind
      /\ state'.freq = f /\ state'.morse = state.morse
  BY DEF SigInv, TypeOK
<1>8. TypeOK'
  BY <1>2, <1>4, <1>5, <1>6, <1>7 DEF SigInv, TypeOK
<1>9. Held'
  BY DEF SigInv, Held
<1>10. PlaysOwn'
  BY <1>2, <1>3, <1>4 DEF SigInv, PlaysOwn
<1>11. OwnOutputs'
  BY <1>2, <1>3, <1>5 DEF SigInv, OwnOutputs
<1>12. OwnState'
  <2>1. ASSUME state'.active PROVE state'.kind = backend'.kind /\ state'.morse = keyer'
    BY <1>2, <1>7, <2>1 DEF SigInv, OwnState
  <2>2. ASSUME state'.active, state'.kind = "gpclk", ~state'.morse
        PROVE  "pin" \in on' /\ tuned'["pin"] = state'.freq
    <3>1. backend.kind = "gpclk" /\ ~keyer
      BY <1>7, <2>2 DEF SigInv, OwnState
    <3>2. c = "pin"
      BY <1>1, <3>1
    <3>3. QED
      BY <1>1, <1>6, <1>7, <3>1, <3>2 DEF Rekeyed
  <2>3. QED
    BY <1>3, <2>1, <2>2 DEF OwnState
<1>13. QED
  BY <1>8, <1>9, <1>10, <1>11, <1>12 DEF SigInv

\* A retune that the chip cannot do changes the channel and what it is tuned to.
LEMMA RetuneFailsKeeps ==
    ASSUME SigInv, NEW t \in Thread, NEW f \in Freq, RetuneFails(t, f)
    PROVE  SigInv'
<1> USE DEF RetuneFails, hardware
<1>1. PICK c \in Channel :
        /\ backend' = [backend EXCEPT !.out = c]
        /\ player' = IF player = None THEN None ELSE [player EXCEPT !.out = c]
        /\ tuned' \in {tuned} \cup
             (IF BusFaults THEN {[tuned EXCEPT ![c] = x] : x \in {f, None}} ELSE {})
  OBVIOUS
<1>2. /\ backend # None /\ c \in Output /\ c \in OutputsOf(backend.kind)
      /\ backend' \in Backend /\ backend'.out = c /\ backend'.kind = backend.kind
  BY <1>1, ChannelsOwn
<1>3. backend' # None
  BY <1>2, Constants
<1>4. player' \in Player \cup {None} /\ (player' # None => player # None /\ player'.out = c)
  BY <1>1, <1>2, PlayerFollows
<1>11. /\ tuned' \in [Output -> Freq \cup {None}]
       /\ \A o \in Output : o # c => tuned'[o] = tuned[o]
  BY <1>1, <1>2 DEF SigInv, TypeOK
<1>5. TypeOK'
  BY <1>2, <1>4, <1>11 DEF SigInv, TypeOK
<1>6. Held'
  BY DEF SigInv, Held
<1>7. PlaysOwn'
  BY <1>2, <1>3, <1>4 DEF SigInv, PlaysOwn
<1>8. OwnOutputs'
  BY <1>2, <1>3 DEF SigInv, OwnOutputs
<1>9. OwnState'
  <2>1. c # "pin" /\ "pin" \in Output
    BY Constants DEF Output
  <2>2. QED
    BY <1>2, <1>3, <1>11, <2>1 DEF SigInv, OwnState
<1>10. QED
  BY <1>5, <1>6, <1>7, <1>8, <1>9 DEF SigInv

\* The keyer's steps touch only the backend's output, and only while there is a
\* keyer: never a continuous carrier.
LEMMA KeyerKeeps ==
    ASSUME SigInv, NEW next, Keyer(next), player # None,
           next \in Player \cup {None}, next # None => next.out = player.out,
           on' \subseteq on \cup {player.out}
    PROVE  SigInv'
<1> USE DEF Keyer
<1>1. player \in Player /\ keyer /\ backend # None /\ player.out = backend.out
  BY DEF SigInv, TypeOK, PlaysOwn
<1>2. backend.out \in OutputsOf(backend.kind) /\ on \subseteq missed \cup OutputsOf(backend.kind)
  BY <1>1 DEF SigInv, OwnOutputs
<1>3. player.out \in Output
  BY <1>1 DEF Player
<1>4. TypeOK'
  BY <1>3 DEF SigInv, TypeOK
<1>5. Held'
  BY DEF SigInv, Held
<1>6. PlaysOwn'
  BY <1>1 DEF PlaysOwn
<1>7. OwnOutputs'
  BY <1>1, <1>2 DEF SigInv, OwnOutputs
<1>8. OwnState'
  <2>1. state'.active => backend' # None /\ state'.kind = backend'.kind /\ state'.morse = keyer'
    BY DEF SigInv, OwnState
  <2>2. ~(state'.active /\ state'.kind = "gpclk" /\ ~state'.morse)
    BY <1>1, <2>1
  <2>3. QED
    BY <2>1, <2>2 DEF OwnState
<1>9. QED
  BY <1>4, <1>5, <1>6, <1>7, <1>8 DEF SigInv

LEMMA PlayerSteps ==
    ASSUME SigInv, Checks \/ KeysOn \/ KeysOff
    PROVE  SigInv'
<1>1. player # None /\ player \in Player
  BY DEF SigInv, TypeOK, Checks, KeysOn, KeysOff
<1>2. \A p \in {"check", "key", "mark"} :
        [player EXCEPT !.at = p] \in Player /\ [player EXCEPT !.at = p].out = player.out
  BY <1>1 DEF Player
<1>3. KeyerEnds => SigInv'
  BY <1>1, KeyerKeeps DEF KeyerEnds, Onto
<1>4. CASE Checks
  <2>1. CASE Heard
    BY <1>3, <1>4, <2>1 DEF Checks
  <2>2. CASE ~Heard
    BY <1>1, <1>2, <1>4, <2>2, KeyerKeeps DEF Checks
  <2>3. QED
    BY <2>1, <2>2
<1>5. CASE KeysOn
  BY <1>1, <1>2, <1>3, <1>5, KeyerKeeps DEF KeysOn
<1>6. CASE KeysOff
  <2>1. CASE KeyerEnds
    BY <1>3, <2>1
  <2>2. CASE Keyer([player EXCEPT !.at = "check"]) /\ on' = on \ {player.out}
    BY <1>1, <1>2, <2>2, KeyerKeeps
  <2>3. CASE Keyer(None) /\ on' = on \ {player.out}
    BY <1>1, <2>3, KeyerKeeps
  <2>4. QED
    BY <1>6, <2>1, <2>2, <2>3 DEF KeysOff
<1>7. QED
  BY <1>4, <1>5, <1>6

\* The inductive invariant of the generator: the lock's holder, the keyer and its
\* backend, what radiates and what the status says belong together
\* (start, stop and set_frequency under _lock, and the keyer's thread).
THEOREM SigInvariant == Spec => []SigInv
<1>1. Init => SigInv
  BY SigInit
<1>2. SigInv /\ [Next]_vars => SigInv'
  <2> SUFFICES ASSUME SigInv, [Next]_vars PROVE SigInv'
    OBVIOUS
  <2>1. ASSUME NEW t \in Thread, StartBegins(t) PROVE SigInv'
    <3>1. starts' \in Nat
      BY <2>1 DEF StartBegins, SigInv, TypeOK
    <3>2. QED
      BY <2>1, <3>1, BeginKeeps DEF StartBegins
  <2>2. ASSUME NEW t \in Thread, StopBegins(t) PROVE SigInv'
    <3>1. starts' \in Nat
      BY <2>2 DEF StopBegins, SigInv, TypeOK
    <3>2. QED
      BY <2>2, <3>1, BeginKeeps DEF StopBegins
  <2>3. ASSUME NEW t \in Thread, Ends(t) PROVE SigInv'
    BY <2>3, EmptiedKeeps, StartRaisesKeeps, StartKeeps DEF Ends
  <2>4. ASSUME NEW t \in Thread, NEW f \in Freq, RetuneFails(t, f) PROVE SigInv'
    BY <2>4, RetuneFailsKeeps
  <2>5. ASSUME NEW t \in Thread, NEW f \in Freq, Retune(t, f) PROVE SigInv'
    BY <2>5, RetuneKeeps
  <2>6. CASE Checks \/ KeysOn \/ KeysOff
    BY <2>6, PlayerSteps
  <2>7. CASE UNCHANGED vars
    BY <2>7 DEF vars, hardware, SigInv, TypeOK, Held, PlaysOwn, OwnOutputs, OwnState
  <2>8. QED
    BY <2>1, <2>2, <2>3, <2>4, <2>5, <2>6, <2>7 DEF Next
<1>3. QED
  BY <1>1, <1>2, PTL DEF Spec

\* Without a backend nothing radiates but the outputs of the chip that a failed
\* bus left on, and never the pin: once _stop_locked has joined the keyer and let
\* the backend go, no thread can key an output again.  On a bus that does not fail
\* nothing is left on.
THEOREM NothingRadiates ==
    Spec => /\ []QuietWhenStopped
            /\ [](backend = None => "pin" \notin on)
            /\ [](backend = None /\ ~BusFaults => on = {})
<1>1. SigInv => /\ QuietWhenStopped /\ (backend = None => "pin" \notin on)
                /\ (backend = None /\ ~BusFaults => on = {})
  BY Constants DEF SigInv, TypeOK, OwnOutputs, QuietWhenStopped
<1>2. QED
  BY <1>1, SigInvariant, PTL

\* A continuous carrier of the Pi's clock is on the air at the frequency shown,
\* whatever retunes, failed requests and keyers came before.
THEOREM ClockRadiates == Spec => []ClockAsShown
<1>1. SigInv => ClockAsShown
  <2> SUFFICES ASSUME SigInv, state.active, state.kind = "gpclk", ~state.morse
               PROVE  backend.out \in on /\ tuned[backend.out] = state.freq
    BY DEF ClockAsShown, AsShown
  <2>1. backend # None /\ backend.kind = "gpclk" /\ "pin" \in on /\ tuned["pin"] = state.freq
    BY DEF SigInv, OwnState
  <2>2. backend.out = "pin"
    BY <2>1 DEF SigInv, OwnOutputs, OutputsOf
  <2>3. QED
    BY <2>1, <2>2
<1>2. QED
  BY <1>1, SigInvariant, PTL

=============================================================================
