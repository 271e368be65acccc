------------------------- MODULE DebugSessions_proofs -------------------------
(* For any number of threads, slots, probes and pids, and any faults: no      *)
(* OpenOCD process is left behind, no probe serves two sessions, and what     *)
(* listens on a session's port is its own process.                            *)
EXTENDS DebugSessions, TLAPS

USE AdapterAssumption, SlotAssumption, WiredAssumption, BoundAssumption, KindsAssumption

\* No session, no process and no busy thread.
LEMMA InitInv ==
    ASSUME Init
    PROVE  DebugInv
<1>1. TypeOK
  BY DEF Init, TypeOK, Place, State, Adapter
<1>2. Placed /\ LockHeldInside /\ NoneInside
  BY DEF Init, Placed, PlacedAt, LockHeldInside, NoneInside, Inside
<1>3. OneKeeper /\ ProbesAccounted /\ ProbeExclusive /\ NoStray
  BY DEF Init, OneKeeper, ProbesAccounted, ProbeExclusive, NoStray, Parent
<1> QED BY <1>1, <1>2, <1>3 DEF DebugInv

\* Every step of a thread keeps the types.
LEMMA TypeHandle ==
    ASSUME TypeOK, Placed, OneKeeper, NEW t \in Thread, Handle(t)
    PROVE  TypeOK'
<1> USE DEF TypeOK, Place, Adapter, Op, My, slotVars, threadVars
<1>0. req[t] \in Request \/ pc[t] = "idle"
  BY DEF Placed, PlacedAt
<1>1. CASE Ask(t)
  BY <1>0, <1>1 DEF Ask, Request, State, WhenDebugged, WhenNot
<1>2. CASE EnterRefused(t)
  BY <1>0, <1>2 DEF EnterRefused, Request, State, AfterFailure
<1>3. CASE Enter(t)
  BY <1>0, <1>3 DEF Enter, Request, State, ChipKnown
<1>4. CASE AttemptFails(t)
  BY <1>0, <1>4 DEF AttemptFails, Request, State, Unbound
<1>5. CASE Attempt(t)
  BY <1>0, <1>5 DEF Attempt, Request, State, Unbound, Adapters, Boards
<1>6. CASE Identified(t)
  <2>1. aim[t] \in Adapter /\ My(t) \in Slot
    BY <1>0, <1>6 DEF Identified, Placed, PlacedAt, Request
  <2>2. Behind(aim[t]) \in Slot \cup {None}
    BY <2>1 DEF Behind
  <2> QED BY <1>6, <2>1, <2>2 DEF Identified
<1>7. CASE Unidentified(t)
  BY <1>0, <1>7 DEF Unidentified, Request, State
<1>8. CASE NotDetected(t)
  BY <1>0, <1>8 DEF NotDetected, Request, State, AfterFailure, Unlock
<1>9. CASE LaunchRefused(t)
  BY <1>0, <1>9 DEF LaunchRefused, Request, State, AfterFailure, Unlock
<1>10. CASE Launch(t)
  <2>1. My(t) \in Slot
    BY <1>0, <1>10 DEF Launch, Request
  <2>2. \A a \in Adapters(t) : a \in Adapter
    BY <2>1 DEF Adapters, Boards
  <2>3. PICK q \in Proc, a \in Adapters(t) :
          /\ proc' = [proc EXCEPT ![q] = [stage |-> "boot", adapter |-> a, slot |-> My(t)]]
          /\ child' = [child EXCEPT ![t] = q]
    BY <1>10 DEF Launch
  <2>4. [stage |-> "boot", adapter |-> a, slot |-> My(t)] \in Process
    BY <2>1, <2>2 DEF Process
  <2>5. proc' \in [Proc -> Process \cup {None}] /\ child' \in [Thread -> Proc \cup {None}]
    BY <2>3, <2>4
  <2> QED BY <1>10, <2>5 DEF Launch, Unbound
<1>11. CASE Started(t)
  <2>1. My(t) \in Slot /\ child[t] # None
    BY <1>0, <1>11 DEF Started, Request, OneKeeper, Parent
  <2>2. [proc |-> child[t], probe |-> probe[t]] \in Session
    BY <2>1 DEF Session
  <2>3. sessions' \in [Slot -> Session \cup {None}]
    BY <1>11, <2>1, <2>2 DEF Started
  <2> QED BY <1>11, <2>3 DEF Started, Unlock
<1>12. CASE StartFails(t)
  BY <1>0, <1>12 DEF StartFails, Request, State, Killed, Released, Unlock, AfterFailure
<1>13. CASE Mark(t)
  BY <1>0, <1>13 DEF Mark, Request, State
<1>14. CASE Offer(t)
  BY <1>0, <1>14 DEF Offer, Request, State
<1>15. CASE Pick(t)
  BY <1>0, <1>15 DEF Pick, Request, State
<1>16. CASE GiveUp(t)
  BY <1>0, <1>16 DEF GiveUp, Request, State
<1>17. CASE StopNone(t)
  BY <1>0, <1>17 DEF StopNone, Request, State, AfterStop
<1>18. CASE Stop(t)
  <2>1. My(t) \in Slot
    BY <1>0, <1>18 DEF Stop, Request
  <2>2. sessions[My(t)] \in Session
    BY <1>18, <2>1 DEF Stop
  <2>3. sessions[My(t)].proc \in Proc /\ sessions[My(t)].probe \in Probe \cup {None}
    BY <2>2 DEF Session
  <2> QED BY <1>18, <2>1, <2>3 DEF Stop
<1>19. CASE Kill(t)
  <2>1. /\ proc' = [proc EXCEPT ![child[t]] = None] /\ inuse' = inuse \ {probe[t]}
        /\ bound' = bound \cup ({probe[t]} \ {None}) /\ lock' = None
        /\ child' = [child EXCEPT ![t] = None] /\ probe' = [probe EXCEPT ![t] = None]
        /\ pc' = [pc EXCEPT ![t] = AfterStop(t)]
        /\ UNCHANGED <<sessions, slotVars, req, todo, fell, tries, aim, was, made, faults, leaked>>
    BY <1>19 DEF Kill, Killed, Released, Unlock
  <2>2. AfterStop(t) \in Place
    BY DEF AfterStop
  <2>3. probe[t] \in Probe \cup {None}
    OBVIOUS
  <2> QED BY <2>1, <2>2, <2>3
<1>20. CASE Unmark(t)
  BY <1>0, <1>20 DEF Unmark, Request, State, Settled
<1>21. CASE Drive(t)
  BY <1>0, <1>21 DEF Drive, Request, State
<1>22. CASE Driven(t)
  BY <1>0, <1>22 DEF Driven, Request, State, StateAfter, Settled
<1>23. CASE Restart(t)
  BY <1>0, <1>23 DEF Restart, Request, State
<1>24. CASE Serve(t)
  BY <1>0, <1>24 DEF Serve, Request, State
<1>25. CASE Look(t)
  BY <1>0, <1>25 DEF Look, Request, State
<1>26. CASE JtagReset(t)
  BY <1>0, <1>26 DEF JtagReset, Request, State
<1>27. CASE Telnet(t)
  BY <1>0, <1>27 DEF Telnet, Request, State
<1>28. CASE ReadEnds(t)
  BY <1>0, <1>28 DEF ReadEnds, Request, State, StateAfter, Settled
<1> QED BY <1>1, <1>2, <1>3, <1>4, <1>5, <1>6, <1>7, <1>8, <1>9, <1>10, <1>11, <1>12, <1>13, <1>14, <1>15, <1>16, <1>17, <1>18, <1>19, <1>20, <1>21, <1>22, <1>23, <1>24, <1>25, <1>26, <1>27, <1>28 DEF Handle

\* What a new request leaves alone, and what it may be.
Fits(op, place) == \/ place = "ask" /\ op \in {"flash", "bench", "remove", "reset", "add"}
                   \/ place = "stop" /\ op = "stop"
                   \/ place = "enter" /\ op = "start"
                   \/ place = "drive" /\ op = "read"

Fresh(t) ==
    /\ pc[t] = "idle"
    /\ UNCHANGED <<lock, sessions, inuse, bound, proc, child, leaked, aim>>
    /\ \A u \in Thread \ {t} :
          pc'[u] = pc[u] /\ req'[u] = req[u] /\ probe'[u] = probe[u] /\ was'[u] = was[u]
    /\ req'[t] \in Request /\ was'[t] = FALSE /\ Fits(req'[t].op, pc'[t])

\* A request is recorded as such, and starts where its handler starts.
LEMMA BeginFits ==
    ASSUME TypeOK, NEW t \in Thread, NEW s \in Slot, NEW op \in Kind, NEW given \in BOOLEAN,
           NEW p \in Probe \cup {None}, NEW place, Fits(op, place), Begin(t, op, s, given, p, place)
    PROVE  /\ Fresh(t)
           /\ /\ present' \in [Slot -> BOOLEAN] /\ state' \in [Slot -> State]
              /\ chip' \in [Slot -> Slot \cup {None}]
              => TypeOK'
<1>1. [op |-> op, slot |-> s, chip |-> given] \in Request
  BY DEF Request
<1>2. req' = [req EXCEPT ![t] = [op |-> op, slot |-> s, chip |-> given]]
  BY DEF Begin
<1>3. req'[t] \in Request /\ req'[t].op = op /\ req' \in [Thread -> Request \cup {None}]
  BY <1>1, <1>2 DEF TypeOK
<1>4. pc'[t] = place /\ place \in Place /\ was'[t] = FALSE
  BY DEF Begin, TypeOK, Fits, Place
<1>5. \A u \in Thread \ {t} :
          pc'[u] = pc[u] /\ req'[u] = req[u] /\ probe'[u] = probe[u] /\ was'[u] = was[u]
  BY DEF Begin, TypeOK
<1>6. pc[t] = "idle" /\ UNCHANGED <<lock, sessions, inuse, bound, proc, child, leaked, aim>>
  BY DEF Begin
<1>7. Fits(req'[t].op, pc'[t])
  BY <1>3, <1>4
<1>8. Fresh(t)
  BY <1>3, <1>4, <1>5, <1>6, <1>7 DEF Fresh
<1>9. pc' \in [Thread -> Place]
  BY <1>4 DEF Begin, TypeOK
<1>10. ASSUME present' \in [Slot -> BOOLEAN] /\ state' \in [Slot -> State],
              chip' \in [Slot -> Slot \cup {None}]
       PROVE  TypeOK'
  BY <1>3, <1>9, <1>10 DEF Begin, TypeOK
<1> QED BY <1>8, <1>10

LEMMA AskedFits ==
    ASSUME TypeOK, NEW t \in Thread, NEW s \in Slot, Asked(t, s)
    PROVE  TypeOK' /\ Fresh(t)
<1>0. /\ present \in [Slot -> BOOLEAN] /\ state \in [Slot -> State]
      /\ chip \in [Slot -> Slot \cup {None}]
  BY DEF TypeOK
<1>1. CASE RequestStart(t, s)
  <2>1. PICK given \in BOOLEAN, p \in Probe \cup {None} : Begin(t, "start", s, given, p, "enter")
    BY <1>1 DEF RequestStart
  <2>2. "start" \in Kind /\ Fits("start", "enter")
    BY DEF Kind, Fits
  <2>3. /\ present' \in [Slot -> BOOLEAN] /\ state' \in [Slot -> State]
        /\ chip' \in [Slot -> Slot \cup {None}]
    BY <1>0, <1>1 DEF RequestStart, slotVars, State
  <2> QED BY <2>1, <2>2, <2>3, BeginFits
<1>2. CASE RequestStop(t, s)
  <2>1. Begin(t, "stop", s, FALSE, None, "stop")
    BY <1>2 DEF RequestStop
  <2>2. "stop" \in Kind /\ Fits("stop", "stop")
    BY DEF Kind, Fits
  <2>3. /\ present' \in [Slot -> BOOLEAN] /\ state' \in [Slot -> State]
        /\ chip' \in [Slot -> Slot \cup {None}]
    BY <1>0, <1>2 DEF RequestStop, slotVars, State
  <2> QED BY <2>1, <2>2, <2>3, BeginFits
<1>3. CASE RequestOther(t, s)
  <2>1. PICK op \in {"bench", "reset"} : Begin(t, op, s, FALSE, None, "ask")
    BY <1>3 DEF RequestOther
  <2>2. op \in Kind /\ Fits(op, "ask")
    BY DEF Kind, Fits
  <2>3. /\ present' \in [Slot -> BOOLEAN] /\ state' \in [Slot -> State]
        /\ chip' \in [Slot -> Slot \cup {None}]
    BY <1>0, <1>3 DEF RequestOther, slotVars, State
  <2> QED BY <2>1, <2>2, <2>3, BeginFits
<1>4. CASE RequestFlash(t, s)
  <2>1. Begin(t, "flash", s, FALSE, None, "ask")
    BY <1>4 DEF RequestFlash
  <2>2. "flash" \in Kind /\ Fits("flash", "ask")
    BY DEF Kind, Fits
  <2>3. /\ present' \in [Slot -> BOOLEAN] /\ state' \in [Slot -> State]
        /\ chip' \in [Slot -> Slot \cup {None}]
    BY <1>0, <1>4 DEF RequestFlash, slotVars, State
  <2> QED BY <2>1, <2>2, <2>3, BeginFits
<1>5. CASE HotplugAdd(t, s)
  <2>1. Begin(t, "add", s, FALSE, None, "ask")
    BY <1>5 DEF HotplugAdd
  <2>2. "add" \in Kind /\ Fits("add", "ask")
    BY DEF Kind, Fits
  <2>3. /\ present' \in [Slot -> BOOLEAN] /\ state' \in [Slot -> State]
        /\ chip' \in [Slot -> Slot \cup {None}]
    BY <1>0, <1>5 DEF HotplugAdd, slotVars, State
  <2> QED BY <2>1, <2>2, <2>3, BeginFits
<1>6. CASE HotplugRemove(t, s)
  <2>1. Begin(t, "remove", s, FALSE, None, "ask")
    BY <1>6 DEF HotplugRemove
  <2>2. "remove" \in Kind /\ Fits("remove", "ask")
    BY DEF Kind, Fits
  <2>3. /\ present' \in [Slot -> BOOLEAN] /\ state' \in [Slot -> State]
        /\ chip' \in [Slot -> Slot \cup {None}]
    BY <1>0, <1>6 DEF HotplugRemove, slotVars, State
  <2> QED BY <2>1, <2>2, <2>3, BeginFits
<1>7. CASE RequestRead(t, s)
  <2>1. Begin(t, "read", s, FALSE, None, "drive")
    BY <1>7 DEF RequestRead
  <2>2. "read" \in Kind /\ Fits("read", "drive")
    BY DEF Kind, Fits
  <2>3. /\ present' \in [Slot -> BOOLEAN] /\ state' \in [Slot -> State]
        /\ chip' \in [Slot -> Slot \cup {None}]
    BY <1>0, <1>7 DEF RequestRead, slotVars, State
  <2> QED BY <2>1, <2>2, <2>3, BeginFits
<1> QED BY <1>1, <1>2, <1>3, <1>4, <1>5, <1>6, <1>7 DEF Asked

\* The steps of OpenOCD, and a launch that raises.
LEMMA TypeOther ==
    ASSUME TypeOK, Placed
    PROVE  /\ \A q \in Proc : ComesUp(q) \/ Dies(q) \/ Jams(q) => TypeOK'
           /\ \A t \in Thread : LaunchRaises(t) => TypeOK'
<1>1. ASSUME NEW q \in Proc, ComesUp(q) PROVE TypeOK'
  <2>1. proc' \in [Proc -> Process \cup {None}]
    BY <1>1 DEF ComesUp, TypeOK, Process
  <2> QED BY <1>1, <2>1 DEF ComesUp, TypeOK, slotVars, threadVars
<1>2. ASSUME NEW q \in Proc, Dies(q) PROVE TypeOK'
  BY <1>2 DEF Dies, TypeOK, slotVars, threadVars
<1>3. ASSUME NEW q \in Proc, Jams(q) PROVE TypeOK'
  <2>1. proc' \in [Proc -> Process \cup {None}]
    BY <1>3 DEF Jams, TypeOK, Process
  <2> QED BY <1>3, <2>1 DEF Jams, TypeOK, slotVars, threadVars
<1>4. ASSUME NEW t \in Thread, LaunchRaises(t) PROVE TypeOK'
  BY <1>4 DEF LaunchRaises, Unbound, Unlock, AfterFailure, TypeOK, Place, slotVars
<1> QED BY <1>1, <1>2, <1>3, <1>4

LEMMA TypeStep ==
    ASSUME TypeOK, Placed, OneKeeper, [Next]_vars
    PROVE  TypeOK'
<1>1. CASE UNCHANGED vars
  BY <1>1 DEF vars, slotVars, threadVars, TypeOK
<1> QED BY <1>1, TypeHandle, AskedFits, TypeOther DEF Next

\* A step of a thread is the thread's own business.
LEMMA OthersStay ==
    ASSUME TypeOK, NEW t \in Thread, Handle(t)
    PROVE  /\ req' = req /\ leaked' = leaked /\ pc[t] # "idle"
           /\ \A u \in Thread \ {t} :
                 /\ pc'[u] = pc[u] /\ probe'[u] = probe[u] /\ was'[u] = was[u]
                 /\ aim'[u] = aim[u] /\ child'[u] = child[u]
<1> USE DEF TypeOK, slotVars, threadVars
<1>1. CASE Ask(t)
  BY <1>1 DEF Ask
<1>2. CASE EnterRefused(t)
  BY <1>2 DEF EnterRefused
<1>3. CASE Enter(t)
  BY <1>3 DEF Enter
<1>4. CASE AttemptFails(t)
  BY <1>4 DEF AttemptFails
<1>5. CASE Attempt(t)
  BY <1>5 DEF Attempt
<1>6. CASE Identified(t)
  BY <1>6 DEF Identified
<1>7. CASE Unidentified(t)
  BY <1>7 DEF Unidentified
<1>8. CASE NotDetected(t)
  BY <1>8 DEF NotDetected
<1>9. CASE LaunchRefused(t)
  BY <1>9 DEF LaunchRefused
<1>10. CASE Launch(t)
  BY <1>10 DEF Launch
<1>11. CASE Started(t)
  BY <1>11 DEF Started
<1>12. CASE StartFails(t)
  BY <1>12 DEF StartFails
<1>13. CASE Mark(t)
  BY <1>13 DEF Mark
<1>14. CASE Offer(t)
  BY <1>14 DEF Offer
<1>15. CASE Pick(t)
  BY <1>15 DEF Pick
<1>16. CASE GiveUp(t)
  BY <1>16 DEF GiveUp
<1>17. CASE StopNone(t)
  BY <1>17 DEF StopNone
<1>18. CASE Stop(t)
  BY <1>18 DEF Stop
<1>19. CASE Kill(t)
  BY <1>19 DEF Kill
<1>20. CASE Unmark(t)
  BY <1>20 DEF Unmark
<1>21. CASE Drive(t)
  BY <1>21 DEF Drive
<1>22. CASE Driven(t)
  BY <1>22 DEF Driven
<1>23. CASE Restart(t)
  BY <1>23 DEF Restart
<1>24. CASE Serve(t)
  BY <1>24 DEF Serve
<1>25. CASE Look(t)
  BY <1>25 DEF Look
<1>26. CASE JtagReset(t)
  BY <1>26 DEF JtagReset
<1>27. CASE Telnet(t)
  BY <1>27 DEF Telnet
<1>28. CASE ReadEnds(t)
  BY <1>28 DEF ReadEnds
<1> QED BY <1>1, <1>2, <1>3, <1>4, <1>5, <1>6, <1>7, <1>8, <1>9, <1>10, <1>11, <1>12, <1>13, <1>14, <1>15, <1>16, <1>17, <1>18, <1>19, <1>20, <1>21, <1>22, <1>23, <1>24, <1>25, <1>26, <1>27, <1>28 DEF Handle

\* Where a step leads is where the request goes on.
LEMMA PlacedHandle ==
    ASSUME TypeOK, Placed, NEW t \in Thread, Handle(t)
    PROVE  Placed'
<1>0. PlacedAt(t) /\ req'[t] = req[t]
  BY OthersStay DEF Placed
<1>a. \A u \in Thread \ {t} : PlacedAt(u)'
  BY OthersStay DEF Placed, PlacedAt, Op
<1>b. PlacedAt(t)'
  <2> USE <1>0 DEF TypeOK, PlacedAt, Op, slotVars, threadVars
  <2>1. CASE Ask(t)
    BY <2>1 DEF Ask, WhenDebugged, WhenNot
  <2>2. CASE EnterRefused(t)
    BY <2>2 DEF EnterRefused, AfterFailure
  <2>3. CASE Enter(t)
    BY <2>3 DEF Enter
  <2>4. CASE AttemptFails(t)
    BY <2>4 DEF AttemptFails
  <2>5. CASE Attempt(t)
    <3>1. My(t) \in Slot
      BY <2>5 DEF Attempt, My, Request
    <3>2. \A a \in Adapters(t) : a \in Adapter
      BY <3>1 DEF Adapters, Boards, Adapter
    <3> QED BY <2>5, <3>2 DEF Attempt
  <2>6. CASE Identified(t)
    BY <2>6 DEF Identified
  <2>7. CASE Unidentified(t)
    BY <2>7 DEF Unidentified
  <2>8. CASE NotDetected(t)
    BY <2>8 DEF NotDetected, AfterFailure
  <2>9. CASE LaunchRefused(t)
    BY <2>9 DEF LaunchRefused, AfterFailure
  <2>10. CASE Launch(t)
    BY <2>10 DEF Launch
  <2>11. CASE Started(t)
    BY <2>11 DEF Started
  <2>12. CASE StartFails(t)
    BY <2>12 DEF StartFails, AfterFailure
  <2>13. CASE Mark(t)
    BY <2>13 DEF Mark
  <2>14. CASE Offer(t)
    BY <2>14 DEF Offer
  <2>15. CASE Pick(t)
    BY <2>15 DEF Pick
  <2>16. CASE GiveUp(t)
    BY <2>16 DEF GiveUp
  <2>17. CASE StopNone(t)
    BY <2>17 DEF StopNone, AfterStop
  <2>18. CASE Stop(t)
    BY <2>18 DEF Stop
  <2>19. CASE Kill(t)
    BY <2>19 DEF Kill, AfterStop
  <2>20. CASE Unmark(t)
    BY <2>20 DEF Unmark
  <2>21. CASE Drive(t)
    BY <2>21 DEF Drive
  <2>22. CASE Driven(t)
    BY <2>22 DEF Driven
  <2>23. CASE Restart(t)
    BY <2>23 DEF Restart
  <2>24. CASE Serve(t)
    BY <2>24 DEF Serve
  <2>25. CASE Look(t)
    BY <2>25 DEF Look
  <2>26. CASE JtagReset(t)
    BY <2>26 DEF JtagReset
  <2>27. CASE Telnet(t)
    BY <2>27 DEF Telnet
  <2>28. CASE ReadEnds(t)
    BY <2>28 DEF ReadEnds
  <2> QED BY <2>1, <2>2, <2>3, <2>4, <2>5, <2>6, <2>7, <2>8, <2>9, <2>10, <2>11, <2>12, <2>13, <2>14, <2>15, <2>16, <2>17, <2>18, <2>19, <2>20, <2>21, <2>22, <2>23, <2>24, <2>25, <2>26, <2>27, <2>28 DEF Handle
<1> QED BY <1>a, <1>b DEF Placed

LEMMA PlacedStep ==
    ASSUME TypeOK, Placed, [Next]_vars
    PROVE  Placed'
<1>1. ASSUME NEW t \in Thread, Fresh(t) PROVE Placed'
  BY <1>1 DEF Fresh, Fits, Placed, PlacedAt, Op
<1>2. ASSUME NEW t \in Thread, LaunchRaises(t) PROVE Placed'
  BY <1>2 DEF LaunchRaises, AfterFailure, Placed, PlacedAt, Op, TypeOK
<1>3. ASSUME NEW q \in Proc, ComesUp(q) \/ Dies(q) \/ Jams(q) PROVE Placed'
  BY <1>3 DEF ComesUp, Dies, Jams, threadVars, Placed, PlacedAt, Op
<1>4. CASE UNCHANGED vars
  BY <1>4 DEF vars, threadVars, Placed, PlacedAt, Op
<1> QED BY <1>1, <1>2, <1>3, <1>4, AskedFits, PlacedHandle DEF Next

\* The lock is taken on the way in and given back on the way out; the slot has
\* no session in between.
LEMMA LockHandle ==
    ASSUME TypeOK, Placed, LockHeldInside, NoneInside, NEW t \in Thread, Handle(t)
    PROVE  LockHeldInside' /\ NoneInside'
<1>0. /\ PlacedAt(t) /\ req' = req
      /\ \A u \in Thread \ {t} : pc'[u] = pc[u] /\ (Inside(u)' <=> Inside(u)) /\ My(u)' = My(u)
  BY OthersStay DEF Placed, Inside, Op, My
<1>1. \/ /\ UNCHANGED <<lock, sessions>> /\ (Inside(t)' <=> Inside(t))
      \/ /\ lock = None /\ lock' = t /\ Inside(t)' /\ sessions'[My(t)] = None
         /\ \A s \in Slot : sessions[s] = None => sessions'[s] = None
      \/ /\ Inside(t) /\ lock' = None /\ ~Inside(t)'
         /\ \A s \in Slot \ {My(t)} : sessions'[s] = sessions[s]
  <2> USE <1>0 DEF TypeOK, PlacedAt, Inside, Op, My, slotVars, threadVars, Request
  <2>1. CASE Ask(t)
    BY <2>1 DEF Ask, WhenDebugged, WhenNot
  <2>2. CASE EnterRefused(t)
    BY <2>2 DEF EnterRefused, AfterFailure
  <2>3. CASE Enter(t)
    BY <2>3 DEF Enter
  <2>4. CASE AttemptFails(t)
    BY <2>4 DEF AttemptFails
  <2>5. CASE Attempt(t)
    BY <2>5 DEF Attempt
  <2>6. CASE Identified(t)
    BY <2>6 DEF Identified
  <2>7. CASE Unidentified(t)
    BY <2>7 DEF Unidentified
  <2>8. CASE NotDetected(t)
    BY <2>8 DEF NotDetected, AfterFailure, Unlock
  <2>9. CASE LaunchRefused(t)
    BY <2>9 DEF LaunchRefused, AfterFailure, Unlock
  <2>10. CASE Launch(t)
    BY <2>10 DEF Launch
  <2>11. CASE Started(t)
    BY <2>11 DEF Started, Unlock
  <2>12. CASE StartFails(t)
    BY <2>12 DEF StartFails, AfterFailure, Unlock
  <2>13. CASE Mark(t)
    BY <2>13 DEF Mark
  <2>14. CASE Offer(t)
    BY <2>14 DEF Offer
  <2>15. CASE Pick(t)
    BY <2>15 DEF Pick
  <2>16. CASE GiveUp(t)
    BY <2>16 DEF GiveUp
  <2>17. CASE StopNone(t)
    BY <2>17 DEF StopNone, AfterStop
  <2>18. CASE Stop(t)
    BY <2>18 DEF Stop
  <2>19. CASE Kill(t)
    BY <2>19 DEF Kill, AfterStop, Unlock
  <2>20. CASE Unmark(t)
    BY <2>20 DEF Unmark
  <2>21. CASE Drive(t)
    BY <2>21 DEF Drive
  <2>22. CASE Driven(t)
    BY <2>22 DEF Driven
  <2>23. CASE Restart(t)
    BY <2>23 DEF Restart
  <2>24. CASE Serve(t)
    BY <2>24 DEF Serve
  <2>25. CASE Look(t)
    BY <2>25 DEF Look
  <2>26. CASE JtagReset(t)
    BY <2>26 DEF JtagReset
  <2>27. CASE Telnet(t)
    BY <2>27 DEF Telnet
  <2>28. CASE ReadEnds(t)
    BY <2>28 DEF ReadEnds
  <2> QED BY <2>1, <2>2, <2>3, <2>4, <2>5, <2>6, <2>7, <2>8, <2>9, <2>10, <2>11, <2>12, <2>13, <2>14, <2>15, <2>16, <2>17, <2>18, <2>19, <2>20, <2>21, <2>22, <2>23, <2>24, <2>25, <2>26, <2>27, <2>28 DEF Handle
<1>2. My(t)' = My(t) /\ \A u \in Thread : Inside(u) => My(u) \in Slot
  BY <1>0 DEF My, Placed, PlacedAt, Inside, Request
<1>3. LockHeldInside'
  BY <1>0, <1>1 DEF LockHeldInside
<1>4. NoneInside'
  BY <1>0, <1>1, <1>2 DEF NoneInside, LockHeldInside
<1> QED BY <1>3, <1>4

LEMMA LockStep ==
    ASSUME TypeOK, Placed, LockHeldInside, NoneInside, [Next]_vars
    PROVE  LockHeldInside' /\ NoneInside'
<1>1. ASSUME NEW t \in Thread, Fresh(t) PROVE LockHeldInside' /\ NoneInside'
  BY <1>1 DEF Fresh, Fits, LockHeldInside, NoneInside, Inside, Op, My
<1>2. ASSUME NEW t \in Thread, LaunchRaises(t) PROVE LockHeldInside' /\ NoneInside'
  BY <1>2 DEF LaunchRaises, AfterFailure, Unlock, LockHeldInside, NoneInside, Inside, Op, My, TypeOK
<1>3. ASSUME NEW q \in Proc, ComesUp(q) \/ Dies(q) \/ Jams(q)
      PROVE  LockHeldInside' /\ NoneInside'
  BY <1>3 DEF ComesUp, Dies, Jams, threadVars, LockHeldInside, NoneInside, Inside, Op, My
<1>4. CASE UNCHANGED vars
  BY <1>4 DEF vars, threadVars, LockHeldInside, NoneInside, Inside, Op, My
<1> QED BY <1>1, <1>2, <1>3, <1>4, AskedFits, LockHandle DEF Next

-----------------------------------------------------------------------------
(* Who keeps a process, and who uses a probe. *)

Kept == OneKeeper /\ ProbesAccounted /\ ProbeExclusive /\ NoStray

\* A step that touches no session, no process and no mark.
Still ==
    /\ UNCHANGED <<sessions, inuse, proc, child, leaked>> /\ bound' \subseteq bound
    /\ \A u \in Thread : /\ Parent(u)' <=> Parent(u)
                         /\ Parent(u) => probe'[u] = probe[u] /\ My(u)' = My(u)

LEMMA StillKept ==
    ASSUME Kept, Still
    PROVE  Kept'
<1> USE DEF Kept, Still
<1>1. OneKeeper'
  BY DEF OneKeeper
<1>2. ProbesAccounted'
  BY DEF ProbesAccounted
<1>3. ProbeExclusive'
  BY DEF ProbeExclusive
<1>4. NoStray'
  BY DEF NoStray
<1> QED BY <1>1, <1>2, <1>3, <1>4

\* All but five steps of a thread are of that kind.
LEMMA QuietHandle ==
    ASSUME TypeOK, Placed, NEW t \in Thread, Handle(t),
           ~Launch(t), ~Started(t), ~StartFails(t), ~Stop(t), ~Kill(t)
    PROVE  Still
<1>0. PlacedAt(t) /\ req' = req
  BY OthersStay DEF Placed
<1>1. \A u \in Thread \ {t} : pc'[u] = pc[u] /\ probe'[u] = probe[u] /\ My(u)' = My(u)
  BY OthersStay DEF My
<1>2. /\ UNCHANGED <<sessions, inuse, proc, child, leaked>> /\ bound' \subseteq bound
      /\ ~Parent(t) /\ ~Parent(t)'
  <2> USE <1>0 DEF TypeOK, PlacedAt, Parent, Op, slotVars, threadVars
  <2>1. CASE Ask(t)
    BY <2>1 DEF Ask, WhenDebugged, WhenNot
  <2>2. CASE EnterRefused(t)
    BY <2>2 DEF EnterRefused, AfterFailure
  <2>3. CASE Enter(t)
    BY <2>3 DEF Enter
  <2>4. CASE AttemptFails(t)
    BY <2>4 DEF AttemptFails, Unbound
  <2>5. CASE Attempt(t)
    BY <2>5 DEF Attempt, Unbound
  <2>6. CASE Identified(t)
    BY <2>6 DEF Identified
  <2>7. CASE Unidentified(t)
    BY <2>7 DEF Unidentified
  <2>8. CASE NotDetected(t)
    BY <2>8 DEF NotDetected, AfterFailure
  <2>9. CASE LaunchRefused(t)
    BY <2>9 DEF LaunchRefused, AfterFailure
  <2>10. CASE Mark(t)
    BY <2>10 DEF Mark
  <2>11. CASE Offer(t)
    BY <2>11 DEF Offer
  <2>12. CASE Pick(t)
    BY <2>12 DEF Pick
  <2>13. CASE GiveUp(t)
    BY <2>13 DEF GiveUp
  <2>14. CASE StopNone(t)
    BY <2>14 DEF StopNone, AfterStop
  <2>15. CASE Unmark(t)
    BY <2>15 DEF Unmark
  <2>16. CASE Drive(t)
    BY <2>16 DEF Drive
  <2>17. CASE Driven(t)
    BY <2>17 DEF Driven
  <2>18. CASE Restart(t)
    BY <2>18 DEF Restart
  <2>19. CASE Serve(t)
    BY <2>19 DEF Serve
  <2>20. CASE Look(t)
    BY <2>20 DEF Look
  <2>21. CASE JtagReset(t)
    BY <2>21 DEF JtagReset
  <2>22. CASE Telnet(t)
    BY <2>22 DEF Telnet
  <2>23. CASE ReadEnds(t)
    BY <2>23 DEF ReadEnds
  <2> QED BY <2>1, <2>2, <2>3, <2>4, <2>5, <2>6, <2>7, <2>8, <2>9, <2>10, <2>11, <2>12, <2>13, <2>14, <2>15, <2>16, <2>17, <2>18, <2>19, <2>20, <2>21, <2>22, <2>23 DEF Handle
<1> QED BY <1>1, <1>2 DEF Still, Parent

\* A new process has a spare pid, and its probe is marked for it.
LEMMA LaunchKept ==
    ASSUME TypeOK, Placed, LockHeldInside, Kept, NEW t \in Thread, Launch(t)
    PROVE  Kept'
<1> USE DEF Kept
<1>1. PICK q \in Proc, a \in Adapters(t) :
        /\ Spare(q)
        /\ proc' = [proc EXCEPT ![q] = [stage |-> "boot", adapter |-> a, slot |-> My(t)]]
        /\ child' = [child EXCEPT ![t] = q]
  BY DEF Launch
<1>2. /\ pc[t] = "launch" /\ pc'[t] = "await" /\ child'[t] = q
      /\ proc'[q] # None => proc'[q].slot = My(t)
      /\ \A r \in Proc \ {q} : proc'[r] = proc[r]
      /\ \A u \in Thread \ {t} : pc'[u] = pc[u] /\ child'[u] = child[u]
  BY <1>1 DEF Launch, TypeOK
<1>3. /\ sessions' = sessions /\ req' = req /\ probe' = probe /\ leaked' = leaked
      /\ \A u \in Thread : My(u)' = My(u)
  BY DEF Launch, My
<1>4. \A u \in Thread \ {t} : ~Parent(u)
  BY <1>2 DEF LockHeldInside, Inside, Parent
<1>5. Parent(t)' /\ ~Parent(t) /\ \A u \in Thread \ {t} : ~Parent(u)'
  BY <1>2, <1>4 DEF Parent
<1>6. \A s \in Slot : sessions[s] # None => sessions[s].proc \in Proc \ {q}
  BY <1>1 DEF Spare, TypeOK, Session
<1>7. OneKeeper'
  <2>1. \A u \in Thread : child'[u] # None <=> Parent(u)'
    BY <1>1, <1>2, <1>4, <1>5 DEF OneKeeper
  <2>2. ASSUME NEW s \in Slot, sessions[s] # None
        PROVE  /\ \A r \in Slot : sessions[r] # None /\ sessions[r].proc = sessions[s].proc => r = s
               /\ \A u \in Thread : child'[u] # sessions[s].proc
               /\ proc'[sessions[s].proc] # None => proc'[sessions[s].proc].slot = s
    BY <1>2, <1>6, <2>2 DEF OneKeeper
  <2>3. \A u \in Thread : Parent(u)' /\ proc'[child'[u]] # None => proc'[child'[u]].slot = My(u)'
    BY <1>2, <1>3, <1>5
  <2> QED BY <1>3, <2>1, <2>2, <2>3 DEF OneKeeper
<1>8. /\ inuse' = inuse \cup ({probe[t]} \ {None}) /\ bound' = bound \ {probe[t]}
      /\ probe[t] # None => probe[t] \notin inuse
  BY DEF Launch, Unbound, Accepts, InUse
<1>9. ProbesAccounted'
  BY <1>2, <1>3, <1>4, <1>5, <1>8 DEF ProbesAccounted, TypeOK
<1>10. ProbeExclusive'
  BY <1>3, <1>5, <1>8 DEF ProbeExclusive, ProbesAccounted
<1>11. NoStray'
  <2>1. ASSUME NEW r \in Proc, proc'[r] # None
        PROVE  \/ \E s \in Slot : sessions[s] # None /\ sessions[s].proc = r
               \/ \E u \in Thread : Parent(u)' /\ child'[u] = r
    <3>1. CASE r = q
      BY <1>2, <1>5, <3>1
    <3>2. CASE r # q
      <4>1. proc[r] # None
        BY <1>2, <2>1, <3>2
      <4> QED BY <1>4, <1>5, <4>1 DEF NoStray, Parent
    <3> QED BY <3>1, <3>2
  <2> QED BY <1>3, <2>1 DEF NoStray
<1> QED BY <1>7, <1>9, <1>10, <1>11

\* The session takes over the process and the probe of the start.
LEMMA StartedKept ==
    ASSUME TypeOK, Placed, LockHeldInside, NoneInside, Kept, NEW t \in Thread, Started(t)
    PROVE  Kept'
<1> USE DEF Kept
<1> DEFINE m == My(t)
<1>1. /\ pc[t] = "await" /\ Parent(t) /\ Inside(t) /\ ~Parent(t)' /\ m \in Slot
      /\ sessions[m] = None /\ child[t] # None /\ child[t] \in Proc
  <2>1. pc[t] = "await" /\ pc'[t] # "await" /\ pc'[t] # "kill"
    BY DEF Started, TypeOK
  <2>2. m \in Slot
    BY <2>1 DEF Placed, PlacedAt, Request, My
  <2>3. sessions[m] = None /\ child[t] # None /\ child[t] \in Proc
    BY <2>1 DEF NoneInside, Inside, OneKeeper, Parent, TypeOK
  <2> QED BY <2>1, <2>2, <2>3 DEF Inside, Parent
<1>2. /\ sessions'[m] = [proc |-> child[t], probe |-> probe[t]] /\ sessions'[m] # None
      /\ \A s \in Slot \ {m} : sessions'[s] = sessions[s]
      /\ child'[t] = None
      /\ \A u \in Thread \ {t} : pc'[u] = pc[u] /\ child'[u] = child[u]
      /\ UNCHANGED <<proc, inuse, bound, req, probe, leaked>>
  <2>1. /\ sessions' = [sessions EXCEPT ![m] = [proc |-> child[t], probe |-> probe[t]]]
        /\ child' = [child EXCEPT ![t] = None]
        /\ UNCHANGED <<proc, inuse, bound, req, probe, leaked>>
        /\ \A u \in Thread \ {t} : pc'[u] = pc[u]
    BY DEF Started, TypeOK, threadVars
  <2>2. [proc |-> child[t], probe |-> probe[t]] \in Session
    BY <1>1 DEF TypeOK, Session
  <2>3. [proc |-> child[t], probe |-> probe[t]] # None
    BY <2>2, NoneAssumption
  <2> QED BY <1>1, <2>1, <2>3 DEF TypeOK
<1>3. \A u \in Thread \ {t} : ~Parent(u) /\ ~Parent(u)'
  BY <1>1, <1>2 DEF LockHeldInside, Inside, Parent
<1>4. sessions'[m].proc = child[t] /\ sessions'[m].probe = probe[t]
  BY <1>2
<1>5. OneKeeper'
  <2>1. \A u \in Thread : child'[u] # None <=> Parent(u)'
    BY <1>1, <1>2, <1>3 DEF OneKeeper
  <2>2. \A s \in Slot : sessions'[s] # None =>
          /\ \A r \in Slot : sessions'[r] # None /\ sessions'[r].proc = sessions'[s].proc => r = s
          /\ proc[sessions'[s].proc] # None => proc[sessions'[s].proc].slot = s
    BY <1>1, <1>2, <1>4 DEF OneKeeper
  <2>3. \A s \in Slot, u \in Thread : sessions'[s] # None => child'[u] # sessions'[s].proc
    <3>1. \A s \in Slot : sessions'[s] # None => sessions'[s].proc \in Proc
      BY <1>1, <1>2, <1>4 DEF TypeOK, Session
    <3>2. \A u \in Thread : child'[u] = None
      BY <1>2, <1>3 DEF OneKeeper
    <3> QED BY <3>1, <3>2
  <2> QED BY <1>1, <1>2, <1>3, <2>1, <2>2, <2>3 DEF OneKeeper
<1>6. ProbesAccounted'
  BY <1>1, <1>2, <1>3, <1>4 DEF ProbesAccounted
<1>7. ProbeExclusive'
  BY <1>1, <1>2, <1>3, <1>4 DEF ProbeExclusive
<1>8. NoStray'
  <2>1. ASSUME NEW q \in Proc, proc[q] # None
        PROVE  \E s \in Slot : sessions'[s] # None /\ sessions'[s].proc = q
    <3>1. CASE \E s \in Slot : sessions[s] # None /\ sessions[s].proc = q
      BY <1>1, <1>2, <3>1
    <3>2. CASE child[t] = q
      BY <1>1, <1>2, <1>4, <3>2
    <3> QED BY <1>3, <2>1, <3>1, <3>2 DEF NoStray
  <2> QED BY <1>2, <2>1 DEF NoStray
<1> QED BY <1>5, <1>6, <1>7, <1>8

\* The step that ends a start or a stop: the process is gone, the probe free.
Ended(t) ==
    /\ Parent(t) /\ ~Parent(t)'
    /\ proc' = Killed(child[t]) /\ inuse' = Released(t)
    /\ bound \subseteq bound' /\ bound' \subseteq bound \cup {probe[t]}
    /\ child' = [child EXCEPT ![t] = None]
    /\ \A u \in Thread \ {t} : pc'[u] = pc[u]
    /\ UNCHANGED <<sessions, req, leaked>>

LEMMA EndedKept ==
    ASSUME TypeOK, LockHeldInside, Kept, NEW t \in Thread, Ended(t)
    PROVE  Kept'
<1> USE DEF Kept
<1>1. /\ child[t] \in Proc /\ child'[t] = None
      /\ \A u \in Thread \ {t} : child'[u] = child[u]
  BY DEF Ended, OneKeeper, TypeOK
<1>2. /\ proc'[child[t]] = None
      /\ \A q \in Proc \ {child[t]} : proc'[q] = proc[q]
  BY <1>1 DEF Ended, Killed, TypeOK
<1>3. \A u \in Thread \ {t} : ~Parent(u)
  BY DEF Ended, LockHeldInside, Inside, Parent
<1>4. \A u \in Thread : ~Parent(u)'
  BY <1>3 DEF Ended, Parent
<1>5. \A s \in Slot : sessions[s] # None =>
         sessions[s].proc \in Proc \ {child[t]} /\ sessions[s].probe \in Probe \cup {None}
  BY DEF TypeOK, Session, OneKeeper
<1>6. sessions' = sessions /\ leaked' = leaked /\ inuse' = inuse \ {probe[t]}
  BY DEF Ended, Released
<1>7. OneKeeper'
  <2>1. \A u \in Thread : child'[u] = None
    BY <1>1, <1>3 DEF OneKeeper
  <2>2. \A s \in Slot : sessions[s] # None =>
          /\ \A r \in Slot : sessions[r] # None /\ sessions[r].proc = sessions[s].proc => r = s
          /\ proc'[sessions[s].proc] # None => proc'[sessions[s].proc].slot = s
          /\ sessions[s].proc # None
    BY <1>2, <1>5 DEF OneKeeper
  <2> QED BY <1>4, <1>6, <2>1, <2>2 DEF OneKeeper
<1>8. ProbesAccounted'
  <2>1. \A s \in Slot : sessions[s] # None /\ sessions[s].probe # None =>
          sessions[s].probe # probe[t]
    BY DEF ProbeExclusive, Ended
  <2>2. probe[t] # None => probe[t] \notin leaked
    BY DEF ProbesAccounted, Ended
  <2>3. leaked \subseteq inuse'
    BY <1>6, <2>2 DEF ProbesAccounted, TypeOK
  <2>4. \A s \in Slot : sessions[s] # None /\ sessions[s].probe # None =>
          sessions[s].probe \in inuse' \ (leaked \cup bound')
    BY <1>6, <2>1 DEF ProbesAccounted, Ended
  <2>5. \A p \in inuse' \ leaked : \E s \in Slot : sessions[s] # None /\ sessions[s].probe = p
    BY <1>3, <1>6 DEF ProbesAccounted
  <2> QED BY <1>4, <1>6, <2>3, <2>4, <2>5 DEF ProbesAccounted
<1>9. ProbeExclusive'
  BY <1>4, <1>6 DEF ProbeExclusive
<1>10. NoStray'
  BY <1>2, <1>3, <1>6 DEF NoStray
<1> QED BY <1>7, <1>8, <1>9, <1>10

LEMMA StopKept ==
    ASSUME TypeOK, Placed, LockHeldInside, NoneInside, Kept, NEW t \in Thread, Stop(t)
    PROVE  Kept'
<1> USE DEF Kept
<1> DEFINE m == My(t)
<1>1. /\ pc[t] = "stop" /\ lock = None /\ ~Parent(t) /\ Parent(t)'
      /\ m \in Slot /\ sessions[m] # None /\ sessions[m] \in Session
  <2>1. pc[t] = "stop" /\ lock = None /\ pc'[t] = "kill" /\ sessions[m] # None
    BY DEF Stop, TypeOK
  <2>2. m \in Slot
    BY <2>1 DEF Placed, PlacedAt, Request, My
  <2> QED BY <2>1, <2>2 DEF Parent, TypeOK
<1>2. \A u \in Thread : ~Parent(u)
  BY <1>1 DEF LockHeldInside, Inside, Parent
<1>3. /\ sessions'[m] = None /\ \A s \in Slot \ {m} : sessions'[s] = sessions[s]
      /\ child'[t] = sessions[m].proc /\ probe'[t] = sessions[m].probe
      /\ \A u \in Thread \ {t} : pc'[u] = pc[u] /\ child'[u] = child[u]
      /\ UNCHANGED <<proc, inuse, bound, req, leaked>>
  <2>1. /\ sessions' = [sessions EXCEPT ![m] = None]
        /\ child' = [child EXCEPT ![t] = sessions[m].proc]
        /\ probe' = [probe EXCEPT ![t] = sessions[m].probe]
        /\ UNCHANGED <<proc, inuse, bound, req, leaked>>
        /\ \A u \in Thread \ {t} : pc'[u] = pc[u]
    BY DEF Stop, TypeOK
  <2> QED BY <1>1, <2>1 DEF TypeOK
<1>4. /\ sessions[m].proc \in Proc /\ sessions[m].probe \in Probe \cup {None}
      /\ \A s \in Slot : sessions[s] # None => sessions[s].proc \in Proc
  BY <1>1 DEF Session, TypeOK
<1>5. \A u \in Thread : (Parent(u)' <=> u = t) /\ My(u)' = My(u)
  BY <1>1, <1>2, <1>3 DEF Parent, My
<1>6. OneKeeper'
  <2>1. \A u \in Thread : child'[u] # None <=> Parent(u)'
    BY <1>2, <1>3, <1>4, <1>5 DEF OneKeeper
  <2>2. \A s \in Slot \ {m} : sessions[s] # None =>
          /\ \A r \in Slot \ {m} :
                sessions[r] # None /\ sessions[r].proc = sessions[s].proc => r = s
          /\ sessions[s].proc # sessions[m].proc
          /\ proc[sessions[s].proc] # None => proc[sessions[s].proc].slot = s
    BY <1>1 DEF OneKeeper
  <2>3. \A s \in Slot \ {m}, u \in Thread : sessions[s] # None => child'[u] # sessions[s].proc
    BY <1>3, <2>2 DEF OneKeeper
  <2>4. proc[sessions[m].proc] # None => proc[sessions[m].proc].slot = m
    BY <1>1 DEF OneKeeper
  <2>5. \A s \in Slot : sessions'[s] # None => s \in Slot \ {m} /\ sessions'[s] = sessions[s]
    BY <1>3
  <2> QED BY <1>3, <1>5, <2>1, <2>2, <2>3, <2>4, <2>5 DEF OneKeeper
<1>7. ProbesAccounted'
  <2>1. \A s \in Slot : sessions'[s] # None => sessions'[s] = sessions[s] /\ sessions[s] # None
    BY <1>3
  <2>2. \A u \in Thread : Parent(u)' /\ probe'[u] # None => probe'[u] \in inuse \ (leaked \cup bound)
    BY <1>1, <1>3, <1>5 DEF ProbesAccounted
  <2>3. ASSUME NEW p \in inuse \ leaked
        PROVE  \/ \E s \in Slot : sessions'[s] # None /\ sessions'[s].probe = p
               \/ \E u \in Thread : Parent(u)' /\ probe'[u] = p
    <3>1. PICK s \in Slot : sessions[s] # None /\ sessions[s].probe = p
      BY <1>2 DEF ProbesAccounted
    <3> QED BY <1>3, <1>5, <3>1
  <2> QED BY <1>3, <2>1, <2>2, <2>3 DEF ProbesAccounted
<1>8. ProbeExclusive'
  <2>1. \A s, r \in Slot :
          sessions[s] # None /\ sessions[r] # None /\ sessions[s].probe # None
             /\ sessions[s].probe = sessions[r].probe => s = r
    BY DEF ProbeExclusive
  <2>2. \A s \in Slot : sessions'[s] # None => s # m /\ sessions'[s] = sessions[s]
    BY <1>3
  <2>3. ASSUME NEW s \in Slot, NEW u \in Thread, sessions'[s] # None, Parent(u)', probe'[u] # None
        PROVE  sessions'[s].probe # probe'[u]
    BY <1>1, <1>3, <1>5, <2>1, <2>2, <2>3
  <2> QED BY <2>1, <2>2, <2>3 DEF ProbeExclusive
<1>9. NoStray'
  <2>1. ASSUME NEW q \in Proc, proc[q] # None
        PROVE  \/ \E s \in Slot : sessions'[s] # None /\ sessions'[s].proc = q
               \/ \E u \in Thread : Parent(u)' /\ child'[u] = q
    <3>1. PICK s \in Slot : sessions[s] # None /\ sessions[s].proc = q
      BY <1>2, <2>1 DEF NoStray
    <3> QED BY <1>3, <1>5, <3>1
  <2> QED BY <1>3, <2>1 DEF NoStray
<1> QED BY <1>6, <1>7, <1>8, <1>9

LEMMA EndingsKept ==
    ASSUME TypeOK, LockHeldInside, Placed, Kept, NEW t \in Thread, StartFails(t) \/ Kill(t)
    PROVE  Kept'
<1>0. PlacedAt(t) /\ \A u \in Thread \ {t} : pc'[u] = pc[u]
  BY OthersStay DEF Placed, Handle
<1>1. CASE StartFails(t)
  <2>1. Parent(t) /\ ~Parent(t)'
    BY <1>1 DEF StartFails, Parent, AfterFailure, TypeOK
  <2> QED BY <1>0, <1>1, <2>1, EndedKept DEF StartFails, Ended
<1>2. CASE Kill(t)
  <2>1. Parent(t) /\ ~Parent(t)'
    BY <1>2 DEF Kill, Parent, AfterStop, TypeOK
  <2> QED BY <1>0, <1>2, <2>1, EndedKept DEF Kill, Ended
<1> QED BY <1>1, <1>2

\* A launch that raises marks its probe for nobody.
LEMMA RaisesKept ==
    ASSUME TypeOK, LockHeldInside, Kept, NEW t \in Thread, LaunchRaises(t)
    PROVE  Kept'
<1> USE DEF Kept
<1>1. /\ UNCHANGED <<sessions, proc, child, req, probe>>
      /\ inuse' = inuse \cup ({probe[t]} \ {None})
      /\ leaked' = leaked \cup ({probe[t]} \ {None})
      /\ bound' \subseteq bound /\ (probe[t] # None => probe[t] \notin inuse)
  BY DEF LaunchRaises, Unbound, Accepts, InUse
<1>2. \A u \in Thread : ~Parent(u)
  BY DEF LaunchRaises, LockHeldInside, Inside, Parent
<1>3. \A u \in Thread : ~Parent(u)'
  BY <1>2 DEF LaunchRaises, AfterFailure, Parent, TypeOK
<1>4. OneKeeper'
  BY <1>1, <1>2, <1>3 DEF OneKeeper
<1>5. ProbesAccounted'
  BY <1>1, <1>2, <1>3 DEF ProbesAccounted
<1>6. ProbeExclusive'
  BY <1>1, <1>3 DEF ProbeExclusive
<1>7. NoStray'
  BY <1>1, <1>2 DEF NoStray
<1> QED BY <1>4, <1>5, <1>6, <1>7

\* OpenOCD comes and goes by itself; its slot does not change.
Alone(q) ==
    /\ UNCHANGED <<sessions, inuse, bound, child, leaked, pc, req, probe, aim>>
    /\ \A r \in Proc \ {q} : proc'[r] = proc[r]
    /\ proc'[q] # None => /\ proc[q] # None /\ proc'[q].slot = proc[q].slot
                          /\ proc'[q].adapter = proc[q].adapter

LEMMA ProcessAlone ==
    ASSUME TypeOK, NEW q \in Proc, ComesUp(q) \/ Dies(q) \/ Jams(q)
    PROVE  Alone(q)
<1>1. CASE ComesUp(q)
  <2>1. proc[q] \in Process
    BY <1>1 DEF ComesUp, TypeOK
  <2>2. proc'[q] \in {None, [proc[q] EXCEPT !.stage = "up"]} /\ \A r \in Proc \ {q} : proc'[r] = proc[r]
    BY <1>1 DEF ComesUp, TypeOK
  <2>3. LET o == [proc[q] EXCEPT !.stage = "up"]
        IN  o.slot = proc[q].slot /\ o.adapter = proc[q].adapter
    BY <2>1 DEF Process
  <2>4. proc[q] # None
    BY <1>1 DEF ComesUp
  <2> QED BY <1>1, <2>2, <2>3, <2>4 DEF ComesUp, Alone, threadVars
<1>2. CASE Dies(q)
  BY <1>2 DEF Dies, Alone, threadVars, TypeOK
<1>3. CASE Jams(q)
  <2>1. proc[q] \in Process
    BY <1>3 DEF Jams, TypeOK
  <2>2. /\ proc'[q] = [proc[q] EXCEPT !.stage = "jammed"]
        /\ \A r \in Proc \ {q} : proc'[r] = proc[r]
    BY <1>3 DEF Jams, TypeOK
  <2>3. proc'[q].slot = proc[q].slot /\ proc'[q].adapter = proc[q].adapter
    BY <2>1, <2>2 DEF Process
  <2>4. proc[q] # None
    BY <1>3 DEF Jams
  <2> QED BY <1>3, <2>2, <2>3, <2>4 DEF Jams, Alone, threadVars
<1> QED BY <1>1, <1>2, <1>3

LEMMA AloneKept ==
    ASSUME TypeOK, Kept, NEW q \in Proc, Alone(q)
    PROVE  Kept'
<1> USE DEF Kept
<1>1. \A r \in Proc : proc'[r] # None => proc[r] # None /\ proc'[r].slot = proc[r].slot
  BY DEF Alone
<1>2. /\ UNCHANGED <<sessions, inuse, bound, child, leaked, probe>>
      /\ \A u \in Thread : (Parent(u)' <=> Parent(u)) /\ My(u)' = My(u)
  BY DEF Alone, Parent, My
<1>3. \A s \in Slot : sessions[s] # None => sessions[s].proc \in Proc
  BY DEF TypeOK, Session
<1>4. \A u \in Thread : Parent(u) => child[u] \in Proc
  BY DEF OneKeeper, TypeOK
<1>5. OneKeeper'
  BY <1>1, <1>2, <1>3, <1>4 DEF OneKeeper
<1>6. ProbesAccounted'
  BY <1>2 DEF ProbesAccounted
<1>7. ProbeExclusive'
  BY <1>2 DEF ProbeExclusive
<1>8. NoStray'
  BY <1>1, <1>2 DEF NoStray
<1> QED BY <1>5, <1>6, <1>7, <1>8

\* No step leaves a process without a keeper, or gives a probe to two.
LEMMA KeptStep ==
    ASSUME TypeOK, Placed, LockHeldInside, NoneInside, Kept, [Next]_vars
    PROVE  Kept'
<1>1. ASSUME NEW t \in Thread, Handle(t) PROVE Kept'
  BY <1>1, QuietHandle, StillKept, LaunchKept, StartedKept, EndingsKept, StopKept
<1>2. ASSUME NEW t \in Thread, NEW s \in Slot, Asked(t, s) PROVE Kept'
  <2>1. Fresh(t)
    BY <1>2, AskedFits
  <2>2. Still
    BY <2>1 DEF Fresh, Fits, Still, Parent, My
  <2> QED BY <2>2, StillKept
<1>3. ASSUME NEW q \in Proc, ComesUp(q) \/ Dies(q) \/ Jams(q) PROVE Kept'
  BY <1>3, ProcessAlone, AloneKept
<1>4. CASE UNCHANGED vars
  <2>1. Still
    BY <1>4 DEF vars, slotVars, threadVars, Still, Parent, My
  <2> QED BY <2>1, StillKept
<1> QED BY <1>1, <1>2, <1>3, <1>4, RaisesKept DEF Next

\* The inductive step.
LEMMA DebugStep ==
    ASSUME DebugInv, [Next]_vars
    PROVE  DebugInv'
<1>1. TypeOK' /\ Placed'
  BY TypeStep, PlacedStep DEF DebugInv
<1>2. LockHeldInside' /\ NoneInside'
  BY LockStep DEF DebugInv
<1>3. Kept'
  BY KeptStep DEF DebugInv, Kept
<1> QED BY <1>1, <1>2, <1>3 DEF DebugInv, Kept

\* The controller's table, its probes, its lock and the processes agree in every
\* reachable state: what start (358-471) and stop (528-551) leave behind when
\* they return, whatever fails inside them.
THEOREM DebugInvariant == Spec => []DebugInv
<1>1. Init => DebugInv
  BY InitInv
<1>2. DebugInv /\ [Next]_vars => DebugInv'
  BY DebugStep
<1> QED BY <1>1, <1>2, PTL DEF Spec

\* A probe serves one session, or one start or stop, at a time (FR-026): the
\* portal picks a probe outside the lock, start checks it again inside.
THEOREM ProbesExclusive == Spec => []ProbeExclusive
<1>1. DebugInv => ProbeExclusive
  BY DEF DebugInv
<1> QED BY <1>1, DebugInvariant, PTL

\* A probe drives one process at most.
LEMMA DriversFew ==
    DebugInv => \A p \in Probe : \A q \in Drivers(p) : Drivers(p) = {q}
<1> SUFFICES ASSUME DebugInv, NEW p \in Probe, NEW q \in Drivers(p), NEW r \in Drivers(p)
             PROVE  q = r
  OBVIOUS
<1>1. ProbeExclusive /\ p # None /\ \A t, u \in Thread : Parent(t) /\ Parent(u) => t = u
  BY DEF DebugInv, LockHeldInside, Inside, Parent
<1>2. CASE \E s \in Slot : sessions[s] # None /\ sessions[s].proc = q /\ sessions[s].probe = p
  <2>1. PICK s \in Slot : sessions[s] # None /\ sessions[s].proc = q /\ sessions[s].probe = p
    BY <1>2
  <2>2. \A t \in Thread : Parent(t) => probe[t] # p
    BY <1>1, <2>1 DEF ProbeExclusive
  <2>3. PICK z \in Slot : sessions[z] # None /\ sessions[z].proc = r /\ sessions[z].probe = p
    BY <2>2 DEF Drivers
  <2> QED BY <1>1, <2>1, <2>3 DEF ProbeExclusive
<1>3. CASE \E t \in Thread : Parent(t) /\ child[t] = q /\ probe[t] = p
  <2>1. PICK t \in Thread : Parent(t) /\ child[t] = q /\ probe[t] = p
    BY <1>3
  <2>2. \A s \in Slot : sessions[s] # None => sessions[s].probe # p
    BY <1>1, <2>1 DEF ProbeExclusive
  <2>3. PICK u \in Thread : Parent(u) /\ child[u] = r /\ probe[u] = p
    BY <2>2 DEF Drivers
  <2> QED BY <1>1, <2>1, <2>3
<1> QED BY <1>2, <1>3 DEF Drivers

\* Only a launch gives a probe a process, and then it had none: a start that
\* succeeds, and a stop that begins, hand the process over.
LEMMA DriversStep ==
    ASSUME DebugInv, [Next]_vars, NEW p \in Probe
    PROVE  Drivers(p)' \subseteq Drivers(p) \/ Drivers(p) = {}
<1>0. TypeOK /\ Placed /\ LockHeldInside /\ OneKeeper /\ ProbesAccounted /\ p # None
  BY DEF DebugInv
<1>1. Still => Drivers(p)' \subseteq Drivers(p)
  BY DEF Still, Drivers
<1>2. ASSUME UNCHANGED sessions, \A u \in Thread : ~Parent(u)'
      PROVE  Drivers(p)' \subseteq Drivers(p)
  BY <1>2 DEF Drivers
<1>3. ASSUME NEW t \in Thread, Launch(t)
      PROVE  Drivers(p)' \subseteq Drivers(p) \/ Drivers(p) = {}
  <2>1. /\ UNCHANGED <<sessions, probe>> /\ (probe[t] # None => probe[t] \notin inuse)
        /\ pc[t] = "launch" /\ \A u \in Thread \ {t} : pc'[u] = pc[u]
    BY <1>0, <1>3 DEF Launch, Accepts, InUse, TypeOK
  <2>2. \A u \in Thread \ {t} : ~Parent(u)'
    BY <1>0, <2>1 DEF LockHeldInside, Inside, Parent
  <2>3. CASE probe[t] = p
    BY <1>0, <2>1, <2>3 DEF ProbesAccounted, Drivers
  <2>4. CASE probe[t] # p
    BY <2>1, <2>2, <2>4 DEF Drivers
  <2> QED BY <2>3, <2>4
<1>4. ASSUME NEW t \in Thread, Started(t) PROVE Drivers(p)' \subseteq Drivers(p)
  <2>1. /\ pc[t] = "await" /\ probe' = probe
        /\ sessions' = [sessions EXCEPT ![My(t)] = [proc |-> child[t], probe |-> probe[t]]]
    BY <1>4 DEF Started
  <2>2. Parent(t) /\ \A u \in Thread : ~Parent(u)'
    BY <1>0, <1>4, <2>1 DEF Started, LockHeldInside, Inside, Parent, TypeOK
  <2>3. \A s \in Slot : \/ sessions'[s] = sessions[s]
                        \/ sessions'[s] = [proc |-> child[t], probe |-> probe[t]]
    BY <1>0, <2>1 DEF TypeOK
  <2>4. \A s \in Slot : \/ sessions'[s] = sessions[s]
                        \/ sessions'[s].proc = child[t] /\ sessions'[s].probe = probe[t]
    BY <2>3
  <2> QED BY <2>2, <2>4 DEF Drivers
<1>5. ASSUME NEW t \in Thread, Stop(t) PROVE Drivers(p)' \subseteq Drivers(p)
  <2>1. /\ pc[t] = "stop" /\ lock = None /\ sessions[My(t)] # None
        /\ sessions' = [sessions EXCEPT ![My(t)] = None]
        /\ child' = [child EXCEPT ![t] = sessions[My(t)].proc]
        /\ probe' = [probe EXCEPT ![t] = sessions[My(t)].probe]
        /\ pc' = [pc EXCEPT ![t] = "kill"]
    BY <1>5 DEF Stop
  <2>2. My(t) \in Slot
    BY <1>0, <2>1 DEF Placed, PlacedAt, Request, My
  <2>3. \A u \in Thread \ {t} : ~Parent(u)'
    BY <1>0, <2>1 DEF LockHeldInside, Inside, Parent, TypeOK
  <2>4. child'[t] = sessions[My(t)].proc /\ probe'[t] = sessions[My(t)].probe
    BY <1>0, <2>1 DEF TypeOK
  <2>5. \A s \in Slot : sessions'[s] # None => sessions'[s] = sessions[s]
    BY <1>0, <2>1 DEF TypeOK
  <2> QED BY <2>1, <2>2, <2>3, <2>4, <2>5 DEF Drivers
<1>6. ASSUME NEW t \in Thread, StartFails(t) \/ Kill(t) \/ LaunchRaises(t)
      PROVE  Drivers(p)' \subseteq Drivers(p)
  <2>1. pc[t] \in {"await", "kill", "launch"} /\ UNCHANGED sessions
    BY <1>6 DEF StartFails, Kill, LaunchRaises
  <2>2. ~Parent(t)' /\ \A u \in Thread \ {t} : pc'[u] = pc[u]
    BY <1>0, <1>6 DEF StartFails, Kill, LaunchRaises, AfterFailure, AfterStop, Parent, TypeOK
  <2>3. \A u \in Thread : ~Parent(u)'
    BY <1>0, <2>1, <2>2 DEF LockHeldInside, Inside, Parent
  <2> QED BY <1>2, <2>1, <2>3
<1>7. ASSUME NEW t \in Thread, NEW s \in Slot, Asked(t, s) PROVE Still
  <2>1. Fresh(t)
    BY <1>0, <1>7, AskedFits
  <2> QED BY <2>1 DEF Fresh, Fits, Still, Parent, My
<1>8. ASSUME NEW q \in Proc, ComesUp(q) \/ Dies(q) \/ Jams(q)
      PROVE  Drivers(p)' \subseteq Drivers(p)
  <2>1. Alone(q)
    BY <1>0, <1>8, ProcessAlone
  <2> QED BY <2>1 DEF Alone, Drivers, Parent
<1>9. CASE UNCHANGED vars
  BY <1>9 DEF vars, slotVars, threadVars, Drivers, Parent
<1>10. ASSUME NEW t \in Thread, Handle(t)
       PROVE  Drivers(p)' \subseteq Drivers(p) \/ Drivers(p) = {}
  BY <1>0, <1>1, <1>3, <1>4, <1>5, <1>6, <1>10, QuietHandle
<1> QED BY <1>1, <1>6, <1>7, <1>8, <1>9, <1>10 DEF Next

\* FR-026 as a whole, for any number of probes, threads and pids: an OpenOCD on
\* a probe is let go, by the stop or the failed start that kills it, before
\* another is launched on that probe.
THEOREM ProbesImplementExclusiveUse == Spec => ProbePassedOn
<1> DEFINE Passed == \A p \in Probe : [OnProbe(p)!Next]_(Drivers(p))
<1> DEFINE Few == \A p \in Probe : \A q \in Drivers(p) : Drivers(p) = {q}
<1>1. Init => \A p \in Probe : OnProbe(p)!Init
  BY DEF Init, OnProbe!Init, Drivers, Parent
<1>2. ASSUME DebugInv, Few, Few', [Next]_vars PROVE Passed
  <2> SUFFICES ASSUME NEW p \in Probe PROVE [OnProbe(p)!Next]_(Drivers(p))
    OBVIOUS
  <2>1. Drivers(p)' \subseteq Proc
    BY DEF Drivers
  <2>2. \A q \in Drivers(p)' : Drivers(p)' = {q}
    BY <1>2
  <2>3. \A q \in Drivers(p) : Drivers(p) = {q}
    BY <1>2
  <2>4. CASE Drivers(p)' = {}
    BY <2>4 DEF OnProbe!Next, OnProbe!Close
  <2>5. CASE Drivers(p)' # {} /\ Drivers(p) = {}
    BY <2>1, <2>2, <2>5 DEF OnProbe!Next, OnProbe!Open
  <2>6. CASE Drivers(p)' # {} /\ Drivers(p)' \subseteq Drivers(p)
    <3>1. Drivers(p)' = Drivers(p)
      BY <2>3, <2>6
    <3> QED BY <3>1
  <2> QED BY <1>2, <2>4, <2>5, <2>6, DriversStep
<1>3. DebugInv /\ Few /\ Few' /\ [Next]_vars => [Passed]_vars
  BY <1>2
<1>4. DebugInv => Few
  BY DriversFew
<1> QED BY <1>1, <1>3, <1>4, DebugInvariant, PTL DEF Spec, ProbePassedOn, Passed

\* Every OpenOCD process is recorded, or about to be recorded or killed: none
\* outlives the start or the session it was launched for.
THEOREM NoStrayOpenOcd == Spec => []NoStray
<1>1. DebugInv => NoStray
  BY DEF DebugInv
<1> QED BY <1>1, DebugInvariant, PTL

\* FR-037: the process that listens on a session's port is the session's own,
\* so a client or a JTAG reset never talks to another slot's board.
THEOREM OwnPortAnswers == Spec => []OwnPort
<1>1. DebugInv => OwnPort
  <2> SUFFICES ASSUME DebugInv, NEW s \in Slot, NEW q \in Proc, sessions[s] # None, Listens(q, s)
               PROVE  q = sessions[s].proc
    BY DEF OwnPort
  <2>1. proc[q] # None /\ proc[q].slot = s
    BY DEF Listens, Up, GdbPort
  <2>2. CASE \E r \in Slot : sessions[r] # None /\ sessions[r].proc = q
    BY <2>1, <2>2 DEF DebugInv, OneKeeper
  <2>3. CASE \E t \in Thread : Parent(t) /\ child[t] = q
    <3>1. PICK t \in Thread : Parent(t) /\ child[t] = q
      BY <2>3
    <3>2. My(t) = s /\ Inside(t)
      BY <2>1, <3>1 DEF DebugInv, OneKeeper, Parent, Inside
    <3> QED BY <3>2 DEF DebugInv, NoneInside
  <2> QED BY <2>1, <2>2, <2>3 DEF DebugInv, NoStray
<1> QED BY <1>1, DebugInvariant, PTL
=============================================================================
