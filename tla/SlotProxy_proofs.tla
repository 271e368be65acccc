--------------------------- MODULE SlotProxy_proofs ---------------------------
(* For every set of threads and process ids.  As long as every operation      *)
(* takes the slot lock and looks at the slot again under it, the slot never   *)
(* has an orphan proxy, nor two proxies, and the one it records serves.       *)
(* Whatever operations are requested, the ones without the lock included, a   *)
(* slot that is present ends up served unless something ended it, and         *)
(* `resetting` ends unless an exception did.                                  *)
EXTENDS SlotProxy, TLAPS

\* No operation beyond the ones of LockedOps is ever requested.
Disciplined == Ops \subseteq LockedOps

LEMMA InitInv ==
    ASSUME Init
    PROVE  SlotInv
<1>1. flapping \in BOOLEAN /\ present \in BOOLEAN /\ running = FALSE /\ pid = None
  BY DEF Init
<1>2. TypeOK
  <2>1. state \in State
    BY DEF Init, State
  <2>2. udev \in Seq({"add", "remove"})
    <3>1. udev = <<"add">> \/ udev = <<>>
      BY DEF Init
    <3>2. <<"add">> \in Seq({"add", "remove"}) /\ <<>> \in Seq({"add", "remove"})
      OBVIOUS
    <3> QED BY <3>1, <3>2
  <2> QED BY <1>1, <2>1, <2>2 DEF Init, TypeOK, Stage, Pc, AllOps
<1>3. \A t \in Thread : pc[t] = "idle" /\ op[t] = "none" /\ child[t] = None
  BY DEF Init
<1>4. PcFitsOp
  BY <1>3 DEF PcFitsOp
<1>5. LockHeldInside /\ ChildOfStarter /\ StoppedBeforeStart
  BY <1>3, NoneAssumption
     DEF Init, LockHeldInside, ChildOfStarter, StoppedBeforeStart, Inside
<1>6. PidWhileRunning /\ EveryProxyKnown
  BY <1>1 DEF Init, PidWhileRunning, EveryProxyKnown
<1> QED BY <1>2, <1>4, <1>5, <1>6 DEF SlotInv

\* One entry of a function changed to another value of its range.
LEMMA ExceptTyped ==
    ASSUME NEW A, NEW B, NEW f \in [A -> B], NEW a \in A, NEW b \in B
    PROVE  [f EXCEPT ![a] = b] \in [A -> B]
OBVIOUS

\* Type correctness is preserved by every step.
LEMMA TypeStep ==
    ASSUME TypeOK, [Next]_vars
    PROVE  TypeOK'
<1> USE NoneAssumption, OpsAssumption, BoundAssumption
    DEF TypeOK, State, Stage, Pc, AllOps, End
<1>1. ASSUME NEW t \in Thread, Respond(t) PROVE TypeOK'
  <2>1. CASE Request(t)
    BY <2>1 DEF Request, Begin, Run, slot, env
  <2>2. CASE HotplugAdd(t)
    BY <2>2 DEF HotplugAdd, Begin, Run
  <2>3. CASE HotplugRemove(t)
    BY <2>3, Tail(udev) \in Seq({"add", "remove"}) DEF HotplugRemove, Begin, Run
  <2>4. CASE ClearFlapping(t)
    BY <2>4 DEF ClearFlapping, Begin, Run, Settled, env
  <2>5. CASE MonitorAttach(t)
    BY <2>5 DEF MonitorAttach, Begin, Run, env
  <2>6. CASE HealthLook(t)
    BY <2>6 DEF HealthLook, Begin, Run, slot, env
  <2> QED BY <1>1, <2>1, <2>2, <2>3, <2>4, <2>5, <2>6 DEF Respond
<1>2. ASSUME NEW t \in Thread, Continue(t) PROVE TypeOK'
  <2>1. CASE EnterToStop(t)
    BY <2>1 DEF EnterToStop, Goto, Run, slot, env
  <2>2. CASE EnterStopped(t)
    <3>1. /\ pc' = [pc EXCEPT ![t] = pc'[t]]
          /\ pc'[t] \in {"idle", "drive", "open", "spawn"}
          /\ op' = [op EXCEPT ![t] = op'[t]] /\ op'[t] \in {op[t], "none"}
      BY <2>2 DEF EnterStopped, AfterStop, Goto, Run
    <3>2. /\ lock' \in {lock, t, None} /\ present' \in BOOLEAN /\ state' \in State
      BY <2>2 DEF EnterStopped, AfterStop, Settled
    <3> QED BY <2>2, <3>1, <3>2 DEF EnterStopped, env
  <2>4. CASE Kill(t)
    BY <2>4 DEF Kill, Goto, Run, slot, env
  <2>5. CASE Clear(t)
    <3>1. /\ pc' = [pc EXCEPT ![t] = pc'[t]]
          /\ pc'[t] \in {"idle", "drive", "open", "spawn"}
          /\ op' = [op EXCEPT ![t] = op'[t]] /\ op'[t] \in {op[t], "none"}
      BY <2>5 DEF Clear, AfterStop, Goto, Run
    <3>2. /\ lock' \in {lock, t, None} /\ present' \in BOOLEAN /\ state' \in State
      BY <2>5 DEF Clear, AfterStop, Settled
    <3>3. /\ pc' \in [Thread -> Pc]
          /\ op' \in [Thread -> AllOps \cup {"detect", "none"}]
      <4>1. pc'[t] \in Pc
        BY <3>1
      <4>2. op'[t] \in AllOps \cup {"detect", "none"}
        BY <3>1
      <4>3. pc' \in [Thread -> Pc]
        BY <3>1, <4>1, ExceptTyped DEF TypeOK
      <4>4. op' \in [Thread -> AllOps \cup {"detect", "none"}]
        BY <3>1, <4>2, ExceptTyped DEF TypeOK
      <4> QED BY <4>3, <4>4
    <3>4. /\ running' = FALSE /\ pid' = None /\ failed' = FALSE
          /\ ended' \subseteq End
          /\ UNCHANGED <<flapping, proc, plugged, udev, crashes, replugs, was, child>>
      BY <2>5 DEF Clear
    <3> QED BY <3>2, <3>3, <3>4
  <2>6. CASE ReenterRaises(t)
    BY <2>6 DEF ReenterRaises, Goto, Run, slot, env
  <2>7. CASE SettleTimeout(t)
    BY <2>7 DEF SettleTimeout, Return, ReturnState, Settled, Unlock, Goto, Run, env
  <2>8. CASE Spawn(t)
    BY <2>8 DEF Spawn, Goto, Run, slot, env
  <2>9. CASE PollDead(t)
    BY <2>9 DEF PollDead, Return, ReturnState, Settled, Unlock, Goto, Run, env
  <2>10. CASE PollAlive(t)
    BY <2>10 DEF PollAlive, Goto, Run, slot, env
  <2>11. CASE PortsUp(t)
    BY <2>11 DEF PortsUp, Return, Unlock, Goto, Run
  <2>12. CASE PortsTimeout(t)
    BY <2>12 DEF PortsTimeout, Return, ReturnState, Settled, Unlock, Goto, Run, env
  <2>13. CASE ResetOpenFails(t)
    BY <2>13 DEF ResetOpenFails, Settled, Goto, Run
  <2>14. CASE ResetOpens(t)
    BY <2>14 DEF ResetOpens, Goto, Run, slot, env
  <2>15. CASE Drive(t)
    BY <2>15 DEF Drive, Goto, Run, slot, env
  <2>16. CASE ResetRaises(t)
    BY <2>16 DEF ResetRaises, Goto, Run, slot, env
  <2>17. CASE ReenterToStart(t)
    BY <2>17 DEF ReenterToStart, Goto, Run, slot, env
  <2>18. CASE ReenterDone(t)
    BY <2>18 DEF ReenterDone, ReturnState, Settled, Goto, Run, env
  <2>19. CASE MonitorDetach(t)
    BY <2>19 DEF MonitorDetach, Settled, Goto, Run, env
  <2>20. CASE HealthForget(t)
    BY <2>20 DEF HealthForget, Settled, Goto, Run, env
  <2> QED BY <1>2, <2>1, <2>2, <2>4, <2>5, <2>6, <2>7, <2>8, <2>9, <2>10,
             <2>11, <2>12, <2>13, <2>14, <2>15, <2>16, <2>17, <2>18, <2>19,
             <2>20 DEF Continue
<1>3. ASSUME NEW p \in Pid, Proxy(p) \/ ProxyDies(p) PROVE TypeOK'
  <2>1. CASE ProxyOpen(p)
    BY <2>1 DEF ProxyOpen, slot, env, thread
  <2>2. CASE ProxyBind(p)
    BY <2>2 DEF ProxyBind, slot, env, thread
  <2>3. CASE ProxyDies(p)
    BY <2>3 DEF ProxyDies, slot, thread
  <2> QED BY <1>3, <2>1, <2>2, <2>3 DEF Proxy
<1>4. ASSUME Replug PROVE TypeOK'
  BY <1>4 DEF Replug, slot, thread
<1>5. ASSUME UNCHANGED vars PROVE TypeOK'
  BY <1>5 DEF vars
<1> QED BY <1>1, <1>2, <1>3, <1>4, <1>5 DEF Next

\* Every step of a disciplined system preserves the discipline itself: what
\* each thread may be doing where it is, and who is inside the lock.
LEMMA LockStep ==
    ASSUME SlotInv, [Next]_vars, Disciplined
    PROVE  PcFitsOp' /\ LockHeldInside' /\ ChildOfStarter'
<1> USE NoneAssumption
    DEF SlotInv, PcFitsOp, LockHeldInside, ChildOfStarter, TypeOK, Inside, Pc
<1>1. ASSUME NEW t \in Thread, Respond(t)
      PROVE  PcFitsOp' /\ LockHeldInside' /\ ChildOfStarter'
  <2>1. CASE Request(t)
    BY <2>1 DEF Request, Begin, Run, Disciplined, LockedOps
  <2>2. CASE HotplugAdd(t)
    BY <2>2 DEF HotplugAdd, Begin, Run, LockedOps
  <2>3. CASE HotplugRemove(t)
    BY <2>3 DEF HotplugRemove, Begin, Run, LockedOps
  <2>4. CASE ClearFlapping(t)
    BY <2>4 DEF ClearFlapping, Disciplined, LockedOps
  <2>5. CASE MonitorAttach(t)
    BY <2>5 DEF MonitorAttach, Begin, Run, LockedOps
  <2>6. CASE HealthLook(t)
    BY <2>6 DEF HealthLook, Disciplined, LockedOps
  <2> QED BY <1>1, <2>1, <2>2, <2>3, <2>4, <2>5, <2>6 DEF Respond
<1>2. ASSUME NEW t \in Thread, Continue(t)
      PROVE  PcFitsOp' /\ LockHeldInside' /\ ChildOfStarter'
  <2>1. CASE EnterToStop(t)
    BY <2>1 DEF EnterToStop, Goto, Run, LockedOps
  <2>2. CASE EnterStopped(t)
    BY <2>2 DEF EnterStopped, AfterStop, Goto, Run, StopsFirst, LockedOps
  <2>4. CASE Kill(t)
    BY <2>4 DEF Kill, Goto, Run, LockedOps
  <2>5. CASE Clear(t)
    BY <2>5 DEF Clear, AfterStop, Goto, Run, LockedOps
  <2>6. CASE ReenterRaises(t)
    BY <2>6 DEF ReenterRaises, Goto, Run, LockedOps
  <2>7. CASE SettleTimeout(t)
    BY <2>7 DEF SettleTimeout, Return, Unlock, Goto, Run, LockedOps
  <2>8. CASE Spawn(t)
    BY <2>8 DEF Spawn, Goto, Run, LockedOps
  <2>9. CASE PollDead(t)
    BY <2>9 DEF PollDead, Return, Unlock, Goto, Run, LockedOps
  <2>10. CASE PollAlive(t)
    BY <2>10 DEF PollAlive, Goto, Run, LockedOps
  <2>11. CASE PortsUp(t)
    BY <2>11 DEF PortsUp, Return, Unlock, Goto, Run, LockedOps
  <2>12. CASE PortsTimeout(t)
    BY <2>12 DEF PortsTimeout, Return, Unlock, Goto, Run, LockedOps
  <2>13. CASE ResetOpenFails(t)
    BY <2>13 DEF ResetOpenFails, Goto, Run, LockedOps
  <2>14. CASE ResetOpens(t)
    BY <2>14 DEF ResetOpens, Goto, Run, LockedOps
  <2>15. CASE Drive(t)
    BY <2>15 DEF Drive, Goto, Run, LockedOps
  <2>16. CASE ResetRaises(t)
    BY <2>16 DEF ResetRaises, Goto, Run, LockedOps
  <2>17. CASE ReenterToStart(t)
    BY <2>17 DEF ReenterToStart, Goto, Run, LockedOps
  <2>18. CASE ReenterDone(t)
    BY <2>18 DEF ReenterDone, Goto, Run, LockedOps
  <2>19. CASE MonitorDetach(t)
    BY <2>19 DEF MonitorDetach, Goto, Run, LockedOps
  <2>20. CASE HealthForget(t)
    BY <2>20 DEF HealthForget, LockedOps
  <2> QED BY <1>2, <2>1, <2>2, <2>4, <2>5, <2>6, <2>7, <2>8, <2>9, <2>10, <2>11,
                <2>12, <2>13, <2>14, <2>15, <2>16, <2>17, <2>18, <2>19, <2>20 DEF Continue
<1>3. ASSUME NEW p \in Pid, Proxy(p) \/ ProxyDies(p)
      PROVE  PcFitsOp' /\ LockHeldInside' /\ ChildOfStarter'
  BY <1>3 DEF Proxy, ProxyOpen, ProxyBind, ProxyDies, thread
<1>4. ASSUME Replug PROVE PcFitsOp' /\ LockHeldInside' /\ ChildOfStarter'
  BY <1>4 DEF Replug, thread
<1>5. ASSUME UNCHANGED vars PROVE PcFitsOp' /\ LockHeldInside' /\ ChildOfStarter'
  BY <1>5 DEF vars
<1> QED BY <1>1, <1>2, <1>3, <1>4, <1>5 DEF Next

\* Every step of a disciplined system keeps the recorded proxy dead while a
\* thread starts another, and every live proxy recorded or about to be.
LEMMA ProxyStep ==
    ASSUME SlotInv, [Next]_vars, Disciplined
    PROVE  PidWhileRunning' /\ StoppedBeforeStart' /\ EveryProxyKnown'
<1> DEFINE Goal == PidWhileRunning' /\ StoppedBeforeStart' /\ EveryProxyKnown'
<1> USE NoneAssumption
    DEF SlotInv, PcFitsOp, LockHeldInside, ChildOfStarter, PidWhileRunning,
        StoppedBeforeStart, EveryProxyKnown, TypeOK, Inside, Pc, Alive
<1>1. ASSUME NEW t \in Thread, Respond(t) PROVE Goal
  <2>1. CASE Request(t)
    BY <2>1 DEF Request, Begin, Run, Disciplined, LockedOps, slot
  <2>2. CASE HotplugAdd(t)
    BY <2>2 DEF HotplugAdd, Begin, Run
  <2>3. CASE HotplugRemove(t)
    BY <2>3 DEF HotplugRemove, Begin, Run
  <2>4. CASE ClearFlapping(t)
    BY <2>4 DEF ClearFlapping, Disciplined, LockedOps
  <2>5. CASE MonitorAttach(t)
    BY <2>5 DEF MonitorAttach, Begin, Run
  <2>6. CASE HealthLook(t)
    BY <2>6 DEF HealthLook, Disciplined, LockedOps
  <2> QED BY <1>1, <2>1, <2>2, <2>3, <2>4, <2>5, <2>6 DEF Respond
<1>2. ASSUME NEW t \in Thread, Continue(t) PROVE Goal
  <2>1. CASE EnterToStop(t)
    BY <2>1 DEF EnterToStop, Goto, Run, slot
  <2>2. CASE EnterStopped(t)
    BY <2>2 DEF EnterStopped, AfterStop, Goto, Run, StopsFirst
  <2>4. CASE Kill(t)
    BY <2>4 DEF Kill, Goto, Run, slot
  <2>5. CASE Clear(t)
    BY <2>5 DEF Clear, AfterStop, Goto, Run
  <2>6. CASE ReenterRaises(t)
    BY <2>6 DEF ReenterRaises, Goto, Run, slot
  <2>7. CASE SettleTimeout(t)
    BY <2>7 DEF SettleTimeout, Return, Unlock, Goto, Run
  <2>8. CASE Spawn(t)
    BY <2>8 DEF Spawn, Goto, Run, slot, Stage
  <2>9. CASE PollDead(t)
    BY <2>9 DEF PollDead, Return, Unlock, Goto, Run
  <2>10. CASE PollAlive(t)
    BY <2>10 DEF PollAlive, Goto, Run, slot
  <2>11. CASE PortsUp(t)
    <3>1. /\ pc[t] = "ports" /\ running' = TRUE /\ pid' = child[t] /\ proc' = proc
          /\ child' = [child EXCEPT ![t] = None]
      BY <2>11 DEF PortsUp, Return
    <3>2. pc' = [pc EXCEPT ![t] = pc'[t]] /\ pc'[t] \in {"idle", "reenter"}
      BY <2>11 DEF PortsUp, Return, Goto, Run
    <3>3. PidWhileRunning'
      BY <3>1
    <3>4. \A u \in Thread : u # t => pc[u] \notin Inside
      BY <3>1
    <3>5. StoppedBeforeStart'
      BY <3>2, <3>4
    <3>6. EveryProxyKnown'
      <4> SUFFICES ASSUME NEW p \in Pid, proc'[p] # "none" PROVE p = pid'
        BY DEF EveryProxyKnown
      <4>1. p # pid
        BY <3>1
      <4>2. PICK u \in Thread : pc[u] \in {"poll", "ports"} /\ child[u] = p
        BY <3>1, <4>1
      <4> QED BY <3>1, <3>4, <4>2
    <3> QED BY <3>3, <3>5, <3>6
  <2>12. CASE PortsTimeout(t)
    BY <2>12 DEF PortsTimeout, Return, Unlock, Goto, Run
  <2>13. CASE ResetOpenFails(t)
    BY <2>13 DEF ResetOpenFails, Goto, Run
  <2>14. CASE ResetOpens(t)
    BY <2>14 DEF ResetOpens, Goto, Run, slot
  <2>15. CASE Drive(t)
    BY <2>15 DEF Drive, Goto, Run, slot
  <2>16. CASE ResetRaises(t)
    BY <2>16 DEF ResetRaises, Goto, Run, slot
  <2>17. CASE ReenterToStart(t)
    BY <2>17 DEF ReenterToStart, Goto, Run, slot, Restarts
  <2>18. CASE ReenterDone(t)
    BY <2>18 DEF ReenterDone, Goto, Run
  <2>19. CASE MonitorDetach(t)
    BY <2>19 DEF MonitorDetach, Goto, Run
  <2>20. CASE HealthForget(t)
    BY <2>20 DEF HealthForget
  <2> QED BY <1>2, <2>1, <2>2, <2>4, <2>5, <2>6, <2>7, <2>8, <2>9, <2>10, <2>11,
                <2>12, <2>13, <2>14, <2>15, <2>16, <2>17, <2>18, <2>19, <2>20 DEF Continue
<1>3. ASSUME NEW p \in Pid, Proxy(p) \/ ProxyDies(p) PROVE Goal
  BY <1>3 DEF Proxy, ProxyOpen, ProxyBind, ProxyDies, thread, slot
<1>4. ASSUME Replug PROVE Goal
  BY <1>4 DEF Replug, thread, slot
<1>5. ASSUME UNCHANGED vars PROVE Goal
  BY <1>5 DEF vars
<1> QED BY <1>1, <1>2, <1>3, <1>4, <1>5 DEF Next

\* The inductive invariant holds in every reachable state: the locking of
\* flash_device, read_flash_device, serial_reset and the start, stop and
\* hotplug handlers is enough by itself.
THEOREM SlotInvariant ==
    ASSUME Disciplined
    PROVE  Spec => []SlotInv
<1>1. Init => SlotInv
  BY InitInv
<1>2. SlotInv /\ [Next]_vars => SlotInv'
  <2> SUFFICES ASSUME SlotInv, [Next]_vars PROVE SlotInv'
    OBVIOUS
  <2>1. TypeOK'
    BY TypeStep DEF SlotInv
  <2>2. PcFitsOp' /\ LockHeldInside' /\ ChildOfStarter'
    BY LockStep
  <2>3. PidWhileRunning' /\ StoppedBeforeStart' /\ EveryProxyKnown'
    BY ProxyStep
  <2> QED BY <2>1, <2>2, <2>3 DEF SlotInv
<1> QED BY <1>1, <1>2, PTL DEF Spec

\* No proxy process outlives the portal's knowledge of it (portal.py, the
\* `with slot["_lock"]` blocks), for any number of threads.
THEOREM NoOrphanProxy ==
    ASSUME Disciplined
    PROVE  Spec => []NoOrphan
<1>1. SlotInv => NoOrphan
  BY DEF SlotInv, EveryProxyKnown, NoOrphan
<1> QED BY <1>1, SlotInvariant, PTL

\* The inductive invariant leaves room for one live proxy: the recorded one, or
\* the one that the thread inside start_proxy has spawned.
LEMMA OneLiveProxy ==
    ASSUME SlotInv
    PROVE  OneProxy
<1> SUFFICES ASSUME NEW p \in Pid, NEW q \in Pid,
                    proc[p] # "none", proc[q] # "none"
             PROVE  p = q
  BY DEF OneProxy
<1>1. CASE \E t \in Thread : pc[t] \in {"poll", "ports"}
  <2>1. PICK t \in Thread : pc[t] \in {"poll", "ports"}
    BY <1>1
  <2>2. ~Alive(pid)
    BY <2>1 DEF SlotInv, StoppedBeforeStart
  <2>3. \A u \in Thread : pc[u] \in {"poll", "ports"} => u = t
    BY <2>1 DEF SlotInv, LockHeldInside, Inside
  <2>4. p # pid /\ q # pid
    BY <2>2, NoneAssumption DEF Alive
  <2> QED BY <2>3, <2>4 DEF SlotInv, EveryProxyKnown
<1>2. CASE ~\E t \in Thread : pc[t] \in {"poll", "ports"}
  BY <1>2 DEF SlotInv, EveryProxyKnown
<1> QED BY <1>1, <1>2

\* A slot never has two proxy processes, not even one booting while another
\* still serves.
THEOREM OneProxyPerSlot ==
    ASSUME Disciplined
    PROVE  Spec => []OneProxy
<1>1. SlotInv => OneProxy
  BY OneLiveProxy
<1> QED BY <1>1, SlotInvariant, PTL

\* A step that makes no dead process live ends the slot's proxy or leaves it.
LEMMA NobodyNew ==
    ASSUME SlotInv, \A p \in Pid : proc'[p] # "none" => proc[p] # "none"
    PROVE  [Proxies!Next]_Live
<1>1. OneProxy
  BY OneLiveProxy
<1>2. Live' = Live \/ (Live # {} /\ Live' = {})
  BY <1>1 DEF OneProxy, Live
<1> QED BY <1>2 DEF Proxies!Next, Proxies!Close

\* start_proxy spawns a process only when the one before it is gone.
LEMMA SpawnAlone ==
    ASSUME SlotInv, NEW t \in Thread, Spawn(t)
    PROVE  Proxies!Open
<1>1. PICK p \in Pid : proc[p] = "none" /\ proc' = [proc EXCEPT ![p] = "boot"]
  BY DEF Spawn
<1>2. pc[t] = "spawn" /\ lock = t
  BY DEF Spawn, SlotInv, LockHeldInside, Inside
<1>3. \A u \in Thread : pc[u] \notin {"poll", "ports"}
  BY <1>2 DEF SlotInv, LockHeldInside, Inside
<1>4. Live = {}
  BY <1>2, <1>3, NoneAssumption
     DEF SlotInv, TypeOK, EveryProxyKnown, StoppedBeforeStart, Alive, Live
<1>5. Live' = {p}
  BY <1>1, <1>4 DEF SlotInv, TypeOK, Live
<1> QED BY <1>4, <1>5 DEF Proxies!Open

\* Every step of a disciplined system starts the slot's proxy when it has none,
\* ends the one it has, or leaves its proxies alone.
LEMMA ProxiesStep ==
    ASSUME SlotInv, [Next]_vars
    PROVE  [Proxies!Next]_Live
<1> DEFINE Fewer == \A p \in Pid : proc'[p] # "none" => proc[p] # "none"
<1> USE DEF SlotInv, TypeOK
<1>1. ASSUME NEW t \in Thread, Respond(t) PROVE Fewer
  BY <1>1 DEF Respond, Request, HotplugAdd, HotplugRemove, ClearFlapping,
              MonitorAttach, HealthLook
<1>2. ASSUME NEW t \in Thread, Continue(t), ~Spawn(t) PROVE Fewer
  <2>1. CASE Kill(t)
    BY <2>1 DEF Kill
  <2>2. CASE PortsTimeout(t)
    BY <2>2 DEF PortsTimeout
  <2>3. CASE proc' = proc
    BY <2>3
  <2>4. CASE EnterToStop(t) \/ EnterStopped(t) \/ Clear(t)
    BY <2>4 DEF EnterToStop, EnterStopped, Clear, env
  <2>5. CASE SettleTimeout(t) \/ PollDead(t) \/ PollAlive(t) \/ PortsUp(t)
    BY <2>5 DEF SettleTimeout, PollDead, PollAlive, PortsUp, env
  <2>6. CASE ResetOpenFails(t) \/ ResetOpens(t) \/ Drive(t) \/ ResetRaises(t)
    BY <2>6 DEF ResetOpenFails, ResetOpens, Drive, ResetRaises
  <2>7. CASE ReenterToStart(t) \/ ReenterRaises(t) \/ ReenterDone(t)
    BY <2>7 DEF ReenterToStart, ReenterRaises, ReenterDone
  <2>8. CASE MonitorDetach(t) \/ HealthForget(t)
    BY <2>8 DEF MonitorDetach, HealthForget
  <2> QED BY <1>2, <2>1, <2>2, <2>4, <2>5, <2>6, <2>7, <2>8 DEF Continue
<1>3. ASSUME NEW p \in Pid, Proxy(p) \/ ProxyDies(p) PROVE Fewer
  BY <1>3 DEF Proxy, ProxyOpen, ProxyBind, ProxyDies
<1>4. ASSUME Replug \/ UNCHANGED vars PROVE Fewer
  BY <1>4 DEF Replug, vars
<1>5. ASSUME NEW t \in Thread, Spawn(t) PROVE Proxies!Next
  BY <1>5, SpawnAlone DEF Proxies!Next
<1>6. Fewer => [Proxies!Next]_Live
  BY NobodyNew
<1> QED BY <1>1, <1>2, <1>3, <1>4, <1>5, <1>6 DEF Next

\* The threads pass the slot from one proxy to the next only through there being
\* none: with every thread under the slot lock, start_proxy and stop_proxy
\* implement ExclusiveUse, for any number of threads and whatever dies.
THEOREM SlotImplementsExclusiveUse ==
    ASSUME Disciplined
    PROVE  Spec => ProxiesPassedOn
<1>1. Init => Proxies!Init
  BY DEF Init, Proxies!Init, Live
<1>2. SlotInv /\ [Next]_vars => [Proxies!Next]_Live
  BY ProxiesStep
<1> QED BY <1>1, <1>2, SlotInvariant, PTL DEF Spec, ProxiesPassedOn, Proxies!Spec

-----------------------------------------------------------------------------
(* The recorded proxy serves.                                                 *)

\* While no proxy has died on its own, whichever thread finds the ports answering
\* finds the process it has spawned itself: nobody else's can be there.
LEMMA ServesStep ==
    ASSUME SlotInv, RunningServes, [Next]_vars, Disciplined
    PROVE  RunningServes'
<1> USE NoneAssumption
    DEF SlotInv, PcFitsOp, LockHeldInside, ChildOfStarter, PidWhileRunning,
        StoppedBeforeStart, EveryProxyKnown, RunningServes, TypeOK, Inside, Pc,
        Alive
<1>1. ASSUME NEW t \in Thread, Respond(t) PROVE RunningServes'
  <2>1. CASE Request(t)
    BY <2>1 DEF Request, Begin, Run, slot, env
  <2>2. CASE HotplugAdd(t)
    BY <2>2 DEF HotplugAdd, Begin, Run
  <2>3. CASE HotplugRemove(t)
    BY <2>3 DEF HotplugRemove, Begin, Run
  <2>4. CASE ClearFlapping(t)
    BY <2>4 DEF ClearFlapping, Begin, Run, env
  <2>5. CASE MonitorAttach(t)
    BY <2>5 DEF MonitorAttach, Begin, Run, env
  <2>6. CASE HealthLook(t)
    BY <2>6 DEF HealthLook, Begin, Run, slot, env
  <2> QED BY <1>1, <2>1, <2>2, <2>3, <2>4, <2>5, <2>6 DEF Respond
<1>2. ASSUME NEW t \in Thread, Continue(t) PROVE RunningServes'
  <2>1. CASE EnterToStop(t)
    BY <2>1 DEF EnterToStop, Goto, Run, slot, env
  <2>2. CASE EnterStopped(t)
    BY <2>2 DEF EnterStopped, AfterStop, Goto, Run, env
  <2>3. CASE Kill(t)
    BY <2>3 DEF Kill, Goto, Run, slot, env
  <2>4. CASE Clear(t)
    BY <2>4 DEF Clear, AfterStop, Goto, Run, env
  <2>5. CASE SettleTimeout(t)
    BY <2>5 DEF SettleTimeout, Return, Goto, Run, env
  <2>6. CASE Spawn(t)
    BY <2>6 DEF Spawn, Goto, Run, slot, env
  <2>7. CASE PollDead(t)
    BY <2>7 DEF PollDead, Return, Goto, Run, env
  <2>8. CASE PollAlive(t)
    BY <2>8 DEF PollAlive, Goto, Run, slot, env
  <2>9. CASE PortsUp(t)
    BY <2>9 DEF PortsUp, Return, Goto, Run, env, Serving
  <2>10. CASE PortsTimeout(t)
    BY <2>10 DEF PortsTimeout, Return, Goto, Run, env
  <2>11. CASE ResetOpenFails(t)
    BY <2>11 DEF ResetOpenFails, Goto, Run, env
  <2>12. CASE ResetOpens(t)
    BY <2>12 DEF ResetOpens, Goto, Run, slot, env
  <2>13. CASE Drive(t)
    BY <2>13 DEF Drive, Goto, Run, slot, env
  <2>14. CASE ResetRaises(t)
    BY <2>14 DEF ResetRaises, Goto, Run, slot, env
  <2>15. CASE ReenterToStart(t)
    BY <2>15 DEF ReenterToStart, Goto, Run, slot, env
  <2>16. CASE ReenterRaises(t)
    BY <2>16 DEF ReenterRaises, Goto, Run, slot, env
  <2>17. CASE ReenterDone(t)
    BY <2>17 DEF ReenterDone, Goto, Run, env
  <2>18. CASE MonitorDetach(t)
    BY <2>18 DEF MonitorDetach, Goto, Run, env
  <2>19. CASE HealthForget(t)
    BY <2>19 DEF HealthForget, Goto, Run, env
  <2> QED BY <1>2, <2>1, <2>2, <2>3, <2>4, <2>5, <2>6, <2>7, <2>8, <2>9,
             <2>10, <2>11, <2>12, <2>13, <2>14, <2>15, <2>16, <2>17, <2>18,
             <2>19 DEF Continue
<1>3. ASSUME NEW p \in Pid, Proxy(p) \/ ProxyDies(p) PROVE RunningServes'
  <2>1. CASE ProxyOpen(p)
    BY <2>1 DEF ProxyOpen, slot, env, thread
  <2>2. CASE ProxyBind(p)
    BY <2>2 DEF ProxyBind, slot, env, thread
  <2>3. CASE ProxyDies(p)
    <3>1. crashes' # 0
      BY <2>3 DEF ProxyDies
    <3> QED BY <3>1
  <2> QED BY <1>3, <2>1, <2>2, <2>3 DEF Proxy
<1>4. ASSUME Replug PROVE RunningServes'
  BY <1>4 DEF Replug, slot, thread
<1>5. ASSUME UNCHANGED vars PROVE RunningServes'
  BY <1>5 DEF vars
<1> QED BY <1>1, <1>2, <1>3, <1>4, <1>5 DEF Next

\* While no proxy has died on its own, `running` means that the recorded process
\* answers on the slot's ports, whatever the threads do to one another.
THEOREM RunningProxyServes ==
    ASSUME Disciplined
    PROVE  Spec => []RunningServes
<1>1. Init => RunningServes
  BY DEF Init, RunningServes
<1>2. SlotInv /\ RunningServes /\ [Next]_vars => RunningServes'
  BY ServesStep
<1> QED BY <1>1, <1>2, SlotInvariant, PTL DEF Spec

-----------------------------------------------------------------------------
(* `resetting` ends.                                                          *)

\* Every step, with the lock or without it, settles a `resetting` state with the
\* last flash or reset that is under way, or ends that one by an exception.
LEMMA ResettingStep ==
    ASSUME TypeOK, ResettingEnds, [Next]_vars
    PROVE  ResettingEnds'
<1> USE DEF ResettingEnds, TypeOK, Pc
<1>1. ASSUME NEW t \in Thread, Respond(t) PROVE ResettingEnds'
  <2>1. CASE Request(t)
    BY <2>1 DEF Request, Begin, Run, slot, env
  <2>2. CASE HotplugAdd(t)
    BY <2>2 DEF HotplugAdd, Begin, Run
  <2>3. CASE HotplugRemove(t)
    BY <2>3 DEF HotplugRemove, Begin, Run
  <2>4. CASE ClearFlapping(t)
    BY <2>4 DEF ClearFlapping, Begin, Run, env, Settled
  <2>5. CASE MonitorAttach(t)
    BY <2>5 DEF MonitorAttach, Begin, Run, env
  <2>6. CASE HealthLook(t)
    BY <2>6 DEF HealthLook, Begin, Run, slot, env
  <2> QED BY <1>1, <2>1, <2>2, <2>3, <2>4, <2>5, <2>6 DEF Respond
<1>2. ASSUME NEW t \in Thread, Continue(t) PROVE ResettingEnds'
  <2>1. CASE EnterToStop(t)
    BY <2>1 DEF EnterToStop, Goto, Run, slot, env, StopsFirst
  <2>2. CASE EnterStopped(t)
    BY <2>2 DEF EnterStopped, AfterStop, Goto, Run, env, Settled, StopsFirst
  <2>3. CASE Kill(t)
    BY <2>3 DEF Kill, Goto, Run, slot, env
  <2>4. CASE Clear(t)
    BY <2>4 DEF Clear, AfterStop, Goto, Run, Settled
  <2>5. CASE SettleTimeout(t)
    BY <2>5 DEF SettleTimeout, Return, Goto, Run, env, ReturnState, Settled
  <2>6. CASE Spawn(t)
    BY <2>6 DEF Spawn, Goto, Run, slot, env
  <2>7. CASE PollDead(t)
    BY <2>7 DEF PollDead, Return, Goto, Run, env, ReturnState, Settled
  <2>8. CASE PollAlive(t)
    BY <2>8 DEF PollAlive, Goto, Run, slot, env
  <2>9. CASE PortsUp(t)
    BY <2>9 DEF PortsUp, Return, Goto, Run
  <2>10. CASE PortsTimeout(t)
    BY <2>10 DEF PortsTimeout, Return, Goto, Run, env, ReturnState, Settled
  <2>11. CASE ResetOpenFails(t)
    BY <2>11 DEF ResetOpenFails, Goto, Run, Settled
  <2>12. CASE ResetOpens(t)
    BY <2>12 DEF ResetOpens, Goto, Run, slot, env
  <2>13. CASE Drive(t)
    BY <2>13 DEF Drive, Goto, Run, slot, env
  <2>14. CASE ResetRaises(t)
    BY <2>14 DEF ResetRaises, Goto, Run, slot
  <2>15. CASE ReenterToStart(t)
    BY <2>15 DEF ReenterToStart, Goto, Run, slot, env
  <2>16. CASE ReenterRaises(t)
    BY <2>16 DEF ReenterRaises, Goto, Run, slot
  <2>17. CASE ReenterDone(t)
    BY <2>17 DEF ReenterDone, Goto, Run, env, ReturnState, Settled, Restarts
  <2>18. CASE MonitorDetach(t)
    BY <2>18 DEF MonitorDetach, Goto, Run, env, Settled
  <2>19. CASE HealthForget(t)
    BY <2>19 DEF HealthForget, Goto, Run, env, Settled
  <2> QED BY <1>2, <2>1, <2>2, <2>3, <2>4, <2>5, <2>6, <2>7, <2>8, <2>9,
             <2>10, <2>11, <2>12, <2>13, <2>14, <2>15, <2>16, <2>17, <2>18,
             <2>19 DEF Continue
<1>3. ASSUME NEW p \in Pid, Proxy(p) \/ ProxyDies(p) PROVE ResettingEnds'
  BY <1>3 DEF Proxy, ProxyOpen, ProxyBind, ProxyDies, slot, env, thread
<1>4. ASSUME Replug PROVE ResettingEnds'
  BY <1>4 DEF Replug, slot, thread
<1>5. ASSUME UNCHANGED vars PROVE ResettingEnds'
  BY <1>5 DEF vars
<1> QED BY <1>1, <1>2, <1>3, <1>4, <1>5 DEF Next

\* `resetting` is shown only while a flash or a reset is under way, or after an
\* exception has ended one: for every set of operations, the ones that take no
\* lock included, and whatever dies or is unplugged.
THEOREM ResettingAlwaysEnds ==
    Spec => []ResettingEnds
<1>1. Init => TypeOK /\ ResettingEnds
  BY InitInv DEF Init, SlotInv, ResettingEnds
<1>2. TypeOK /\ ResettingEnds /\ [Next]_vars => (TypeOK /\ ResettingEnds)'
  BY ResettingStep, TypeStep
<1> QED BY <1>1, <1>2, PTL DEF Spec

-----------------------------------------------------------------------------
(* What is present is served.                                                 *)

\* Thread t has start_proxy ahead of it, or is inside, or will have ended the
\* slot's service by a stop or a removal.
RestartDue(t) ==
    \/ pc[t] \in {"kill", "clear", "open", "spawn", "poll", "ports"}
    \/ pc[t] = "enter" /\ op[t] \in {"start", "add", "restart"}
    \/ pc[t] \in {"drive", "reenter"} /\ op[t] = "reset"
    \/ pc[t] \in {"drive", "reenter"} /\ op[t] = "flash" /\ was[t]

\* A flash that stops the proxy remembers that it ran; only a reset opens the
\* port itself.
FlashRemembers ==
    \A t \in Thread :
        /\ pc[t] \in {"kill", "clear"} /\ op[t] = "flash" => was[t]
        /\ pc[t] = "open" => op[t] = "reset"

\* A slot that should be served, without a proxy and without an error, has an
\* operation on its way to start_proxy.
RestartPending ==
    present /\ ~running /\ ~failed /\ ~flapping /\ ended = {} =>
        \E t \in Thread : RestartDue(t)

ServedInv == TypeOK /\ FlashRemembers /\ RestartPending

\* Every step keeps what a flash remembers.
LEMMA FlashStep ==
    ASSUME ServedInv, [Next]_vars
    PROVE  FlashRemembers'
<1> USE DEF ServedInv, FlashRemembers, TypeOK, Pc
<1>1. ASSUME NEW t \in Thread, Respond(t) PROVE FlashRemembers'
  <2>1. CASE Request(t)
    BY <2>1 DEF Request, Begin, Run, slot, env
  <2>2. CASE HotplugAdd(t)
    BY <2>2 DEF HotplugAdd, Begin, Run
  <2>3. CASE HotplugRemove(t)
    BY <2>3 DEF HotplugRemove, Begin, Run
  <2>4. CASE ClearFlapping(t)
    BY <2>4 DEF ClearFlapping, Begin, Run, env, Settled
  <2>5. CASE MonitorAttach(t)
    BY <2>5 DEF MonitorAttach, Begin, Run, env
  <2>6. CASE HealthLook(t)
    BY <2>6 DEF HealthLook, Begin, Run, slot, env
  <2> QED BY <1>1, <2>1, <2>2, <2>3, <2>4, <2>5, <2>6 DEF Respond
<1>2. ASSUME NEW t \in Thread, Continue(t) PROVE FlashRemembers'
  <2>1. CASE EnterToStop(t)
    BY <2>1 DEF EnterToStop, Goto, Run, slot, env, StopsFirst
  <2>2. CASE EnterStopped(t)
    BY <2>2 DEF EnterStopped, AfterStop, Goto, Run, env, Settled, StopsFirst
  <2>3. CASE Kill(t)
    BY <2>3 DEF Kill, Goto, Run, slot, env
  <2>4. CASE Clear(t)
    BY <2>4 DEF Clear, AfterStop, Goto, Run, Settled
  <2>5. CASE SettleTimeout(t)
    BY <2>5 DEF SettleTimeout, Return, Goto, Run, env, ReturnState, Settled
  <2>6. CASE Spawn(t)
    BY <2>6 DEF Spawn, Goto, Run, slot, env
  <2>7. CASE PollDead(t)
    BY <2>7 DEF PollDead, Return, Goto, Run, env, ReturnState, Settled
  <2>8. CASE PollAlive(t)
    BY <2>8 DEF PollAlive, Goto, Run, slot, env
  <2>9. CASE PortsUp(t)
    BY <2>9 DEF PortsUp, Return, Goto, Run
  <2>10. CASE PortsTimeout(t)
    BY <2>10 DEF PortsTimeout, Return, Goto, Run, env, ReturnState, Settled
  <2>11. CASE ResetOpenFails(t)
    BY <2>11 DEF ResetOpenFails, Goto, Run, Settled
  <2>12. CASE ResetOpens(t)
    BY <2>12 DEF ResetOpens, Goto, Run, slot, env
  <2>13. CASE Drive(t)
    BY <2>13 DEF Drive, Goto, Run, slot, env
  <2>14. CASE ResetRaises(t)
    BY <2>14 DEF ResetRaises, Goto, Run, slot
  <2>15. CASE ReenterToStart(t)
    BY <2>15 DEF ReenterToStart, Goto, Run, slot, env
  <2>16. CASE ReenterRaises(t)
    BY <2>16 DEF ReenterRaises, Goto, Run, slot
  <2>17. CASE ReenterDone(t)
    BY <2>17 DEF ReenterDone, Goto, Run, env, ReturnState, Settled, Restarts
  <2>18. CASE MonitorDetach(t)
    BY <2>18 DEF MonitorDetach, Goto, Run, env, Settled
  <2>19. CASE HealthForget(t)
    BY <2>19 DEF HealthForget, Goto, Run, env, Settled
  <2> QED BY <1>2, <2>1, <2>2, <2>3, <2>4, <2>5, <2>6, <2>7, <2>8, <2>9,
             <2>10, <2>11, <2>12, <2>13, <2>14, <2>15, <2>16, <2>17, <2>18,
             <2>19 DEF Continue
<1>3. ASSUME NEW p \in Pid, Proxy(p) \/ ProxyDies(p) PROVE FlashRemembers'
  BY <1>3 DEF Proxy, ProxyOpen, ProxyBind, ProxyDies, slot, env, thread
<1>4. ASSUME Replug PROVE FlashRemembers'
  BY <1>4 DEF Replug, slot, thread
<1>5. ASSUME UNCHANGED vars PROVE FlashRemembers'
  BY <1>5 DEF vars
<1> QED BY <1>1, <1>2, <1>3, <1>4, <1>5 DEF Next

\* Every step that leaves the slot without a proxy and without an error has
\* ended its service, or leaves an operation that will start one.
LEMMA PendingStep ==
    ASSUME ServedInv, [Next]_vars
    PROVE  RestartPending'
<1> USE DEF ServedInv, FlashRemembers, RestartPending, RestartDue, TypeOK, Pc
<1>1. ASSUME NEW t \in Thread, Respond(t) PROVE RestartPending'
  <2>1. CASE Request(t)
    BY <2>1 DEF Request, Begin, Run, slot, env
  <2>2. CASE HotplugAdd(t)
    BY <2>2 DEF HotplugAdd, Begin, Run
  <2>3. CASE HotplugRemove(t)
    BY <2>3 DEF HotplugRemove, Begin, Run
  <2>4. CASE ClearFlapping(t)
    BY <2>4 DEF ClearFlapping, Begin, Run, env, Settled
  <2>5. CASE MonitorAttach(t)
    BY <2>5 DEF MonitorAttach, Begin, Run, env
  <2>6. CASE HealthLook(t)
    BY <2>6 DEF HealthLook, Begin, Run, slot, env
  <2> QED BY <1>1, <2>1, <2>2, <2>3, <2>4, <2>5, <2>6 DEF Respond
<1>2. ASSUME NEW t \in Thread, Continue(t) PROVE RestartPending'
  <2>1. CASE EnterToStop(t)
    BY <2>1 DEF EnterToStop, Goto, Run, slot, env, StopsFirst
  <2>2. CASE EnterStopped(t)
    BY <2>2 DEF EnterStopped, AfterStop, Goto, Run, env, Settled, StopsFirst
  <2>3. CASE Kill(t)
    BY <2>3 DEF Kill, Goto, Run, slot, env
  <2>4. CASE Clear(t)
    BY <2>4 DEF Clear, AfterStop, Goto, Run, Settled
  <2>5. CASE SettleTimeout(t)
    BY <2>5 DEF SettleTimeout, Return, Goto, Run, env, ReturnState, Settled
  <2>6. CASE Spawn(t)
    BY <2>6 DEF Spawn, Goto, Run, slot, env
  <2>7. CASE PollDead(t)
    BY <2>7 DEF PollDead, Return, Goto, Run, env, ReturnState, Settled
  <2>8. CASE PollAlive(t)
    BY <2>8 DEF PollAlive, Goto, Run, slot, env
  <2>9. CASE PortsUp(t)
    BY <2>9 DEF PortsUp, Return, Goto, Run
  <2>10. CASE PortsTimeout(t)
    BY <2>10 DEF PortsTimeout, Return, Goto, Run, env, ReturnState, Settled
  <2>11. CASE ResetOpenFails(t)
    BY <2>11 DEF ResetOpenFails, Goto, Run, Settled
  <2>12. CASE ResetOpens(t)
    BY <2>12 DEF ResetOpens, Goto, Run, slot, env
  <2>13. CASE Drive(t)
    BY <2>13 DEF Drive, Goto, Run, slot, env
  <2>14. CASE ResetRaises(t)
    BY <2>14 DEF ResetRaises, Goto, Run, slot
  <2>15. CASE ReenterToStart(t)
    BY <2>15 DEF ReenterToStart, Goto, Run, slot, env
  <2>16. CASE ReenterRaises(t)
    BY <2>16 DEF ReenterRaises, Goto, Run, slot
  <2>17. CASE ReenterDone(t)
    BY <2>17 DEF ReenterDone, Goto, Run, env, ReturnState, Settled, Restarts
  <2>18. CASE MonitorDetach(t)
    BY <2>18 DEF MonitorDetach, Goto, Run, env, Settled
  <2>19. CASE HealthForget(t)
    BY <2>19 DEF HealthForget, Goto, Run, env, Settled
  <2> QED BY <1>2, <2>1, <2>2, <2>3, <2>4, <2>5, <2>6, <2>7, <2>8, <2>9,
             <2>10, <2>11, <2>12, <2>13, <2>14, <2>15, <2>16, <2>17, <2>18,
             <2>19 DEF Continue
<1>3. ASSUME NEW p \in Pid, Proxy(p) \/ ProxyDies(p) PROVE RestartPending'
  BY <1>3 DEF Proxy, ProxyOpen, ProxyBind, ProxyDies, slot, env, thread
<1>4. ASSUME Replug PROVE RestartPending'
  BY <1>4 DEF Replug, slot, thread
<1>5. ASSUME UNCHANGED vars PROVE RestartPending'
  BY <1>5 DEF vars
<1> QED BY <1>1, <1>2, <1>3, <1>4, <1>5 DEF Next

\* Once every request and background job has ended, a slot that is present and
\* not flapping runs its proxy, says why not, or was left by a user's stop, a
\* removal, a failed reset or an exception: for any number of operations at
\* once, the ones that take no lock included, and whatever dies or is unplugged.
THEOREM PresentSlotServed ==
    Spec => []LeftServed
<1>1. Init => ServedInv
  <2> SUFFICES ASSUME Init PROVE ServedInv
    OBVIOUS
  <2>1. TypeOK
    BY InitInv DEF SlotInv
  <2>2. present = flapping
    BY DEF Init
  <2> QED BY <2>1, <2>2 DEF Init, ServedInv, FlashRemembers, RestartPending
<1>2. ServedInv /\ [Next]_vars => ServedInv'
  BY FlashStep, PendingStep, TypeStep DEF ServedInv
<1>3. ServedInv => LeftServed
  BY DEF ServedInv, RestartPending, RestartDue, LeftServed
<1> QED BY <1>1, <1>2, <1>3, PTL DEF Spec
===============================================================================
