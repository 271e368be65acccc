-------------------------- MODULE FlapRecovery_proofs --------------------------
(* For every number of recovery threads and every threshold: the portal's     *)
(* flag stands for exactly one recovery, the limit on unattended retries      *)
(* holds, a failed attempt releases BOOT, and the newest notification, when it *)
(* is dealt with in its turn, leaves the slot as the device is.               *)
EXTENDS FlapRecovery, SequenceTheorems, TLAPS

\* Where a recovery may be without wires, and that such a one has read a retry
\* count below the limit when it waits for its cooldown.
WirelessPc ==
    ~wired => \A r \in Rec :
        /\ pc[r] \notin {"resume", "resolve", "probe", "unhold"}
        /\ pc[r] = "cooldown" => retry[r] < FLAP_MAX_RETRIES

FlapIInv == FlapInv /\ WirelessPc

\* The two halves of the type invariant: the Boolean variables, and the others.
FlagsOK ==
    /\ loader \in BOOLEAN /\ confirmed \in BOOLEAN
    /\ quiet \in BOOLEAN /\ present \in BOOLEAN /\ known \in BOOLEAN
    /\ running \in BOOLEAN /\ lock \in BOOLEAN /\ flapping \in BOOLEAN
    /\ recovering \in BOOLEAN

DataOK ==
    /\ wired \in Wired /\ keyed \in Keyed /\ newest \in {"coming", "heard", "past"}
    /\ usb \in {"gone", "off", "up", "unbound"} /\ boot \in {"z", "low"}
    /\ udev \in Seq({"add", "remove"}) /\ recent \in 0..FLAP_THRESHOLD
    /\ jobs \in [Job -> Nat]
    /\ state \in {"absent", "idle", "flapping", "recovering", "download_mode"}
    /\ error \in {"none", "flap", "gave_up", "other"}
    /\ retries \in 0..FLAP_MAX_RETRIES
    /\ pc \in [Rec -> Pc] /\ event \in [Rec -> {"add", "remove", "none"}]
    /\ retry \in [Rec -> 0..FLAP_MAX_RETRIES] /\ attempts \in Nat
    /\ cycles \in Nat /\ unplugs \in Nat /\ manual \in Nat

-----------------------------------------------------------------------------
(* Notifications. *)

\* Removing a notification from a sequence leaves a sequence, one shorter.
LEMMA RemoveAtTyped ==
    ASSUME NEW S, NEW s \in Seq(S), NEW i \in 1..Len(s)
    PROVE  RemoveAt(s, i) \in Seq(S) /\ Len(RemoveAt(s, i)) = Len(s) - 1
<1> DEFINE a == SubSeq(s, 1, i - 1)
           b == SubSeq(s, i + 1, Len(s))
<1>1. Len(s) \in Nat /\ i \in Int /\ \A j \in 1..Len(s) : s[j] \in S
  BY ElementOfSeq, LenProperties
<1>2. a \in Seq(S) /\ Len(a) = i - 1
  <2>1. \A j \in 1..(i - 1) : s[j] \in S
    BY <1>1
  <2>2. /\ SubSeq(s, 1, i - 1) \in Seq(S)
        /\ Len(SubSeq(s, 1, i - 1)) = IF 1 <= i - 1 THEN (i - 1) - 1 + 1 ELSE 0
    BY <1>1, <2>1, SubSeqProperties
  <2> QED BY <1>1, <2>2
<1>3. b \in Seq(S) /\ Len(b) = Len(s) - i
  <2>1. \A j \in (i + 1)..Len(s) : s[j] \in S
    BY <1>1
  <2>2. /\ SubSeq(s, i + 1, Len(s)) \in Seq(S)
        /\ Len(SubSeq(s, i + 1, Len(s))) =
               IF i + 1 <= Len(s) THEN Len(s) - (i + 1) + 1 ELSE 0
    BY <1>1, <2>1, SubSeqProperties
  <2> QED BY <1>1, <2>2
<1>4. a \o b \in Seq(S) /\ Len(a \o b) = Len(a) + Len(b)
  BY <1>2, <1>3, ConcatProperties
<1>5. RemoveAt(s, i) = a \o b
  BY DEF RemoveAt
<1> HIDE DEF a, b
<1>6. Len(a) + Len(b) = Len(s) - 1
  BY <1>1, <1>2, <1>3
<1>7. RemoveAt(s, i) \in Seq(S)
  BY <1>4, <1>5
<1>8. Len(RemoveAt(s, i)) = Len(s) - 1
  BY <1>4, <1>5, <1>6
<1> QED BY <1>7, <1>8

\* Removing any notification but the newest leaves the newest where it is: last.
LEMMA RemoveKeepsLast ==
    ASSUME NEW S, NEW s \in Seq(S), NEW i \in 1..Len(s), i # Len(s)
    PROVE  /\ RemoveAt(s, i) # <<>>
           /\ RemoveAt(s, i)[Len(RemoveAt(s, i))] = s[Len(s)]
<1> DEFINE a == SubSeq(s, 1, i - 1)
           b == SubSeq(s, i + 1, Len(s))
<1>1. Len(s) \in Nat /\ i \in Int /\ i < Len(s) /\ \A j \in 1..Len(s) : s[j] \in S
  BY ElementOfSeq, LenProperties
<1>2. a \in Seq(S)
  <2>1. \A j \in 1..(i - 1) : s[j] \in S
    BY <1>1
  <2>2. SubSeq(s, 1, i - 1) \in Seq(S)
    BY <1>1, <2>1, SubSeqProperties
  <2> QED BY <2>2
<1>3. b \in Seq(S) /\ Len(b) = Len(s) - i /\ b[Len(s) - i] = s[Len(s)]
  <2>1. \A j \in (i + 1)..Len(s) : s[j] \in S
    BY <1>1
  <2>2. /\ SubSeq(s, i + 1, Len(s)) \in Seq(S)
        /\ Len(SubSeq(s, i + 1, Len(s))) =
               IF i + 1 <= Len(s) THEN Len(s) - (i + 1) + 1 ELSE 0
        /\ \A j \in 1 .. (Len(s) - (i + 1) + 1) :
               SubSeq(s, i + 1, Len(s))[j] = s[(i + 1) + j - 1]
    BY <1>1, <2>1, SubSeqProperties
  <2>3. Len(s) - i \in 1 .. (Len(s) - (i + 1) + 1)
        /\ (i + 1) + (Len(s) - i) - 1 = Len(s)
    BY <1>1
  <2>4. SubSeq(s, i + 1, Len(s))[Len(s) - i] = s[Len(s)]
    BY <2>2, <2>3
  <2> QED BY <1>1, <2>2, <2>4
<1>4. RemoveAt(s, i) = a \o b
  BY DEF RemoveAt
<1> HIDE DEF a, b
<1>5. /\ a \o b \in Seq(S) /\ Len(a \o b) = Len(a) + Len(b)
      /\ \A j \in 1 .. Len(a) + Len(b) :
             (a \o b)[j] = IF j <= Len(a) THEN a[j] ELSE b[j - Len(a)]
  BY <1>2, <1>3, ConcatProperties
<1>6. Len(a) \in Nat /\ Len(b) \in Nat /\ Len(b) >= 1
  BY <1>1, <1>2, <1>3, LenProperties
<1>7. (a \o b)[Len(a \o b)] = b[Len(b)]
  <2>1. Len(a) + Len(b) \in 1 .. Len(a) + Len(b) /\ ~(Len(a) + Len(b) <= Len(a))
        /\ (Len(a) + Len(b)) - Len(a) = Len(b)
    BY <1>6
  <2> QED BY <1>5, <2>1
<1>8. Len(a \o b) # 0
  BY <1>5, <1>6
<1>9. a \o b # <<>>
  BY <1>8, EmptySeq
<1> QED BY <1>3, <1>4, <1>7, <1>9

\* Whichever notification arrives, the others stay on their way.
LEMMA ArrivesTyped ==
    ASSUME DataOK, NEW e, Arrives(e)
    PROVE  udev' \in Seq({"add", "remove"}) /\ newest' \in {"coming", "heard", "past"}
BY RemoveAtTyped DEF DataOK, Arrives, After

\* Whatever is sent is on its way.
LEMMA NotifyTyped ==
    ASSUME DataOK, NEW e \in {"add", "remove"}, Notify(e) \/ Silent
    PROVE  udev' \in Seq({"add", "remove"}) /\ newest' \in {"coming", "heard", "past"}
<1>1. udev \in Seq({"add", "remove"})
  BY DEF DataOK
<1>2. Append(udev, e) \in Seq({"add", "remove"})
  BY <1>1, AppendProperties
<1> QED BY <1>1, <1>2 DEF DataOK, Notify, Silent

\* A pulse on EN leaves the device somewhere it can be.
LEMMA PulseTyped ==
    ASSUME DataOK, PulseEn
    PROVE  /\ usb' \in {"gone", "off", "up", "unbound"}
           /\ udev' \in Seq({"add", "remove"})
           /\ newest' \in {"coming", "heard", "past"}
<1>1. usb' \in {"up", "off"} \/ usb' = usb
  BY DEF PulseEn
<1>2. Notify("remove") \/ Silent
  BY DEF PulseEn
<1> QED BY <1>1, <1>2, NotifyTyped DEF DataOK

-----------------------------------------------------------------------------
(* The flag of a recovery. *)

\* Every step keeps the flags Boolean.
LEMMA FlagsStep ==
    ASSUME FlagsOK, [Next]_vars
    PROVE  FlagsOK'
<1> USE DEF FlagsOK
<1>1. ASSUME Handle \/ PollClears \/ Background PROVE FlagsOK'
  <2>1. CASE HotplugIgnored
    BY <2>1 DEF HotplugIgnored, device, proxy, flap, threads, others
  <2>2. CASE HotplugAdd
    BY <2>2 DEF HotplugAdd, device, threads, others, Cleared, StillFlapping,
       PresentAfter
  <2>3. CASE HotplugRemove
    BY <2>3 DEF HotplugRemove, device, threads, others, Cleared,
       StillFlapping, PresentAfter
  <2>4. CASE PollClears
    BY <2>4 DEF PollClears, device, notify, threads, others
  <2>5. CASE Start
    BY <2>5 DEF Start, device, notify, threads, others, Take
  <2>6. CASE Restart
    BY <2>6 DEF Restart, device, notify, flap, threads, others, Take
  <2>7. CASE Stop
    BY <2>7 DEF Stop, device, notify, threads, others, Take
  <2>8. CASE ProxyUp
    BY <2>8 DEF ProxyUp, device, notify, threads, others
  <2>9. CASE ProxyFails
    BY <2>9 DEF ProxyFails, device, notify, threads, others
  <2> QED BY <1>1, <2>1, <2>2, <2>3, <2>4, <2>5, <2>6, <2>7, <2>8, <2>9 DEF
     Handle, Background
<1>2. ASSUME NEW r \in Rec, HotplugStorm(r) \/ Recover(r) \/ Release(r)
      PROVE  FlagsOK'
  <2>1. CASE HotplugStorm(r)
    BY <2>1 DEF HotplugStorm, Goto, device, others, Cleared, StillFlapping
  <2>2. CASE Recover(r)
    BY <2>2 DEF Recover, Goto, device, notify, proxy
  <2>3. CASE Release(r)
    BY <2>3 DEF Release, Goto, notify, proxy, flap
  <2> QED BY <1>2, <2>1, <2>2, <2>3
<1>3. ASSUME NEW r \in Rec, Recovery(r) PROVE FlagsOK'
  <2>1. CASE Halt(r)
    BY <2>1 DEF Halt, Goto, device, notify, others
  <2>2. CASE Unbind(r)
    BY <2>2 DEF Unbind, Goto, Handled, flap, others, PresentAfter
  <2>3. CASE UnbindUnnamed(r)
    BY <2>3 DEF UnbindUnnamed, Goto, Handled, device, notify, others, Aborted,
       PresentAfter
  <2>4. CASE GiveUp(r)
    BY <2>4 DEF GiveUp, Goto, device, notify, proxy, others
  <2>5. CASE Begin(r)
    BY <2>5 DEF Begin, Goto, device, notify, proxy, flap, others
  <2>6. CASE Retry(r)
    BY <2>6 DEF Retry, Goto, device, proxy, others
  <2>7. CASE Hold(r)
    BY <2>7 DEF Hold, Goto, PulseEn, proxy, flap, others
  <2>8. CASE HoldFails(r)
    BY <2>8 DEF HoldFails, Goto, device, notify, proxy, others
  <2>9. CASE Rebind(r)
    BY <2>9 DEF Rebind, Goto, notify, proxy, flap, others
  <2>10. CASE Resume(r)
    BY <2>10 DEF Resume, Goto, device, notify, proxy, others
  <2>11. CASE Resolve(r)
    BY <2>11 DEF Resolve, Goto, device, notify, flap, others
  <2>12. CASE ProbeOk(r)
    BY <2>12 DEF ProbeOk, Goto, notify, proxy, others
  <2>13. CASE ProbeFails(r)
    BY <2>13 DEF ProbeFails, Goto, notify, proxy, flap, others
  <2>14. CASE ProbeFailsStuck(r)
    BY <2>14 DEF ProbeFailsStuck, Goto, device, notify, proxy, others
  <2>15. CASE Unhold(r)
    BY <2>15 DEF Unhold, Goto, PulseEn, proxy, others
  <2>16. CASE Pulse(r)
    BY <2>16 DEF Pulse, Goto, PulseEn, proxy, others
  <2> QED BY <1>3, <2>1, <2>2, <2>3, <2>4, <2>5, <2>6, <2>7, <2>8, <2>9,
     <2>10, <2>11, <2>12, <2>13, <2>14, <2>15, <2>16 DEF Recovery
<1>4. ASSUME Crash \/ Reappear \/ Unplug \/ Plug \/ Wait PROVE FlagsOK'
  <2>1. CASE Crash
    BY <2>1 DEF Crash, proxy, flap, threads
  <2>2. CASE Reappear
    BY <2>2 DEF Reappear, proxy, flap, threads, others
  <2>3. CASE Unplug
    BY <2>3 DEF Unplug, proxy, flap, threads
  <2>4. CASE Plug
    BY <2>4 DEF Plug, proxy, flap, threads, others
  <2>5. CASE Wait
    BY <2>5 DEF Wait, device, proxy, flap, threads, others
  <2> QED BY <1>4, <2>1, <2>2, <2>3, <2>4, <2>5
<1>5. ASSUME UNCHANGED vars PROVE FlagsOK'
  BY <1>5 DEF vars, device, notify, proxy, flap, threads, others
<1> QED BY <1>1, <1>2, <1>3, <1>4, <1>5 DEF Next

\* Every step keeps the other variables in their types; the retry count stays
\* within the limit because the recovery has compared what it read.
LEMMA DataStep ==
    ASSUME DataOK, WirelessPc, [Next]_vars
    PROVE  DataOK'
<1>6. Counted \in 0..FLAP_THRESHOLD /\ 0 \in 0..FLAP_THRESHOLD
  BY ThresholdAssumption DEF DataOK, Counted
<1> USE DEF DataOK, WirelessPc, Pc, Job
<1>1. ASSUME Handle \/ PollClears \/ Background PROVE DataOK'
  <2>1. CASE HotplugIgnored
    BY <2>1, ArrivesTyped DEF HotplugIgnored, device, proxy, flap, threads, others
  <2>2. CASE HotplugAdd
    BY <2>2, <1>6, ArrivesTyped DEF HotplugAdd, device, threads, others,
       Restarted, Cleared, StillFlapping, PresentAfter, Queue
  <2>3. CASE HotplugRemove
    BY <2>3, <1>6, ArrivesTyped DEF HotplugRemove, device, threads, others,
       Restarted, Cleared, StillFlapping, PresentAfter, Queue
  <2>4. CASE PollClears
    BY <2>4 DEF PollClears, device, notify, threads, others, Settled,
       Restarted, Queue
  <2>5. CASE Start
    BY <2>5 DEF Start, device, notify, threads, others, Take
  <2>6. CASE Restart
    BY <2>6 DEF Restart, device, notify, flap, threads, others, Take
  <2>7. CASE Stop
    BY <2>7 DEF Stop, device, notify, threads, others, Take
  <2>8. CASE ProxyUp
    BY <2>8 DEF ProxyUp, device, notify, threads, others, Reported
  <2>9. CASE ProxyFails
    BY <2>9 DEF ProxyFails, device, notify, threads, others, Reported
  <2> QED BY <1>1, <2>1, <2>2, <2>3, <2>4, <2>5, <2>6, <2>7, <2>8, <2>9 DEF
     Handle, Background
<1>2. ASSUME NEW r \in Rec, HotplugStorm(r) \/ Recover(r) \/ Release(r)
      PROVE  DataOK'
  <2>1. CASE HotplugStorm(r)
    BY <2>1, <1>6, ArrivesTyped DEF HotplugStorm, Goto, device, others,
       Restarted, Cleared, Queue, StillFlapping
  <2>2. CASE Recover(r)
    BY <2>2, RetriesAssumption DEF Recover, Goto, device, notify, proxy
  <2>3. CASE Release(r)
    BY <2>3 DEF Release, Goto, notify, proxy, flap
  <2> QED BY <1>2, <2>1, <2>2, <2>3
<1>3. ASSUME NEW r \in Rec, Recovery(r) PROVE DataOK'
  <2>1. CASE Halt(r)
    BY <2>1 DEF Halt, Goto, device, notify, others
  <2>2. CASE Unbind(r)
    BY <2>2, NotifyTyped DEF Unbind, Goto, Handled, flap, others, PresentAfter, Queue
  <2>3. CASE UnbindUnnamed(r)
    BY <2>3 DEF UnbindUnnamed, Goto, Handled, device, notify, others, Aborted,
       PresentAfter, Queue
  <2>4. CASE GiveUp(r)
    BY <2>4 DEF GiveUp, Goto, device, notify, proxy, others, GivesUp
  <2>5. CASE Begin(r)
    BY <2>5 DEF Begin, Goto, device, notify, proxy, flap, others, GivesUp
  <2>6. CASE Retry(r)
    BY <2>6, RetriesAssumption, <1>6 DEF Retry, Goto, device, proxy, others
  <2>7. CASE Hold(r)
    <3>1. PulseEn
      BY <2>7 DEF Hold
    <3>2. /\ usb' \in {"gone", "off", "up", "unbound"} /\ udev' \in Seq({"add", "remove"})
          /\ newest' \in {"coming", "heard", "past"}
      BY <3>1, PulseTyped
    <3>3. attempts' \in Nat /\ boot' = "low" /\ pc' = [pc EXCEPT ![r] = "rebind"]
      BY <2>7 DEF Hold, Goto
    <3>4. UNCHANGED <<recent, jobs, state, error, retries, event, retry, others>>
      BY <2>7 DEF Hold, proxy, flap
    <3> QED BY <3>2, <3>3, <3>4 DEF others
  <2>8. CASE HoldFails(r)
    BY <2>8 DEF HoldFails, Goto, device, notify, proxy, others
  <2>9. CASE Rebind(r)
    BY <2>9 DEF Rebind, Goto, notify, proxy, flap, others
  <2>10. CASE Resume(r)
    BY <2>10 DEF Resume, Goto, device, notify, proxy, others
  <2>11. CASE Resolve(r)
    BY <2>11 DEF Resolve, Goto, device, notify, flap, others
  <2>12. CASE ProbeOk(r)
    BY <2>12, RetriesAssumption DEF ProbeOk, Goto, notify, proxy, others
  <2>13. CASE ProbeFails(r)
    BY <2>13 DEF ProbeFails, Goto, notify, proxy, flap, others, BootReleased
  <2>14. CASE ProbeFailsStuck(r)
    BY <2>14 DEF ProbeFailsStuck, Goto, device, notify, proxy, others
  <2>15. CASE Unhold(r)
    BY <2>15, RetriesAssumption, PulseTyped DEF Unhold, Goto, proxy, others
  <2>16. CASE Pulse(r)
    BY <2>16, RetriesAssumption, PulseTyped DEF Pulse, Goto, proxy, others
  <2> QED BY <1>3, <2>1, <2>2, <2>3, <2>4, <2>5, <2>6, <2>7, <2>8, <2>9,
     <2>10, <2>11, <2>12, <2>13, <2>14, <2>15, <2>16 DEF Recovery
<1>4. ASSUME Crash \/ Reappear \/ Unplug \/ Plug \/ Wait PROVE DataOK'
  <2>1. CASE Crash
    BY <2>1, NotifyTyped DEF Crash, proxy, flap, threads
  <2>2. CASE Reappear
    BY <2>2, NotifyTyped DEF Reappear, proxy, flap, threads, others
  <2>3. CASE Unplug
    BY <2>3, NotifyTyped DEF Unplug, proxy, flap, threads
  <2>4. CASE Plug
    BY <2>4, NotifyTyped DEF Plug, proxy, flap, threads, others
  <2>5. CASE Wait
    BY <2>5, ThresholdAssumption DEF Wait, device, proxy, flap, threads,
       others
  <2> QED BY <1>4, <2>1, <2>2, <2>3, <2>4, <2>5
<1>5. ASSUME UNCHANGED vars PROVE DataOK'
  BY <1>5 DEF vars, device, notify, proxy, flap, threads, others
<1> QED BY <1>1, <1>2, <1>3, <1>4, <1>5 DEF Next

\* What FlapInv says of the flag: one recovery, and only one, stands behind it.
FlagFits ==
    /\ recovering <=> \E r \in Rec : pc[r] \in Shown
    /\ \A r, q \in Rec : pc[r] \in Shown /\ pc[q] \in Shown => r = q
    /\ \A r \in Rec : event[r] # "none" => pc[r] \in {"halt", "unbind"}
    /\ recovering => flapping

\* Every step that begins, carries on or ends a recovery moves the flag with it.
LEMMA FlagStep ==
    ASSUME FlapIInv, [Next]_vars
    PROVE  FlagFits' /\ WirelessPc'
<1> DEFINE Goal == FlagFits' /\ WirelessPc'
<1> USE RetriesAssumption
    DEF FlapIInv, WirelessPc, FlapInv, FlagFits, Shown, TypeOK, Pc
<1>1. ASSUME Handle \/ PollClears \/ Background PROVE Goal
  <2>1. CASE HotplugIgnored
    BY <2>1 DEF HotplugIgnored, device, proxy, flap, threads, others
  <2>2. CASE HotplugAdd
    BY <2>2 DEF HotplugAdd, device, threads, others
  <2>3. CASE HotplugRemove
    BY <2>3 DEF HotplugRemove, device, threads, others
  <2>4. CASE PollClears
    BY <2>4 DEF PollClears, device, notify, threads, others
  <2>5. CASE Start
    BY <2>5 DEF Start, device, notify, threads, others
  <2>6. CASE Restart
    BY <2>6 DEF Restart, device, notify, flap, threads, others
  <2>7. CASE Stop
    BY <2>7 DEF Stop, device, notify, threads, others
  <2>8. CASE ProxyUp
    BY <2>8 DEF ProxyUp, device, notify, threads, others
  <2>9. CASE ProxyFails
    BY <2>9 DEF ProxyFails, device, notify, threads, others
  <2> QED BY <1>1, <2>1, <2>2, <2>3, <2>4, <2>5, <2>6, <2>7, <2>8, <2>9 DEF
     Handle, Background
<1>2. ASSUME NEW r \in Rec, HotplugStorm(r) \/ Recover(r) \/ Release(r)
      PROVE  Goal
  <2>1. CASE HotplugStorm(r)
    BY <2>1 DEF HotplugStorm, Goto, device, others
  <2>2. CASE Recover(r)
    BY <2>2 DEF Recover, Goto, device, notify, proxy, Busy
  <2>3. CASE Release(r)
    BY <2>3 DEF Release, Goto, notify, proxy, flap
  <2> QED BY <1>2, <2>1, <2>2, <2>3
<1>3. ASSUME NEW r \in Rec, Recovery(r) PROVE Goal
  <2>1. CASE Halt(r)
    BY <2>1 DEF Halt, Goto, device, notify, others
  <2>2. CASE Unbind(r)
    BY <2>2 DEF Unbind, Goto, Handled, flap, others
  <2>3. CASE UnbindUnnamed(r)
    BY <2>3 DEF UnbindUnnamed, Goto, Handled, device, notify, others, Aborted
  <2>4. CASE GiveUp(r)
    BY <2>4 DEF GiveUp, Goto, device, notify, proxy, others, GivesUp
  <2>5. CASE Begin(r)
    BY <2>5 DEF Begin, Goto, device, notify, proxy, flap, others, GivesUp
  <2>6. CASE Retry(r)
    BY <2>6 DEF Retry, Goto, device, proxy, others
  <2>7. CASE Hold(r)
    BY <2>7 DEF Hold, Goto, PulseEn, proxy, flap, others
  <2>8. CASE HoldFails(r)
    BY <2>8 DEF HoldFails, Goto, device, notify, proxy, others
  <2>9. CASE Rebind(r)
    BY <2>9 DEF Rebind, Goto, notify, proxy, flap, others
  <2>10. CASE Resume(r)
    BY <2>10 DEF Resume, Goto, device, notify, proxy, others
  <2>11. CASE Resolve(r)
    BY <2>11 DEF Resolve, Goto, device, notify, flap, others
  <2>12. CASE ProbeOk(r)
    BY <2>12 DEF ProbeOk, Goto, notify, proxy, others
  <2>13. CASE ProbeFails(r)
    BY <2>13 DEF ProbeFails, Goto, notify, proxy, flap, others
  <2>14. CASE ProbeFailsStuck(r)
    BY <2>14 DEF ProbeFailsStuck, Goto, device, notify, proxy, others
  <2>15. CASE Unhold(r)
    BY <2>15 DEF Unhold, Goto, PulseEn, proxy, others
  <2>16. CASE Pulse(r)
    BY <2>16 DEF Pulse, Goto, PulseEn, proxy, others
  <2> QED BY <1>3, <2>1, <2>2, <2>3, <2>4, <2>5, <2>6, <2>7, <2>8, <2>9,
     <2>10, <2>11, <2>12, <2>13, <2>14, <2>15, <2>16 DEF Recovery
<1>4. ASSUME Crash \/ Reappear \/ Unplug \/ Plug \/ Wait PROVE Goal
  <2>1. CASE Crash
    BY <2>1 DEF Crash, proxy, flap, threads
  <2>2. CASE Reappear
    BY <2>2 DEF Reappear, proxy, flap, threads, others
  <2>3. CASE Unplug
    BY <2>3 DEF Unplug, proxy, flap, threads
  <2>4. CASE Plug
    BY <2>4 DEF Plug, proxy, flap, threads, others
  <2>5. CASE Wait
    BY <2>5 DEF Wait, device, proxy, flap, threads, others
  <2> QED BY <1>4, <2>1, <2>2, <2>3, <2>4, <2>5
<1>5. ASSUME UNCHANGED vars PROVE Goal
  BY <1>5 DEF vars, device, notify, proxy, flap, threads, others
<1> QED BY <1>1, <1>2, <1>3, <1>4, <1>5 DEF Next

\* The inductive invariant holds in every reachable state.
LEMMA FlapIInvariant == Spec => []FlapIInv
<1>1. Init => FlapIInv
  <2> SUFFICES ASSUME Init PROVE FlapIInv
    OBVIOUS
  <2>1. TypeOK
    <3>1. FlagsOK
      BY DEF Init, FlagsOK
    <3>2. 0 \in 0..FLAP_THRESHOLD /\ 0 \in 0..FLAP_MAX_RETRIES
      BY ThresholdAssumption, RetriesAssumption
    <3>3. DataOK
      BY <3>2 DEF Init, DataOK, Pc, Job
    <3> QED BY <3>1, <3>3 DEF TypeOK, FlagsOK, DataOK
  <2>2. \A r \in Rec : pc[r] = "idle" /\ event[r] = "none"
    BY DEF Init
  <2> QED BY <2>1, <2>2 DEF Init, FlapIInv, FlapInv, WirelessPc, Shown
<1>2. FlapIInv /\ [Next]_vars => FlapIInv'
  <2> SUFFICES ASSUME FlapIInv, [Next]_vars PROVE FlapIInv'
    OBVIOUS
  <2>1. TypeOK'
    <3>1. FlagsOK /\ DataOK /\ WirelessPc
      BY DEF FlapIInv, FlapInv, TypeOK, FlagsOK, DataOK
    <3>2. FlagsOK' /\ DataOK'
      BY <3>1, FlagsStep, DataStep
    <3> QED BY <3>2 DEF TypeOK, FlagsOK, DataOK
  <2>2. FlagFits' /\ WirelessPc'
    BY FlagStep
  <2> QED BY <2>1, <2>2 DEF FlapIInv, FlapInv, FlagFits
<1> QED BY <1>1, <1>2, PTL DEF Spec

\* `recovering` stands for exactly one recovery thread, from the moment a storm
\* or a user starts it until it has dealt with the device, and while it is set
\* the slot is flapping: the guard of _start_flap_recovery and of
\* _handle_hotplug is never left behind and never shared.
THEOREM FlapInvariant == Spec => []FlapInv
<1>1. FlapIInv => FlapInv
  BY DEF FlapIInv
<1> QED BY <1>1, FlapIInvariant, PTL

-----------------------------------------------------------------------------
(* The limit on unattended retries. *)

\* A restart that is tried without wires has first been counted: the attempts
\* since the last one a user asked for are at most the retries the slot shows,
\* and at most what the waiting recovery has read of them.
AttemptsCounted ==
    ~wired => /\ attempts <= retries
              /\ \A r \in Rec : pc[r] = "cooldown" => attempts <= retry[r]

\* Every step that tries the device again, or starts counting afresh, keeps the
\* attempts counted; a user's request may come in the middle of a cooldown.
LEMMA AttemptsStep ==
    ASSUME FlapIInv, AttemptsCounted, [Next]_vars
    PROVE  AttemptsCounted'
<1>6. /\ attempts \in Nat /\ retries \in Nat /\ pc \in [Rec -> Pc]
      /\ \A r \in Rec : retry[r] \in Nat
      /\ retry \in [Rec -> 0..FLAP_MAX_RETRIES]
      /\ \A r, q \in Rec : pc[r] = "cooldown" /\ pc[q] = "cooldown" => r = q
  BY RetriesAssumption DEF FlapIInv, FlapInv, TypeOK, Shown
<1>7. ~wired => \A r \in Rec : pc[r] \notin {"resume", "resolve", "probe", "unhold"}
  BY DEF FlapIInv, WirelessPc
<1> USE <1>6, <1>7 DEF AttemptsCounted
<1>1. ASSUME Handle \/ PollClears \/ Background PROVE AttemptsCounted'
  <2>1. CASE HotplugIgnored
    BY <2>1 DEF HotplugIgnored, device, proxy, flap, threads, others
  <2>2. CASE HotplugAdd
    BY <2>2 DEF HotplugAdd, device, threads, others
  <2>3. CASE HotplugRemove
    BY <2>3 DEF HotplugRemove, device, threads, others
  <2>4. CASE PollClears
    BY <2>4 DEF PollClears, device, notify, threads, others
  <2>5. CASE Start
    BY <2>5 DEF Start, device, notify, threads, others
  <2>6. CASE Restart
    BY <2>6 DEF Restart, device, notify, flap, threads, others
  <2>7. CASE Stop
    BY <2>7 DEF Stop, device, notify, threads, others
  <2>8. CASE ProxyUp
    BY <2>8 DEF ProxyUp, device, notify, threads, others
  <2>9. CASE ProxyFails
    BY <2>9 DEF ProxyFails, device, notify, threads, others
  <2> QED BY <1>1, <2>1, <2>2, <2>3, <2>4, <2>5, <2>6, <2>7, <2>8, <2>9 DEF
     Handle, Background
<1>2. ASSUME NEW r \in Rec, HotplugStorm(r) \/ Recover(r) \/ Release(r)
      PROVE  AttemptsCounted'
  <2>1. CASE HotplugStorm(r)
    BY <2>1 DEF HotplugStorm, Goto, device, others
  <2>2. CASE Recover(r)
    BY <2>2 DEF Recover, Goto, device, notify, proxy
  <2>3. CASE Release(r)
    BY <2>3 DEF Release, Goto, notify, proxy, flap
  <2> QED BY <1>2, <2>1, <2>2, <2>3
<1>3. ASSUME NEW r \in Rec, Recovery(r) PROVE AttemptsCounted'
  <2>1. CASE Halt(r)
    BY <2>1 DEF Halt, Goto, device, notify, others
  <2>2. CASE Unbind(r)
    BY <2>2 DEF Unbind, Goto, Handled, flap, others
  <2>3. CASE UnbindUnnamed(r)
    BY <2>3 DEF UnbindUnnamed, Goto, Handled, device, notify, others
  <2>4. CASE GiveUp(r)
    BY <2>4 DEF GiveUp, Goto, device, notify, proxy, others
  <2>5. CASE Begin(r)
    BY <2>5 DEF Begin, Goto, device, notify, proxy, flap, others
  <2>6. CASE Retry(r)
    BY <2>6 DEF Retry, Goto, device, proxy, others
  <2>7. CASE Hold(r)
    BY <2>7 DEF Hold, Goto, proxy, flap, others
  <2>8. CASE HoldFails(r)
    BY <2>8 DEF HoldFails, Goto, device, notify, proxy, others
  <2>9. CASE Rebind(r)
    BY <2>9 DEF Rebind, Goto, notify, proxy, flap, others
  <2>10. CASE Resume(r)
    BY <2>10 DEF Resume, Goto, device, notify, proxy, others
  <2>11. CASE Resolve(r)
    BY <2>11 DEF Resolve, Goto, device, notify, flap, others
  <2>12. CASE ProbeOk(r)
    BY <2>12 DEF ProbeOk, Goto, notify, proxy, others
  <2>13. CASE ProbeFails(r)
    BY <2>13 DEF ProbeFails, Goto, notify, proxy, flap, others
  <2>14. CASE ProbeFailsStuck(r)
    BY <2>14 DEF ProbeFailsStuck, Goto, device, notify, proxy, others
  <2>15. CASE Unhold(r)
    BY <2>15 DEF Unhold, Goto, proxy, others
  <2>16. CASE Pulse(r)
    BY <2>16 DEF Pulse, Goto, proxy, others
  <2> QED BY <1>3, <2>1, <2>2, <2>3, <2>4, <2>5, <2>6, <2>7, <2>8, <2>9,
     <2>10, <2>11, <2>12, <2>13, <2>14, <2>15, <2>16 DEF Recovery
<1>4. ASSUME Crash \/ Reappear \/ Unplug \/ Plug \/ Wait PROVE AttemptsCounted'
  <2>1. CASE Crash
    BY <2>1 DEF Crash, proxy, flap, threads
  <2>2. CASE Reappear
    BY <2>2 DEF Reappear, proxy, flap, threads, others
  <2>3. CASE Unplug
    BY <2>3 DEF Unplug, proxy, flap, threads
  <2>4. CASE Plug
    BY <2>4 DEF Plug, proxy, flap, threads, others
  <2>5. CASE Wait
    BY <2>5 DEF Wait, device, proxy, flap, threads, others
  <2> QED BY <1>4, <2>1, <2>2, <2>3, <2>4, <2>5
<1>5. ASSUME UNCHANGED vars PROVE AttemptsCounted'
  BY <1>5 DEF vars, device, notify, proxy, flap, threads, others
<1> QED BY <1>1, <1>2, <1>3, <1>4, <1>5 DEF Next

\* FR-007: without confirmed wires the portal restarts the device at most
\* FLAP_MAX_RETRIES times since the last request of a user, whichever events,
\* polls and requests come between (portal.py, _recover_without_gpio).
THEOREM RetriesLimited == Spec => []RetryLimit
<1>1. Init => AttemptsCounted
  BY DEF Init, AttemptsCounted
<1>2. FlapIInv /\ AttemptsCounted /\ [Next]_vars => AttemptsCounted'
  BY AttemptsStep
<1>3. FlapIInv /\ AttemptsCounted => RetryLimit
  BY RetriesAssumption DEF FlapIInv, FlapInv, TypeOK, AttemptsCounted, RetryLimit
<1> QED BY <1>1, <1>2, <1>3, FlapIInvariant, PTL DEF Spec

-----------------------------------------------------------------------------
(* BOOT is released. *)

\* Only a recovery with wires drives BOOT; while the board has not answered, the
\* thread that drove it, or one that has overtaken it, has still to look.
BootWatched ==
    boot = "low" =>
        /\ wired
        /\ ~confirmed => \E r \in Rec : pc[r] \in {"rebind", "resume", "resolve", "probe"}

\* Every step that leaves the board unanswered releases BOOT, as long as the
\* pins can be driven.
LEMMA BootStep ==
    ASSUME TypeOK, BootWatched, [Next]_vars, ~PinFaults
    PROVE  BootWatched'
<1>6. pc \in [Rec -> Pc] /\ boot \in {"z", "low"}
  BY DEF TypeOK
<1> USE <1>6 DEF BootWatched
<1>1. ASSUME Handle \/ PollClears \/ Background PROVE BootWatched'
  <2>1. CASE HotplugIgnored
    BY <2>1 DEF HotplugIgnored, device, proxy, flap, threads, others
  <2>2. CASE HotplugAdd
    BY <2>2 DEF HotplugAdd, device, threads, others
  <2>3. CASE HotplugRemove
    BY <2>3 DEF HotplugRemove, device, threads, others
  <2>4. CASE PollClears
    BY <2>4 DEF PollClears, device, notify, threads, others
  <2>5. CASE Start
    BY <2>5 DEF Start, device, notify, threads, others
  <2>6. CASE Restart
    BY <2>6 DEF Restart, device, notify, flap, threads, others
  <2>7. CASE Stop
    BY <2>7 DEF Stop, device, notify, threads, others
  <2>8. CASE ProxyUp
    BY <2>8 DEF ProxyUp, device, notify, threads, others
  <2>9. CASE ProxyFails
    BY <2>9 DEF ProxyFails, device, notify, threads, others
  <2> QED BY <1>1, <2>1, <2>2, <2>3, <2>4, <2>5, <2>6, <2>7, <2>8, <2>9 DEF
     Handle, Background
<1>2. ASSUME NEW r \in Rec, HotplugStorm(r) \/ Recover(r) \/ Release(r)
      PROVE  BootWatched'
  <2>1. CASE HotplugStorm(r)
    BY <2>1 DEF HotplugStorm, Goto, device, others
  <2>2. CASE Recover(r)
    BY <2>2 DEF Recover, Goto, device, notify, proxy
  <2>3. CASE Release(r)
    BY <2>3 DEF Release, Goto, notify, proxy, flap
  <2> QED BY <1>2, <2>1, <2>2, <2>3
<1>3. ASSUME NEW r \in Rec, Recovery(r) PROVE BootWatched'
  <2>1. CASE Halt(r)
    BY <2>1 DEF Halt, Goto, device, notify, others
  <2>2. CASE Unbind(r)
    BY <2>2 DEF Unbind, Goto, Handled, flap, others
  <2>3. CASE UnbindUnnamed(r)
    BY <2>3 DEF UnbindUnnamed, Goto, Handled, device, notify, others
  <2>4. CASE GiveUp(r)
    BY <2>4 DEF GiveUp, Goto, device, notify, proxy, others
  <2>5. CASE Begin(r)
    BY <2>5 DEF Begin, Goto, device, notify, proxy, flap, others
  <2>6. CASE Retry(r)
    BY <2>6 DEF Retry, Goto, device, proxy, others
  <2>7. CASE Hold(r)
    BY <2>7 DEF Hold, Goto, proxy, flap, others
  <2>8. CASE HoldFails(r)
    BY <2>8 DEF HoldFails, Goto, device, notify, proxy, others
  <2>9. CASE Rebind(r)
    BY <2>9 DEF Rebind, Goto, notify, proxy, flap, others
  <2>10. CASE Resume(r)
    BY <2>10 DEF Resume, Goto, device, notify, proxy, others
  <2>11. CASE Resolve(r)
    BY <2>11 DEF Resolve, Goto, device, notify, flap, others
  <2>12. CASE ProbeOk(r)
    BY <2>12 DEF ProbeOk, Goto, notify, proxy, others
  <2>13. CASE ProbeFails(r)
    BY <2>13 DEF ProbeFails, Goto, notify, proxy, flap, others, BootReleased
  <2>14. CASE ProbeFailsStuck(r)
    BY <2>14 DEF ProbeFailsStuck, Goto, device, notify, proxy, others
  <2>15. CASE Unhold(r)
    BY <2>15 DEF Unhold, Goto, proxy, others
  <2>16. CASE Pulse(r)
    BY <2>16 DEF Pulse, Goto, proxy, others
  <2> QED BY <1>3, <2>1, <2>2, <2>3, <2>4, <2>5, <2>6, <2>7, <2>8, <2>9,
     <2>10, <2>11, <2>12, <2>13, <2>14, <2>15, <2>16 DEF Recovery
<1>4. ASSUME Crash \/ Reappear \/ Unplug \/ Plug \/ Wait PROVE BootWatched'
  <2>1. CASE Crash
    BY <2>1 DEF Crash, proxy, flap, threads
  <2>2. CASE Reappear
    BY <2>2 DEF Reappear, proxy, flap, threads, others
  <2>3. CASE Unplug
    BY <2>3 DEF Unplug, proxy, flap, threads
  <2>4. CASE Plug
    BY <2>4 DEF Plug, proxy, flap, threads, others
  <2>5. CASE Wait
    BY <2>5 DEF Wait, device, proxy, flap, threads, others
  <2> QED BY <1>4, <2>1, <2>2, <2>3, <2>4, <2>5
<1>5. ASSUME UNCHANGED vars PROVE BootWatched'
  BY <1>5 DEF vars, device, notify, proxy, flap, threads, others
<1> QED BY <1>1, <1>2, <1>3, <1>4, <1>5 DEF Next

\* Once no recovery is under way, BOOT is low only if the board has answered in
\* download mode: as long as pins can be driven, a failed attempt never leaves
\* the board unable to boot (portal.py, _recover_with_gpio).
THEOREM FailedAttemptReleasesBoot ==
    ASSUME ~PinFaults
    PROVE  Spec => []FailedReleasesBoot
<1>1. Init => BootWatched
  BY DEF Init, BootWatched
<1>2. TypeOK /\ BootWatched /\ [Next]_vars => BootWatched'
  BY BootStep
<1>3. BootWatched => FailedReleasesBoot
  BY DEF BootWatched, FailedReleasesBoot, AllIdle
<1>4. FlapInv => TypeOK
  BY DEF FlapInv
<1> QED BY <1>1, <1>2, <1>3, <1>4, FlapInvariant, PTL DEF Spec

-----------------------------------------------------------------------------
(* What the slot shows of its device. *)

\* What the portal holds of the device when it has dealt with what it has in
\* hand: the notification that set off a recovery says so, or else the slot.
Held ==
    IF \E r \in Rec : event[r] # "none" THEN \E r \in Rec : event[r] = "add"
    ELSE present

\* The newest notification tells the truth on its way and when it is dealt with.
LatestTrue ==
    /\ newest = "coming" => udev # <<>> /\ (udev[Len(udev)] = "add" <=> usb = "up")
    /\ newest = "heard" => (Held <=> usb = "up")

\* A notification that arrives leaves the newest the last on its way, or is the
\* newest itself; one that a recovery drops is never taken for it.
LEMMA ArrivesLatest ==
    ASSUME DataOK, LatestTrue, NEW e, Arrives(e)
    PROVE  /\ newest' = "coming" => udev' # <<>> /\ (udev'[Len(udev')] = "add" <=> usb = "up")
           /\ newest' = "heard" /\ ~recovering => (e = "add" <=> usb = "up")
           /\ newest' = "heard" /\ recovering => newest = "heard"
<1>1. udev \in Seq({"add", "remove"}) /\ newest \in {"coming", "heard", "past"}
  BY DEF DataOK
<1>2. PICK i \in 1..Len(udev) :
          udev[i] = e /\ udev' = RemoveAt(udev, i) /\ newest' = After(i)
  BY DEF Arrives
<1>3. CASE newest = "coming" /\ i # Len(udev)
  <2>1. udev' # <<>> /\ udev'[Len(udev')] = udev[Len(udev)] /\ newest' = "coming"
    BY <1>1, <1>2, <1>3, RemoveKeepsLast DEF After
  <2> QED BY <1>3, <2>1 DEF LatestTrue
<1>4. CASE newest = "coming" /\ i = Len(udev)
  <2>1. newest' = IF recovering THEN "past" ELSE "heard"
    BY <1>2, <1>4 DEF After
  <2> QED BY <1>2, <1>4, <2>1 DEF LatestTrue
<1>5. CASE newest # "coming"
  <2>1. newest' = IF recovering THEN newest ELSE "past"
    BY <1>2, <1>5 DEF After
  <2> QED BY <1>1, <1>5, <2>1
<1> QED BY <1>3, <1>4, <1>5

\* Whoever changes the device and notifies the portal of it is believed.
LEMMA LatestAppended ==
    ASSUME DataOK, NEW e \in {"add", "remove"}, Notify(e), usb' = "up" <=> e = "add"
    PROVE  LatestTrue'
<1>1. udev \in Seq({"add", "remove"}) /\ Len(udev) \in Nat
  BY LenProperties DEF DataOK
<1>2. Len(udev') = Len(udev) + 1 /\ udev'[Len(udev')] = e /\ udev' # <<>>
  <2>1. Len(udev') = Len(udev) + 1 /\ udev'[Len(udev) + 1] = e
    BY <1>1, AppendProperties DEF Notify
  <2> QED BY <1>1, <2>1, EmptySeq
<1> QED BY <1>2 DEF LatestTrue, Notify

\* A pulse on EN leaves the device alone, or drops it off the bus with notice.
LEMMA PulseLatest ==
    ASSUME DataOK, LatestTrue, PulseEn, UNCHANGED <<present, event>>
    PROVE  LatestTrue'
<1>1. CASE usb' = usb
  <2>1. Silent
    BY <1>1 DEF PulseEn
  <2> QED BY <1>1, <2>1 DEF LatestTrue, Held, Silent
<1>2. CASE usb' # usb
  <2>1. Notify("remove") /\ usb' # "up"
    BY <1>2 DEF PulseEn
  <2> QED BY <2>1, LatestAppended
<1> QED BY <1>1, <1>2

\* The event that set off a storm is dealt with once, after the unbind.
LEMMA HandledLatest ==
    ASSUME FlapInv, LatestTrue, NEW r \in Rec, pc[r] = "unbind", Handled(r),
           UNCHANGED usb, Silent
    PROVE  LatestTrue'
<1>1. event \in [Rec -> {"add", "remove", "none"}]
  BY DEF FlapInv, TypeOK
<1>2. \A q \in Rec : q # r => event[q] = "none"
  BY DEF FlapInv, Shown
<1>3. \A q \in Rec : event'[q] = "none"
  BY <1>1, <1>2 DEF Handled
<1>4. CASE event[r] = "none"
  BY <1>2, <1>3, <1>4 DEF Handled, LatestTrue, Held, Silent
<1>5. CASE event[r] # "none"
  <2>1. present' <=> event[r] = "add"
    BY <1>5 DEF Handled, PresentAfter
  <2> QED BY <1>2, <1>3, <1>5, <2>1 DEF LatestTrue, Held, Silent
<1> QED BY <1>4, <1>5

\* Every step that tells the portal nothing leaves the device where it was.
LEMMA LatestStep ==
    ASSUME FlapIInv, LatestTrue, [Next]_vars
    PROVE  LatestTrue'
<1>0. FlapInv /\ DataOK /\ \A r \in Rec : event[r] # "none" => recovering
  BY DEF FlapIInv, FlapInv, TypeOK, DataOK, Shown
<1>6. event \in [Rec -> {"add", "remove", "none"}] /\ pc \in [Rec -> Pc]
  BY DEF FlapIInv, FlapInv, TypeOK
<1> USE <1>0, <1>6
<1>1. ASSUME Handle \/ PollClears \/ Background PROVE LatestTrue'
  <2>1. CASE HotplugIgnored
    <3>1. recovering /\ present' = present /\ event' = event /\ usb' = usb
      BY <2>1 DEF HotplugIgnored, device, proxy, threads
    <3>2. PICK e \in {"add", "remove"} : Arrives(e)
      BY <2>1 DEF HotplugIgnored
    <3> QED BY <3>1, <3>2, ArrivesLatest DEF LatestTrue, Held
  <2>2. CASE HotplugAdd
    <3>1. Arrives("add") /\ ~recovering
      BY <2>2 DEF HotplugAdd
    <3>2. \A r \in Rec : event[r] = "none"
      BY <3>1
    <3>3. present' = TRUE /\ event' = event /\ usb' = usb
      BY <2>2 DEF HotplugAdd, PresentAfter, device, threads, others
    <3> QED BY <3>1, <3>2, <3>3, ArrivesLatest DEF LatestTrue, Held
  <2>3. CASE HotplugRemove
    <3>1. Arrives("remove") /\ ~recovering
      BY <2>3 DEF HotplugRemove
    <3>2. \A r \in Rec : event[r] = "none"
      BY <3>1
    <3>3. present' = FALSE /\ event' = event /\ usb' = usb
      BY <2>3 DEF HotplugRemove, PresentAfter, device, threads, others
    <3> QED BY <3>1, <3>2, <3>3, ArrivesLatest DEF LatestTrue, Held
  <2>4. CASE PollClears
    BY <2>4 DEF PollClears, device, notify, threads, others, LatestTrue,
       Held
  <2>5. CASE Start
    BY <2>5 DEF Start, device, notify, threads, others, LatestTrue, Held
  <2>6. CASE Restart
    BY <2>6 DEF Restart, device, notify, flap, threads, others, LatestTrue,
       Held
  <2>7. CASE Stop
    BY <2>7 DEF Stop, device, notify, threads, others, LatestTrue, Held
  <2>8. CASE ProxyUp
    BY <2>8 DEF ProxyUp, device, notify, threads, others, LatestTrue, Held
  <2>9. CASE ProxyFails
    BY <2>9 DEF ProxyFails, device, notify, threads, others, LatestTrue,
       Held
  <2> QED BY <1>1, <2>1, <2>2, <2>3, <2>4, <2>5, <2>6, <2>7, <2>8, <2>9 DEF
     Handle, Background
<1>2. ASSUME NEW r \in Rec, HotplugStorm(r) \/ Recover(r) \/ Release(r)
      PROVE  LatestTrue'
  <2>1. CASE HotplugStorm(r)
    <3>1. PICK e \in {"add", "remove"} : Arrives(e) /\ event' = [event EXCEPT ![r] = e]
      BY <2>1 DEF HotplugStorm
    <3>2. \A q \in Rec : event[q] = "none"
      BY <2>1 DEF HotplugStorm
    <3>3. present' = present /\ usb' = usb
      BY <2>1 DEF HotplugStorm, device, others
    <3>4. event'[r] = e /\ \A q \in Rec : q # r => event'[q] = "none"
      BY <3>1, <3>2
    <3>5. ~recovering
      BY <2>1 DEF HotplugStorm
    <3>6. Held' <=> e = "add"
      <4>1. CASE e = "add"
        BY <3>4, <4>1 DEF Held
      <4>2. CASE e = "remove"
        BY <3>4, <4>2 DEF Held
      <4> QED BY <3>1, <4>1, <4>2
    <3>7. /\ newest' = "coming" => udev' # <<>> /\ (udev'[Len(udev')] = "add" <=> usb = "up")
          /\ newest' = "heard" => (e = "add" <=> usb = "up")
      BY <3>1, <3>5, ArrivesLatest
    <3> QED BY <3>3, <3>6, <3>7 DEF LatestTrue
  <2>2. CASE Recover(r)
    BY <2>2 DEF Recover, Goto, device, notify, proxy, LatestTrue, Held
  <2>3. CASE Release(r)
    BY <2>3 DEF Release, Goto, notify, proxy, flap, LatestTrue, Held
  <2> QED BY <1>2, <2>1, <2>2, <2>3
<1>3. ASSUME NEW r \in Rec, Recovery(r) PROVE LatestTrue'
  <2>1. CASE Halt(r)
    BY <2>1 DEF Halt, Goto, device, notify, others, LatestTrue, Held
  <2>2. CASE Unbind(r)
    <3>1. CASE usb = "up"
      <4>1. Notify("remove") /\ usb' # "up"
        BY <2>2, <3>1 DEF Unbind
      <4> QED BY <4>1, LatestAppended
    <3>2. CASE usb # "up"
      <4>1. Silent /\ usb' = usb /\ pc[r] = "unbind"
        BY <2>2, <3>2 DEF Unbind, others
      <4> QED BY <2>2, <4>1, HandledLatest DEF Unbind
    <3> QED BY <3>1, <3>2
  <2>3. CASE UnbindUnnamed(r)
    <3>1. Silent /\ usb' = usb /\ pc[r] = "unbind"
      BY <2>3 DEF UnbindUnnamed, device, notify, Silent
    <3> QED BY <2>3, <3>1, HandledLatest DEF UnbindUnnamed
  <2>4. CASE GiveUp(r)
    BY <2>4 DEF GiveUp, Goto, device, notify, proxy, others, LatestTrue,
       Held
  <2>5. CASE Begin(r)
    BY <2>5 DEF Begin, Goto, device, notify, proxy, flap, others, LatestTrue,
       Held
  <2>6. CASE Retry(r)
    BY <2>6 DEF Retry, Goto, device, proxy, others, LatestTrue, Held
  <2>7. CASE Hold(r)
    <3>1. PulseEn
      BY <2>7 DEF Hold
    <3>2. present' = present /\ event' = event
      BY <2>7 DEF Hold, proxy, others
    <3> QED BY <3>1, <3>2, PulseLatest
  <2>8. CASE HoldFails(r)
    BY <2>8 DEF HoldFails, Goto, device, notify, proxy, others, LatestTrue,
       Held
  <2>9. CASE Rebind(r)
    BY <2>9 DEF Rebind, Goto, notify, proxy, flap, others, LatestTrue, Held
  <2>10. CASE Resume(r)
    BY <2>10 DEF Resume, Goto, device, notify, proxy, others, LatestTrue,
       Held
  <2>11. CASE Resolve(r)
    BY <2>11 DEF Resolve, Goto, device, notify, flap, others, LatestTrue,
       Held
  <2>12. CASE ProbeOk(r)
    BY <2>12 DEF ProbeOk, Goto, notify, proxy, others, LatestTrue, Held
  <2>13. CASE ProbeFails(r)
    BY <2>13 DEF ProbeFails, Goto, notify, proxy, flap, others, LatestTrue,
       Held
  <2>14. CASE ProbeFailsStuck(r)
    BY <2>14 DEF ProbeFailsStuck, Goto, device, notify, proxy, others,
       LatestTrue, Held
  <2>15. CASE Unhold(r)
    <3>1. PulseEn
      BY <2>15 DEF Unhold
    <3>2. present' = present /\ event' = event
      BY <2>15 DEF Unhold, proxy, others
    <3> QED BY <3>1, <3>2, PulseLatest
  <2>16. CASE Pulse(r)
    <3>1. PulseEn
      BY <2>16 DEF Pulse
    <3>2. present' = present /\ event' = event
      BY <2>16 DEF Pulse, proxy, others
    <3> QED BY <3>1, <3>2, PulseLatest
  <2> QED BY <1>3, <2>1, <2>2, <2>3, <2>4, <2>5, <2>6, <2>7, <2>8, <2>9,
     <2>10, <2>11, <2>12, <2>13, <2>14, <2>15, <2>16 DEF Recovery
<1>4. ASSUME Crash \/ Reappear \/ Unplug \/ Plug \/ Wait PROVE LatestTrue'
  <2>1. CASE Crash
    <3>1. Notify("remove") /\ usb' # "up"
      BY <2>1 DEF Crash
    <3> QED BY <3>1, LatestAppended
  <2>2. CASE Reappear
    <3>1. Notify("add") /\ usb' = "up"
      BY <2>2 DEF Reappear
    <3> QED BY <3>1, LatestAppended
  <2>3. CASE Unplug
    <3>1. CASE usb = "up"
      <4>1. Notify("remove") /\ usb' # "up"
        BY <2>3, <3>1 DEF Unplug
      <4> QED BY <4>1, LatestAppended
    <3>2. CASE usb # "up"
      <4>1. usb' # "up" /\ Silent /\ UNCHANGED <<present, event>>
        BY <2>3, <3>2 DEF Unplug, proxy, threads
      <4> QED BY <3>2, <4>1 DEF LatestTrue, Held, Silent
    <3> QED BY <3>1, <3>2
  <2>4. CASE Plug
    <3>1. Notify("add") /\ usb' = "up"
      BY <2>4 DEF Plug
    <3> QED BY <3>1, LatestAppended
  <2>5. CASE Wait
    BY <2>5 DEF Wait, device, proxy, flap, threads, others, LatestTrue, Held
  <2> QED BY <1>4, <2>1, <2>2, <2>3, <2>4, <2>5
<1>5. ASSUME UNCHANGED vars PROVE LatestTrue'
  BY <1>5 DEF vars, device, notify, proxy, flap, threads, others, LatestTrue, Held
<1> QED BY <1>1, <1>2, <1>3, <1>4, <1>5 DEF Next

\* Whichever notifications were dropped by recoveries or overtook each other,
\* the slot is present exactly when the device has its node once the newest of
\* them is dealt with in its turn and no work is left (portal.py,
\* _handle_hotplug).
THEOREM NewestSettlesPresence == Spec => []PresentSettles
<1>1. Init => LatestTrue
  BY DEF Init, LatestTrue, Held
<1>2. FlapIInv /\ LatestTrue /\ [Next]_vars => LatestTrue'
  BY LatestStep
<1>3. FlapIInv /\ LatestTrue => PresentSettles
  BY DEF FlapIInv, FlapInv, LatestTrue, Held, PresentSettles, PresentAgrees, AllIdle
<1> QED BY <1>1, <1>2, <1>3, FlapIInvariant, PTL DEF Spec
=============================================================================
