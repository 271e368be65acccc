--------------------------- MODULE SdrDongle_proofs ---------------------------
(* The receiver, for any threads, any number of requests and of captures: its   *)
(* inductive invariant, and that one process at most receives.                  *)
EXTENDS SdrDongle, SequenceTheorems, TLAPS

\* The two halves of the type invariant: the dongle's state and the threads'.
DongleOK ==
    /\ holder \in Thread \cup {None, "live"} /\ admin \in Thread \cup {None}
    /\ owns \in BOOLEAN /\ running \in BOOLEAN /\ shot \in BOOLEAN
    /\ sessions \in Nat /\ live \in 0..sessions
    /\ up \in SUBSET (1..sessions) /\ readers \in SUBSET (1..sessions)
    /\ state \in {None, "live", "shot"}
ThreadsOK ==
    /\ todo \in [Thread -> Seq(Call)] /\ at \in [Thread -> Place]
    /\ retried \in [Thread -> BOOLEAN] /\ refused \in [Thread -> BOOLEAN]
    /\ swept \in BOOLEAN /\ requests \in Nat

LEMMA TypeHalves == (TypeOK <=> DongleOK /\ ThreadsOK) /\ (DongleOK' /\ ThreadsOK' => TypeOK')
BY DEF TypeOK, DongleOK, ThreadsOK

LEMMA Constants == "live" \notin Thread /\ None \notin Thread /\ None # "live"
BY NoneAssumption

LEMMA SdrInit == Init => SdrInv
<1> SUFFICES ASSUME Init PROVE SdrInv
  OBVIOUS
<1>1. DongleOK
  <2>1. sessions = 0 /\ live = 0 /\ up = {} /\ readers = {}
    BY DEF Init
  <2>2. sessions \in Nat /\ live \in 0..sessions
    BY <2>1
  <2>3. up \in SUBSET (1..sessions) /\ readers \in SUBSET (1..sessions)
    BY <2>1
  <2>4. QED
    BY <2>2, <2>3 DEF Init, DongleOK
<1>2. ThreadsOK
  <2>1. <<>> \in Seq(Call)
    OBVIOUS
  <2>2. todo \in [Thread -> Seq(Call)]
    BY <2>1 DEF Init
  <2>3. at \in [Thread -> Place]
    BY DEF Init, Place
  <2>4. QED
    BY <2>2, <2>3 DEF Init, ThreadsOK
<1>3. LockInv
  BY Constants DEF Init, LockInv, Starting
<1>4. OneReceiver
  BY DEF Init, OneReceiver
<1>5. QED
  BY <1>1, <1>2, <1>3, <1>4, TypeHalves DEF SdrInv

-----------------------------------------------------------------------------
\* Every handler's program is a sequence of calls.
LEMMA ProgramType ==
    ASSUME NEW r \in Posted, NEW calls \in Program(r)
    PROVE  calls \in Seq(Call)
<1>1. LiveStatus \in Seq(Call) /\ Stop \in Seq(Call)
  BY DEF LiveStatus, Stop, Call
<1>2. <<"cleanup">> \in Seq(Call) /\ <<"start">> \in Seq(Call) /\ <<"shot">> \in Seq(Call)
      /\ <<"swept">> \in Seq(Call) /\ <<"reset", "detect", "probe">> \in Seq(Call)
  BY DEF Call
<1>3. StopLive \in Seq(Call)
  BY <1>1, <1>2, ConcatProperties DEF StopLive
<1>4. StopLive \o Stop \in Seq(Call)
  BY <1>1, <1>3, ConcatProperties
<1>5. BenchCalls \in Seq(Call)
  BY <1>2, <1>4, ConcatProperties DEF BenchCalls
<1>6. <<"start">> \o LiveStatus \in Seq(Call) /\ StopLive \o <<"reset", "detect", "probe">> \in Seq(Call)
  BY <1>1, <1>2, <1>3, ConcatProperties
<1>7. ASSUME NEW s \in AcquireCalls PROVE s \in Seq(Call)
  <2>1. PICK n \in 1..Phases : s = [i \in 1..n |-> "shot"]
    BY <1>7 DEF AcquireCalls
  <2>2. n \in Nat /\ s \in [1..n -> Call]
    BY <2>1, CountAssumption DEF Call
  <2>3. QED
    BY <2>2
<1>8. r \in {"start_live", "stop_live", "live", "capture", "acquire", "stop", "reset", "bench"}
  BY PostedAssumption
<1>9. QED
  BY <1>1, <1>2, <1>3, <1>5, <1>6, <1>7, <1>8 DEF Program, OneShot

\* Moving on inside a call, and ending it, keep the threads' types.
LEMMA GotoThreads ==
    ASSUME ThreadsOK, NEW t \in Thread, NEW l \in Place, Goto(t, l)
    PROVE  ThreadsOK'
BY DEF ThreadsOK, Goto

LEMMA ReturnThreads ==
    ASSUME ThreadsOK, NEW t \in Thread, todo[t] # <<>>, Return(t)
    PROVE  ThreadsOK'
<1>1. Tail(todo[t]) \in Seq(Call)
  BY HeadTailProperties DEF ThreadsOK
<1>2. QED
  BY <1>1 DEF ThreadsOK, Return, Continue, Place

LEMMA RaiseThreads ==
    ASSUME ThreadsOK, NEW t \in Thread, Raise(t) \/ Busy(t)
    PROVE  ThreadsOK'
<1>1. <<>> \in Seq(Call)
  OBVIOUS
<1>2. QED
  BY <1>1 DEF ThreadsOK, Raise, Busy, Continue, Place

\* The cleanup under _live_admin leaves no receiver of the console's, and gives back
\* the lock only if the console has it.
LEMMA CleanupDongle ==
    ASSUME SdrInv, Cleanup, admin' \in Thread \cup {None}
    PROVE  /\ DongleOK' /\ up' = {} /\ live' = 0 /\ owns' = FALSE /\ shot' = shot
           /\ holder' # "live" /\ \A t \in Thread : holder' = t <=> holder = t
<1>1. up \subseteq {live}
  BY DEF SdrInv, OneReceiver
<1>2. up' = {} /\ live' = 0 /\ owns' = FALSE /\ shot' = shot
  BY <1>1 DEF Cleanup
<1>3. holder' # "live" /\ \A t \in Thread : holder' = t <=> holder = t
  BY Constants DEF Cleanup, Released, SdrInv, LockInv
<1>4. holder' \in Thread \cup {None, "live"}
  BY DEF Cleanup, Released, SdrInv, TypeOK
<1>5. DongleOK'
  <2>1. sessions' = sessions /\ readers' = readers /\ running' = FALSE /\ state' = None
    BY DEF Cleanup
  <2>2. sessions' \in Nat /\ live' \in 0..sessions' /\ readers' \in SUBSET (1..sessions')
    BY <1>2, <2>1 DEF SdrInv, TypeOK
  <2>3. shot' \in BOOLEAN /\ up' \in SUBSET (1..sessions')
    BY <1>2 DEF SdrInv, TypeOK
  <2>4. QED
    BY <1>2, <1>4, <2>1, <2>2, <2>3 DEF DongleOK
<1>6. QED
  BY <1>2, <1>3, <1>5

\* The console's lock and receiver are untouched by whoever only moves between
\* places that no lock is tied to.
Free == Place \ ({"locked", "launched", "capture", "release", "usb"} \cup Starting)

LEMMA MoveKeeps ==
    ASSUME SdrInv, NEW t \in Thread, NEW l \in Free, at[t] \in Free,
           at' = [at EXCEPT ![t] = l], ThreadsOK',
           l \notin {"idle", "call"} => todo'[t] # <<>>,
           \A u \in Thread \ {t} : todo'[u] = todo[u],
           UNCHANGED <<holder, admin, console, state, shot>>
    PROVE  SdrInv'
<1> USE DEF SdrInv, console
<1>1. DongleOK'
  BY DEF TypeOK, DongleOK
<1>2. at \in [Thread -> Place]
  BY DEF TypeOK
<1>3. LockInv'
  BY <1>2 DEF LockInv, Free, Starting
<1>4. OneReceiver'
  BY <1>2 DEF OneReceiver, Free
<1>5. QED
  BY <1>1, <1>3, <1>4, TypeHalves

\* Any cleanup by a thread that may be in _live_admin leaves nobody in it, or the
\* thread itself where it resets the dongle.
LEMMA CleanupKeeps ==
    ASSUME SdrInv, Cleanup, NEW t \in Thread, NEW l \in {"call", "usb"},
           admin \in {t, None}, admin' = IF l = "usb" THEN t ELSE None,
           at[t] \notin {"locked", "launched", "capture", "release"}, at' = [at EXCEPT ![t] = l], ThreadsOK',
           l = "usb" => todo'[t] # <<>>,
           \A u \in Thread \ {t} : todo'[u] = todo[u]
    PROVE  SdrInv'
<1>1. admin' \in Thread \cup {None}
  OBVIOUS
<1>2. /\ DongleOK' /\ up' = {} /\ live' = 0 /\ owns' = FALSE /\ shot' = shot
      /\ holder' # "live" /\ \A u \in Thread : holder' = u <=> holder = u
  BY <1>1, CleanupDongle
<1>3. at \in [Thread -> Place]
  BY DEF SdrInv, TypeOK
<1>4. \A u \in Thread \ {t} : at[u] \notin Starting \cup {"usb"} /\ at'[u] = at[u]
  BY <1>3, Constants DEF SdrInv, LockInv
<1>5. at'[t] = l
  BY <1>3
<1>6. LockInv'
  <2>1. owns' <=> holder' = "live"
    BY <1>2
  <2>2. \A u \in Thread : holder' = u <=> at'[u] \in {"locked", "launched", "capture", "release"}
    BY <1>2, <1>4, <1>5 DEF SdrInv, LockInv
  <2>3. \A u \in Thread : admin' = u <=> at'[u] \in Starting \cup {"usb"}
    BY <1>4, <1>5, Constants DEF Starting
  <2>4. \A u \in Thread : at'[u] \notin Starting
    BY <1>4, <1>5 DEF Starting
  <2>5. \A u \in Thread : at'[u] \notin {"idle", "call"} => todo'[u] # <<>>
    BY <1>4, <1>5 DEF SdrInv, LockInv
  <2>6. QED
    BY <1>2, <2>1, <2>2, <2>3, <2>4, <2>5 DEF LockInv, Starting
<1>7. OneReceiver'
  <2>1. ASSUME shot' PROVE \E u \in Thread : holder' = u /\ at'[u] \in {"launched", "capture"}
    <3>1. PICK u \in Thread : holder = u /\ at[u] \in {"launched", "capture"}
      BY <1>2, <2>1 DEF SdrInv, OneReceiver
    <3>2. u # t
      BY <3>1
    <3>3. QED
      BY <1>2, <1>4, <3>1, <3>2
  <2>2. QED
    BY <1>2, <2>1 DEF OneReceiver
<1>8. QED
  BY <1>2, <1>6, <1>7, TypeHalves DEF SdrInv

-----------------------------------------------------------------------------
\* The requests and the steps that touch neither lock nor dongle.
LEMMA PostKeeps == ASSUME SdrInv, NEW t \in Thread, Post(t) PROVE SdrInv'
<1>1. PICK r \in Posted : \E calls \in Program(r) : todo' = [todo EXCEPT ![t] = calls]
  BY DEF Post
<1>2. PICK calls \in Program(r) : calls \in Seq(Call) /\ todo' = [todo EXCEPT ![t] = calls]
  BY <1>1, ProgramType
<1>3. ThreadsOK'
  <2>1. todo' \in [Thread -> Seq(Call)]
    BY <1>2 DEF SdrInv, TypeOK
  <2>2. at' \in [Thread -> Place] /\ requests' \in Nat
    BY DEF Post, SdrInv, TypeOK, Place
  <2>3. retried' \in [Thread -> BOOLEAN] /\ refused' \in [Thread -> BOOLEAN]
    BY DEF Post, SdrInv, TypeOK
  <2>4. QED
    BY <2>1, <2>2, <2>3 DEF Post, ThreadsOK
<1>4. QED
  BY <1>2, <1>3, MoveKeeps DEF Post, Free, Place, Starting, SdrInv, TypeOK

LEMMA ReplyKeeps == ASSUME SdrInv, NEW t \in Thread, Reply(t) PROVE SdrInv'
<1>1. <<>> \in Seq(Call)
  OBVIOUS
<1>2. ThreadsOK'
  BY <1>1 DEF Reply, SdrInv, TypeOK, ThreadsOK, Place
<1>3. QED
  BY <1>2, MoveKeeps DEF Reply, Free, Place, Starting, SdrInv, TypeOK

LEMMA GotoKeeps ==
    ASSUME SdrInv, NEW t \in Thread, at[t] \in Free, todo[t] # <<>>,
           NEW l \in {"admin", "reaping", "ready", "probing", "barrier", "waiting"}, Goto(t, l),
           UNCHANGED <<holder, admin, console, state, shot>>
    PROVE  SdrInv'
<1>1. l \in Free /\ l \in Place
  BY DEF Free, Place, Starting
<1>2. ThreadsOK'
  BY <1>1, GotoThreads, TypeHalves DEF SdrInv
<1>3. QED
  BY <1>1, <1>2, MoveKeeps DEF Goto

LEMMA ReturnKeeps ==
    ASSUME SdrInv, NEW t \in Thread, at[t] \in Free, todo[t] # <<>>, Return(t) \/ Raise(t) \/ Busy(t),
           UNCHANGED <<holder, admin, console, state, shot>>
    PROVE  SdrInv'
<1>1. ThreadsOK'
  BY ReturnThreads, RaiseThreads, TypeHalves DEF SdrInv
<1>2. /\ "call" \in Free /\ at' = [at EXCEPT ![t] = "call"]
      /\ \A u \in Thread \ {t} : todo'[u] = todo[u]
  BY DEF Free, Place, Starting, Return, Raise, Busy, Continue, SdrInv, TypeOK
<1>3. QED
  BY <1>1, <1>2, MoveKeeps

\* Where a thread is when it makes a call.
LEMMA DoingFree ==
    ASSUME NEW t \in Thread, NEW c, Doing(t, c)
    PROVE  at[t] = "call" /\ at[t] \in Free /\ todo[t] # <<>>
BY DEF Doing, Free, Place, Starting

LEMMA ReadyFree ==
    ASSUME SdrInv, NEW t \in Thread, NEW c, Ready(t, c)
    PROVE  at[t] \in {"call", "ready"} /\ at[t] \in Free /\ todo[t] # <<>>
BY DoingFree DEF Ready, Free, Place, Starting, SdrInv, LockInv

LEMMA FreeSteps ==
    ASSUME SdrInv, NEW t \in Thread,
           \/ Requires(t) \/ Start(t) \/ Reap(t) \/ Probe(t) \/ ProbeEnds(t)
           \/ Detect(t) \/ HaltLooks(t)
    PROVE  SdrInv'
<1>1. CASE Start(t)
  BY <1>1, ReadyFree, GotoKeeps, ReturnKeeps DEF Start
<1>2. CASE Reap(t)
  BY <1>2, DoingFree, GotoKeeps, ReturnKeeps DEF Reap
<1>3. CASE Probe(t)
  BY <1>3, DoingFree, GotoKeeps, ReturnKeeps DEF Probe
<1>4. ASSUME at[t] \in {"probing", "barrier"} PROVE at[t] \in Free /\ todo[t] # <<>>
  BY <1>4 DEF Free, Place, Starting, SdrInv, LockInv
<1>5. CASE ProbeEnds(t)
  BY <1>4, <1>5, ReturnKeeps DEF ProbeEnds
<1>6. CASE HaltLooks(t)
  BY <1>4, <1>6, GotoKeeps, ReturnKeeps DEF HaltLooks
<1>7. CASE Requires(t)
  BY <1>7, DoingFree, GotoKeeps DEF Requires
<1>8. CASE Detect(t)
  BY <1>8, DoingFree, GotoKeeps DEF Detect
<1>9. QED
  BY <1>1, <1>2, <1>3, <1>5, <1>6, <1>7, <1>8

-----------------------------------------------------------------------------
\* The console's steps, in _live_admin.
LEMMA CleanupSteps ==
    ASSUME SdrInv, NEW t \in Thread, CleanupCall(t) \/ ReapCleans(t)
    PROVE  SdrInv'
<1>1. /\ at[t] \in {"call", "reaping"} /\ todo[t] # <<>> /\ admin = None
      /\ Cleanup /\ Return(t) /\ admin' = None
  BY DEF CleanupCall, ReapCleans, Doing, SdrInv, LockInv
<1>2. ThreadsOK'
  BY <1>1, ReturnThreads, TypeHalves DEF SdrInv
<1>3. at' = [at EXCEPT ![t] = "call"] /\ \A u \in Thread \ {t} : todo'[u] = todo[u]
  BY <1>1 DEF Return, Continue, SdrInv, TypeOK
<1>4. QED
  BY <1>1, <1>2, <1>3, CleanupKeeps

\* The end of a call that has failed inside _live_admin.
LEMMA CleanupRaises ==
    ASSUME SdrInv, NEW t \in Thread, at[t] \in Starting \cup {"usb"}, Cleanup, admin' = None,
           Raise(t) \/ Busy(t)
    PROVE  SdrInv'
<1>1. admin = t /\ at[t] \notin {"locked", "launched", "capture", "release"}
  BY DEF SdrInv, LockInv, Starting
<1>2. ThreadsOK'
  BY RaiseThreads, TypeHalves DEF SdrInv
<1>3. at' = [at EXCEPT ![t] = "call"] /\ \A u \in Thread \ {t} : todo'[u] = todo[u]
  BY DEF Raise, Busy, Continue, SdrInv, TypeOK
<1>4. QED
  BY <1>1, <1>2, <1>3, CleanupKeeps

\* Taking the lock for the console: nothing receives, and no thread has it.
LEMMA ConsoleLocks ==
    ASSUME SdrInv, NEW t \in Thread, holder = None, holder' = "live", owns' = TRUE,
           admin \in {t, None}, admin' = t, at[t] \notin {"locked", "launched", "capture", "release"},
           todo[t] # <<>>, todo' = todo, at' = [at EXCEPT ![t] = "spawn"], ThreadsOK',
           UNCHANGED <<live, up, readers, running, sessions, state, shot>>
    PROVE  SdrInv'
<1>1. at \in [Thread -> Place] /\ at'[t] = "spawn" /\ \A u \in Thread \ {t} : at'[u] = at[u]
  BY DEF SdrInv, TypeOK
<1>2. up = {} /\ owns = FALSE /\ ~shot
  BY Constants DEF SdrInv, TypeOK, OneReceiver, LockInv
<1>3. \A u \in Thread \ {t} : at[u] \notin Starting \cup {"usb", "locked", "launched", "capture", "release"}
  BY Constants DEF SdrInv, LockInv
<1>4. DongleOK'
  BY <1>2 DEF SdrInv, TypeOK, DongleOK
<1>5. LockInv'
  <2>1. \A u \in Thread : at'[u] \notin {"usb", "locked", "launched", "capture", "release"}
    BY <1>1, <1>3
  <2>2. \A u \in Thread : at'[u] \in Starting <=> u = t
    BY <1>1, <1>3 DEF Starting
  <2>3. \A u \in Thread : at'[u] \notin {"idle", "call"} => todo'[u] # <<>>
    BY <1>1 DEF SdrInv, LockInv
  <2>4. QED
    BY <1>2, <2>1, <2>2, <2>3, Constants DEF LockInv, Starting
<1>6. OneReceiver'
  BY <1>2 DEF OneReceiver
<1>7. QED
  BY <1>4, <1>5, <1>6, TypeHalves DEF SdrInv

LEMMA StartLocksKeeps == ASSUME SdrInv, NEW t \in Thread, StartLocks(t) PROVE SdrInv'
<1>1. at[t] = "admin" /\ admin = None /\ todo[t] # <<>>
  BY DEF StartLocks, SdrInv, LockInv
<1>2. CASE holder # None
  <2>1. at[t] \in Free
    BY <1>1 DEF Free, Place, Starting
  <2>2. QED
    BY <1>1, <1>2, <2>1, ReturnKeeps DEF StartLocks, console
<1>3. CASE holder = None
  <2>1. Goto(t, "spawn") /\ ThreadsOK'
    BY <1>3, GotoThreads, TypeHalves DEF StartLocks, SdrInv, Place
  <2>2. QED
    BY <1>1, <1>3, <2>1, ConsoleLocks DEF StartLocks, Goto
<1>4. QED
  BY <1>2, <1>3

LEMMA StartRetriesKeeps == ASSUME SdrInv, NEW t \in Thread, StartRetries(t) PROVE SdrInv'
<1>1. at[t] = "usb" /\ admin = t /\ todo[t] # <<>>
  BY DEF StartRetries, SdrInv, LockInv
<1>2. CASE holder = None /\ holder' = "live"
  <2>1. /\ holder = None /\ holder' = "live" /\ owns' = TRUE
        /\ retried' = [retried EXCEPT ![t] = TRUE] /\ at' = [at EXCEPT ![t] = "spawn"]
        /\ UNCHANGED <<admin, live, up, readers, running, sessions, state, shot,
                       todo, refused, swept, requests>>
    BY <1>2, Constants DEF StartRetries, Cleanup, Released, SdrInv, LockInv
  <2>2. ThreadsOK'
    BY <2>1 DEF SdrInv, TypeOK, ThreadsOK, Place
  <2>3. QED
    BY <1>1, <2>1, <2>2, ConsoleLocks
<1>3. CASE Cleanup /\ admin' = None /\ (Raise(t) \/ Busy(t))
  BY <1>1, <1>3, CleanupRaises DEF Starting
<1>4. QED
  BY <1>2, <1>3 DEF StartRetries

\* A session's process is the only one: none was there when it was launched.
LEMMA SpawnKeeps == ASSUME SdrInv, NEW t \in Thread, Spawn(t) PROVE SdrInv'
<1>1. at[t] = "spawn" /\ admin = t /\ todo[t] # <<>> /\ owns /\ holder = "live" /\ up = {}
  BY DEF Spawn, SdrInv, LockInv, Starting
<1>2. CASE Cleanup /\ admin' = None /\ Raise(t)
  BY <1>1, <1>2, CleanupRaises DEF Starting
<1>3. CASE /\ sessions' = sessions + 1 /\ live' = sessions'
           /\ up' = up \cup {sessions'} /\ readers' = readers \cup {sessions'}
           /\ running' = TRUE /\ state' = "live" /\ Goto(t, "settle")
           /\ UNCHANGED <<holder, owns, admin, shot>>
  <2>1. ThreadsOK'
    BY <1>3, GotoThreads, TypeHalves DEF SdrInv, Place
  <2>2. sessions' \in Nat /\ live' \in 0..sessions' /\ live' # 0 /\ up' = {live'}
    BY <1>1, <1>3 DEF SdrInv, TypeOK
  <2>3. readers' \in SUBSET (1..sessions') /\ up' \in SUBSET (1..sessions')
    BY <1>3, <2>2 DEF SdrInv, TypeOK
  <2>4. DongleOK'
    BY <1>3, <2>2, <2>3 DEF SdrInv, TypeOK, DongleOK
  <2>5. at' = [at EXCEPT ![t] = "settle"] /\ at \in [Thread -> Place] /\ todo' = todo
    BY <1>3 DEF Goto, SdrInv, TypeOK
  <2>6. \A u \in Thread \ {t} : at[u] \notin Starting \cup {"usb"}
    BY <1>1 DEF SdrInv, LockInv
  <2>7. LockInv'
    BY <1>1, <1>3, <2>5, <2>6, Constants DEF SdrInv, LockInv, Starting
  <2>8. OneReceiver'
    <3>1. ~shot
      BY <1>1, Constants DEF SdrInv, OneReceiver
    <3>2. QED
      BY <1>1, <1>3, <2>2, <3>1 DEF OneReceiver
  <2>9. QED
    BY <2>1, <2>4, <2>7, <2>8, TypeHalves DEF SdrInv
<1>4. QED
  BY <1>2, <1>3 DEF Spawn

LEMMA SettleKeeps == ASSUME SdrInv, NEW t \in Thread, Settle(t) PROVE SdrInv'
<1>1. at[t] = "settle" /\ admin = t /\ todo[t] # <<>>
  BY DEF Settle, SdrInv, LockInv, Starting
<1>2. CASE live \in up /\ admin' = None /\ Return(t) /\ UNCHANGED <<holder, console, state, shot>>
  <2>1. ThreadsOK'
    BY <1>1, <1>2, ReturnThreads, TypeHalves DEF SdrInv
  <2>2. DongleOK'
    BY <1>2 DEF SdrInv, TypeOK, DongleOK, console
  <2>3. /\ at' = [at EXCEPT ![t] = "call"] /\ at \in [Thread -> Place]
        /\ \A u \in Thread \ {t} : todo'[u] = todo[u]
    BY <1>2 DEF Return, Continue, SdrInv, TypeOK
  <2>4. LockInv'
    BY <1>1, <1>2, <2>3, Constants DEF SdrInv, LockInv, Starting, console
  <2>5. OneReceiver'
    BY <1>1, <1>2, <2>3 DEF SdrInv, OneReceiver, console
  <2>6. QED
    BY <2>1, <2>2, <2>4, <2>5, TypeHalves DEF SdrInv
<1>3. CASE Cleanup /\ Goto(t, "usb") /\ UNCHANGED admin
  <2>1. ThreadsOK'
    BY <1>3, GotoThreads, TypeHalves DEF SdrInv, Place
  <2>2. QED
    BY <1>1, <1>3, <2>1, CleanupKeeps DEF Goto
<1>4. CASE Cleanup /\ Raise(t) /\ admin' = None
  BY <1>1, <1>4, CleanupRaises DEF Starting
<1>5. QED
  BY <1>2, <1>3, <1>4 DEF Settle

-----------------------------------------------------------------------------
\* A capture, or a stop at its barrier, takes the lock that nobody has.
LEMMA TakesLock ==
    ASSUME SdrInv, NEW t \in Thread, at[t] \in {"call", "ready", "waiting"}, todo[t] # <<>>,
           holder = None, holder' = t, NEW l \in {"locked", "release"}, Goto(t, l),
           UNCHANGED <<admin, console, state, shot>>
    PROVE  SdrInv'
<1>1. ThreadsOK'
  BY GotoThreads, TypeHalves DEF SdrInv, Place
<1>2. DongleOK'
  BY DEF SdrInv, TypeOK, DongleOK, console
<1>3. at \in [Thread -> Place] /\ at' = [at EXCEPT ![t] = l] /\ todo' = todo
  BY DEF SdrInv, TypeOK, Goto
<1>4. LockInv'
  BY <1>3, Constants DEF SdrInv, LockInv, Starting, console
<1>5. OneReceiver'
  BY Constants DEF SdrInv, OneReceiver, console
<1>6. QED
  BY <1>1, <1>2, <1>4, <1>5, TypeHalves DEF SdrInv

\* Its holder gives it back when its process, if any, has ended.
LEMMA GivesLock ==
    ASSUME SdrInv, NEW t \in Thread, at[t] \in {"capture", "release"}, holder' = None,
           Return(t) \/ Raise(t), ~shot, state' \in {None, state},
           UNCHANGED <<admin, console, shot>>
    PROVE  SdrInv'
<1>1. holder = t /\ todo[t] # <<>>
  BY DEF SdrInv, LockInv
<1>2. ThreadsOK'
  BY <1>1, ReturnThreads, RaiseThreads, TypeHalves DEF SdrInv
<1>3. DongleOK'
  BY DEF SdrInv, TypeOK, DongleOK, console
<1>4. /\ at \in [Thread -> Place] /\ at' = [at EXCEPT ![t] = "call"]
      /\ \A u \in Thread \ {t} : todo'[u] = todo[u]
  BY DEF Return, Raise, Continue, SdrInv, TypeOK
<1>5. LockInv'
  BY <1>1, <1>4, Constants DEF SdrInv, LockInv, Starting, console
<1>6. OneReceiver'
  BY DEF SdrInv, OneReceiver, console
<1>7. QED
  BY <1>2, <1>3, <1>5, <1>6, TypeHalves DEF SdrInv

\* A stop's barrier never ends while a capture's process runs: its holder has the
\* lock, and it runs no process.
LEMMA ReleaseQuiet ==
    ASSUME SdrInv, NEW t \in Thread, at[t] = "release"
    PROVE  ~shot
BY DEF SdrInv, LockInv, OneReceiver

LEMMA ShotSteps ==
    ASSUME SdrInv, NEW t \in Thread, Shot(t) \/ ShotSpawns(t) \/ ShotNamed(t) \/ ShotEnds(t)
    PROVE  SdrInv'
<1>1. CASE Shot(t)
  <2>1. at[t] \in {"call", "ready"} /\ at[t] \in Free /\ todo[t] # <<>>
    BY <1>1, ReadyFree DEF Shot
  <2>2. CASE holder = None /\ holder' = t /\ Goto(t, "locked")
    BY <1>1, <2>1, <2>2, TakesLock DEF Shot
  <2>3. CASE (Busy(t) \/ Raise(t)) /\ UNCHANGED holder
    BY <1>1, <2>1, <2>3, ReturnKeeps DEF Shot
  <2>4. QED
    BY <1>1, <2>2, <2>3 DEF Shot
<1>2. CASE ShotSpawns(t)
  <2>1. at[t] = "locked" /\ holder = t /\ todo[t] # <<>>
    BY <1>2 DEF ShotSpawns, SdrInv, LockInv
  <2>2. ThreadsOK'
    BY <1>2, GotoThreads, TypeHalves DEF ShotSpawns, SdrInv, Place
  <2>3. DongleOK'
    BY <1>2 DEF ShotSpawns, SdrInv, TypeOK, DongleOK, console
  <2>4. at \in [Thread -> Place] /\ at' = [at EXCEPT ![t] = "launched"] /\ todo' = todo
    BY <1>2 DEF ShotSpawns, Goto, SdrInv, TypeOK
  <2>5. LockInv'
    BY <1>2, <2>1, <2>4 DEF ShotSpawns, SdrInv, LockInv, Starting, console
  <2>6. OneReceiver'
    BY <1>2, <2>1, <2>4 DEF ShotSpawns, SdrInv, OneReceiver, console
  <2>7. QED
    BY <2>2, <2>3, <2>5, <2>6, TypeHalves DEF SdrInv
<1>3. CASE ShotEnds(t)
  BY <1>3, GivesLock DEF ShotEnds
<1>4. CASE ShotNamed(t)
  <2>1. at[t] = "launched" /\ holder = t /\ todo[t] # <<>>
    BY <1>4 DEF ShotNamed, SdrInv, LockInv
  <2>2. ThreadsOK' /\ DongleOK'
    BY <1>4, GotoThreads, TypeHalves DEF ShotNamed, SdrInv, TypeOK, DongleOK, Place, console
  <2>3. at \in [Thread -> Place] /\ at' = [at EXCEPT ![t] = "capture"] /\ todo' = todo
    BY <1>4 DEF ShotNamed, Goto, SdrInv, TypeOK
  <2>4. LockInv'
    BY <1>4, <2>1, <2>3 DEF ShotNamed, SdrInv, LockInv, Starting, console
  <2>5. OneReceiver'
    BY <1>4, <2>1, <2>3 DEF ShotNamed, SdrInv, OneReceiver, console
  <2>6. QED
    BY <2>2, <2>4, <2>5, TypeHalves DEF SdrInv
<1>5. QED
  BY <1>1, <1>2, <1>3, <1>4

\* Ending processes, and only that, harms no lock.
LEMMA EndsKeep ==
    ASSUME SdrInv, shot' \in {shot, FALSE}, up' \subseteq up, readers' \subseteq readers,
           running' \in BOOLEAN,
           UNCHANGED <<holder, admin, owns, live, sessions, state, threads>>
    PROVE  SdrInv'
<1>1. ThreadsOK'
  BY DEF SdrInv, TypeOK, ThreadsOK, threads
<1>2. DongleOK'
  BY DEF SdrInv, TypeOK, DongleOK
<1>3. LockInv'
  BY DEF SdrInv, LockInv, threads, Starting
<1>4. OneReceiver'
  <2>1. up' \subseteq {live'} \ {0} /\ (up' # {} => owns')
    BY DEF SdrInv, OneReceiver
  <2>2. shot' => shot
    OBVIOUS
  <2>3. QED
    BY <2>1, <2>2 DEF SdrInv, OneReceiver, threads
<1>5. QED
  BY <1>1, <1>2, <1>3, <1>4, TypeHalves DEF SdrInv

LEMMA EndSteps == ASSUME SdrInv, ReaderEnds \/ ShotExits \/ LiveExits PROVE SdrInv'
<1>1. shot \in BOOLEAN /\ running \in BOOLEAN
  BY DEF SdrInv, TypeOK
<1>2. CASE ReaderEnds
  BY <1>1, <1>2, EndsKeep DEF ReaderEnds
<1>3. CASE ShotExits
  BY <1>1, <1>3, EndsKeep DEF ShotExits, console
<1>4. CASE LiveExits
  BY <1>1, <1>4, EndsKeep DEF LiveExits
<1>5. QED
  BY <1>2, <1>3, <1>4

\* stop and the reset of the device end processes on their way.
LEMMA MoveEnding ==
    ASSUME SdrInv, NEW t \in Thread, NEW c, Doing(t, c), NEW l \in {"call", "barrier"},
           at' = [at EXCEPT ![t] = l], ThreadsOK', l = "barrier" => todo'[t] # <<>>,
           \A u \in Thread \ {t} : todo'[u] = todo[u],
           shot' \in {shot, FALSE}, up' \subseteq up,
           UNCHANGED <<holder, admin, owns, live, readers, running, sessions, state>>
    PROVE  SdrInv'
<1>1. at \in [Thread -> Place] /\ at[t] = "call"
  BY DEF Doing, SdrInv, TypeOK
<1>2. DongleOK'
  BY DEF SdrInv, TypeOK, DongleOK
<1>3. LockInv'
  BY <1>1 DEF SdrInv, LockInv, Starting
<1>4. OneReceiver'
  <2>1. up' \subseteq {live'} \ {0} /\ (up' # {} => owns')
    BY DEF SdrInv, OneReceiver
  <2>2. ASSUME shot' PROVE \E u \in Thread : holder' = u /\ at'[u] \in {"launched", "capture"}
    <3>1. PICK u \in Thread : holder = u /\ at[u] \in {"launched", "capture"}
      BY <2>2 DEF SdrInv, OneReceiver
    <3>2. at'[u] \in {"launched", "capture"}
      BY <1>1, <3>1
    <3>3. QED
      BY <3>1, <3>2
  <2>3. QED
    BY <2>1, <2>2 DEF OneReceiver
<1>5. QED
  BY <1>2, <1>3, <1>4, TypeHalves DEF SdrInv

LEMMA HaltSteps ==
    ASSUME SdrInv, NEW t \in Thread, Halt(t) \/ HaltWaits(t) \/ HaltLeaves(t) \/ Reset(t)
    PROVE  SdrInv'
<1>1. CASE Halt(t)
  <2>1. Goto(t, "barrier") /\ ThreadsOK' /\ shot' \in {shot, FALSE}
    BY <1>1, GotoThreads, TypeHalves DEF Halt, SdrInv, TypeOK, Place
  <2>2. QED
    BY <1>1, <2>1, DoingFree, MoveEnding DEF Halt, Goto, console
<1>2. CASE HaltWaits(t)
  <2>1. at[t] = "waiting" /\ at[t] \in Free /\ todo[t] # <<>>
    BY <1>2 DEF HaltWaits, Free, Place, Starting, SdrInv, LockInv
  <2>2. CASE holder = None /\ holder' = t /\ Goto(t, "release")
    BY <1>2, <2>1, <2>2, TakesLock DEF HaltWaits
  <2>3. CASE Return(t) /\ UNCHANGED holder
    BY <1>2, <2>1, <2>3, ReturnKeeps DEF HaltWaits
  <2>4. QED
    BY <1>2, <2>2, <2>3 DEF HaltWaits
<1>3. CASE HaltLeaves(t)
  BY <1>3, ReleaseQuiet, GivesLock DEF HaltLeaves
<1>4. CASE Reset(t)
  <2>1. Doing(t, "reset") /\ todo[t] # <<>>
    BY <1>4, DoingFree DEF Reset
  <2>2. (Return(t) \/ Raise(t)) /\ shot' \in {shot, FALSE} /\ up' \subseteq up
    BY <1>4 DEF Reset
  <2>3. ThreadsOK'
    BY <2>1, <2>2, ReturnThreads, RaiseThreads, TypeHalves DEF SdrInv
  <2>4. at' = [at EXCEPT ![t] = "call"] /\ \A u \in Thread \ {t} : todo'[u] = todo[u]
    BY <2>2 DEF Return, Raise, Continue, SdrInv, TypeOK
  <2>5. UNCHANGED <<holder, admin, owns, live, readers, running, sessions, state>>
    BY <1>4 DEF Reset
  <2>6. QED
    BY <2>1, <2>2, <2>3, <2>4, <2>5, MoveEnding
<1>5. QED
  BY <1>1, <1>2, <1>3, <1>4

-----------------------------------------------------------------------------
\* The inductive invariant of the dongle: _lock, _live_owns_lock and _live_admin
\* agree with where every thread is, and one receiver at most runs.
THEOREM SdrInvariant == Spec => []SdrInv
<1>1. Init => SdrInv
  BY SdrInit
<1>2. SdrInv /\ [Next]_vars => SdrInv'
  <2> SUFFICES ASSUME SdrInv, [Next]_vars PROVE SdrInv'
    OBVIOUS
  <2>1. ASSUME NEW t \in Thread, Post(t) PROVE SdrInv'
    BY <2>1, PostKeeps
  <2>2. ASSUME NEW t \in Thread, Step(t) PROVE SdrInv'
    <3>1. CASE Reply(t)
      BY <3>1, ReplyKeeps
    <3>2. CASE \/ Requires(t) \/ Start(t) \/ Reap(t) \/ Probe(t) \/ ProbeEnds(t)
               \/ Detect(t) \/ HaltLooks(t)
      BY <3>2, FreeSteps
    <3>3. CASE CleanupCall(t) \/ ReapCleans(t)
      BY <3>3, CleanupSteps
    <3>4. CASE StartLocks(t) \/ StartRetries(t) \/ Spawn(t) \/ Settle(t)
      BY <3>4, StartLocksKeeps, StartRetriesKeeps, SpawnKeeps, SettleKeeps
    <3>5. CASE Shot(t) \/ ShotSpawns(t) \/ ShotNamed(t) \/ ShotEnds(t)
      BY <3>5, ShotSteps
    <3>6. CASE Halt(t) \/ HaltWaits(t) \/ HaltLeaves(t) \/ Reset(t)
      BY <3>6, HaltSteps
    <3>7. QED
      BY <2>2, <3>1, <3>2, <3>3, <3>4, <3>5, <3>6 DEF Step
  <2>3. CASE ReaderEnds \/ ShotExits \/ LiveExits
    BY <2>3, EndSteps
  <2>4. CASE UNCHANGED vars
    BY <2>4 DEF vars, console, threads, SdrInv, TypeOK, LockInv, OneReceiver
  <2>5. QED
    BY <2>1, <2>2, <2>3, <2>4 DEF Next
<1>3. QED
  BY <1>1, <1>2, PTL DEF Spec

\* One process at most receives from the dongle, the console's or a capture's, and it
\* is the one whose holder has _lock, whatever is started, stopped, reset and reaped.
THEOREM OneReceiverOnly == Spec => []OneReceiver
<1>1. SdrInv => OneReceiver
  BY DEF SdrInv
<1>2. QED
  BY <1>1, SdrInvariant, PTL

-----------------------------------------------------------------------------
(* The dongle implements ExclusiveUse.                                        *)

\* One process at most receives, and nothing does while a thread is about to
\* launch one.
LEMMA ReceiversNow ==
    ASSUME SdrInv
    PROVE  /\ up = {} \/ (~shot /\ \E s \in Nat : up = {s})
           /\ \A t \in Thread : at[t] \in {"spawn", "locked"} => up = {} /\ ~shot
<1>1. up \subseteq {live} /\ live \in Nat /\ (up # {} => owns)
  BY DEF SdrInv, OneReceiver, TypeOK
<1>2. shot => holder \in Thread
  BY DEF SdrInv, OneReceiver
<1>3. owns => holder = "live"
  BY DEF SdrInv, LockInv
<1>4. up # {} => ~shot
  BY <1>1, <1>2, <1>3, Constants
<1>5. ASSUME NEW t \in Thread, at[t] = "spawn" PROVE up = {} /\ ~shot
  <2>1. up = {} /\ owns
    BY <1>5 DEF SdrInv, LockInv, Starting
  <2>2. QED
    BY <2>1, <1>2, <1>3, Constants
<1>6. ASSUME NEW t \in Thread, at[t] = "locked" PROVE up = {} /\ ~shot
  <2>1. holder = t
    BY <1>6 DEF SdrInv, LockInv
  <2>2. ~owns
    BY <2>1, <1>3, Constants
  <2>3. ~shot
    BY <1>6, <2>1 DEF SdrInv, OneReceiver
  <2>4. QED
    BY <1>1, <2>2, <2>3
<1>7. QED
  BY <1>1, <1>4, <1>5, <1>6

\* A step ends receivers, or launches one while there is none.
Ending    == up' \subseteq up /\ (shot' => shot)
Launching == /\ up = {} /\ ~shot
             /\ \/ up' = {} /\ shot' = TRUE
                \/ shot' = FALSE /\ \E s \in Nat : up' = {s}

LEMMA ReceiversStep ==
    ASSUME SdrInv, SdrInv', [Next]_vars
    PROVE  Ending \/ Launching
<1> USE DEF Ending
<1>1. ASSUME NEW t \in Thread, Spawn(t) PROVE Ending \/ Launching
  <2>1. CASE Cleanup
    BY <2>1 DEF Cleanup
  <2>2. CASE up' = up \cup {sessions'} /\ sessions' = sessions + 1 /\ UNCHANGED shot
    <3>1. up = {} /\ ~shot
      BY <1>1, ReceiversNow DEF Spawn
    <3>2. sessions' \in Nat
      BY <2>2 DEF SdrInv, TypeOK
    <3>3. QED
      BY <2>2, <3>1, <3>2 DEF Launching
  <2>3. QED
    BY <1>1, <2>1, <2>2 DEF Spawn
<1>2. ASSUME NEW t \in Thread, ShotSpawns(t) PROVE Ending \/ Launching
  <2>1. up = {} /\ ~shot /\ up' = up /\ shot' \in BOOLEAN
    BY <1>2, ReceiversNow DEF ShotSpawns, console
  <2>2. QED
    BY <2>1 DEF Launching
<1>3. ASSUME NEW t \in Thread, Post(t) \/ Reply(t) \/ Requires(t) \/ Start(t) \/ Reap(t) \/ Probe(t)
                               \/ ProbeEnds(t) \/ Detect(t) \/ Shot(t) \/ ShotNamed(t) \/ ShotEnds(t) \/ HaltLooks(t) \/ HaltWaits(t) \/ HaltLeaves(t)
      PROVE  Ending
  BY <1>3 DEF Post, Reply, Requires, Start, Reap, Probe, ProbeEnds, Detect, Shot, ShotNamed,
              ShotEnds, HaltLooks, HaltWaits, HaltLeaves, console
<1>4. ASSUME NEW t \in Thread, CleanupCall(t) \/ ReapCleans(t) \/ StartLocks(t) \/ Settle(t) \/ StartRetries(t)
      PROVE  Ending
  BY <1>4 DEF CleanupCall, ReapCleans, StartLocks, Settle, StartRetries, Cleanup, console
<1>5. ASSUME NEW t \in Thread, Halt(t) \/ Reset(t) PROVE Ending
  <2>1. CASE Halt(t)
    <3>1. shot' = (shot /\ \E u \in Thread : at[u] = "launched") /\ up' = up
      BY <2>1 DEF Halt, console
    <3>2. QED
      BY <3>1
  <2>2. CASE Reset(t)
    <3>1. up' \subseteq up
      BY <2>2 DEF Reset
    <3>2. shot' = shot \/ shot' = FALSE
      BY <2>2 DEF Reset
    <3>3. shot' => shot
      BY <3>2 DEF SdrInv, TypeOK
    <3>4. QED
      BY <3>1, <3>3
  <2>3. QED
    BY <1>5, <2>1, <2>2
<1>6. CASE ReaderEnds \/ ShotExits \/ LiveExits
  BY <1>6 DEF ReaderEnds, ShotExits, LiveExits, console
<1>7. CASE UNCHANGED vars
  BY <1>7 DEF vars, console
<1>8. QED
  BY <1>1, <1>2, <1>3, <1>4, <1>5, <1>6, <1>7 DEF Next, Step

\* The console and the captures have the dongle one after the other, and a session
\* that is launched again comes after the end of the one before it.
THEOREM DongleImplementsExclusiveUse == Spec => DonglePassedOn
<1>1. Init => Dongle!Init
  BY DEF Init, Dongle!Init, Receivers
<1>2. SdrInv /\ SdrInv' /\ [Next]_vars => [Dongle!Next]_Receivers
  <2> SUFFICES ASSUME SdrInv, SdrInv', [Next]_vars PROVE [Dongle!Next]_Receivers
    OBVIOUS
  <2>1. up = {} \/ (~shot /\ \E s \in Nat : up = {s})
    BY ReceiversNow
  <2>2. CASE Launching
    <3>1. Receivers = {}
      BY <2>2 DEF Launching, Receivers
    <3>2. CASE up' = {} /\ shot'
      <4>1. Receivers' = {<<"capture", 0>>}
        BY <3>2 DEF Receivers
      <4>2. QED
        BY <3>1, <4>1 DEF Dongle!Next, Dongle!Open
    <3>3. CASE ~shot' /\ \E s \in Nat : up' = {s}
      <4>1. PICK s \in Nat : Receivers' = {<<"console", s>>}
        BY <3>3 DEF Receivers
      <4>2. QED
        BY <3>1, <4>1 DEF Dongle!Next, Dongle!Open
    <3>4. QED
      BY <2>2, <3>2, <3>3 DEF Launching
  <2>3. CASE Ending
    <3>1. CASE up = {}
      <4>1. up' = {}
        BY <2>3, <3>1 DEF Ending
      <4>2. CASE shot' <=> shot
        BY <3>1, <4>1, <4>2 DEF Receivers
      <4>3. CASE shot /\ ~shot'
        BY <3>1, <4>1, <4>3 DEF Receivers, Dongle!Next, Dongle!Close
      <4>4. QED
        BY <2>3, <4>2, <4>3 DEF Ending
    <3>2. CASE up # {}
      <4>1. ~shot /\ ~shot' /\ (up' = up \/ up' = {})
        BY <2>1, <2>3, <3>2 DEF Ending
      <4>2. CASE up' = up
        BY <4>1, <4>2 DEF Receivers
      <4>3. CASE up' = {}
        BY <3>2, <4>1, <4>3 DEF Receivers, Dongle!Next, Dongle!Close
      <4>4. QED
        BY <4>1, <4>2, <4>3
    <3>3. QED
      BY <3>1, <3>2
  <2>4. QED
    BY <2>2, <2>3, ReceiversStep
<1>3. QED
  BY <1>1, <1>2, SdrInvariant, PTL DEF Spec, DonglePassedOn, Dongle!Spec

=============================================================================
