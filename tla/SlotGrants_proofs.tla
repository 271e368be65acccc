-------------------------- MODULE SlotGrants_proofs --------------------------
(* For every set of clients, slots and lease lengths: what a client believes  *)
(* about its lease is backed by the manager's record unless a bench reset has *)
(* swept it, so two clients believe that they hold the same slot only if one  *)
(* of them was swept; and no live grant is pre-empted.                        *)
EXTENDS SlotGrants, TLAPS

\* A client that thinks it holds a slot and was not swept.
Covered(c) == Believes(c) /\ ~Swept(c)

LEMMA InitInv ==
    ASSUME Init
    PROVE  GrantInv
<1>1. DOMAIN grants = {} /\ DOMAIN req = {} /\ DOMAIN belief = {}
  BY DEF Init, Empty
<1>2. \A c \in Client : pc[c] = "idle"
  BY DEF Init
<1>3. TypeOK
  BY <1>1 DEF Init, TypeOK, Pc, Opener
<1> QED
  BY <1>1, <1>2, <1>3, NoneAssumption
     DEF Init, GrantInv, LocksHeldInside, RequestInProgress, FreeUntilGranted,
         TokensDiffer, NothingFromTheFuture, BeliefBacked, Covered, Believes, Swept

LEMMA DefaultTtlType == DefaultTtl \in Ttl
BY TtlAssumption DEF DefaultTtl

\* How sending and answering a request change the program counters and the
\* requests in progress.
LEMMA SendType ==
    ASSUME TypeOK, NEW c \in Client, NEW l \in Pc, NEW s \in Slot, NEW m \in Mode,
           NEW d \in Ttl, NEW stops \in SUBSET Slot, Send(c, l, s, m, d, stops)
    PROVE  /\ pc' \in [Client -> Pc]
           /\ DOMAIN req' = DOMAIN req \cup {c}
           /\ \A x \in DOMAIN req' : req'[x] \in Request
           /\ req'[c].sent = now /\ req'[c].slot = s
           /\ \A x \in DOMAIN req : x # c => req'[x] = req[x]
<1> DEFINE r == [slot |-> s, mode |-> m, ttl |-> d, sent |-> now, todo |-> stops]
<1>1. r \in Request /\ r.sent = now /\ r.slot = s
  BY DEF TypeOK, Request
<1>2. pc' = [pc EXCEPT ![c] = l] /\ req' = Put(req, c, r)
  BY DEF Send, Goto
<1> HIDE DEF r
<1>3. /\ DOMAIN req' = DOMAIN req \cup {c} /\ req'[c] = r
      /\ \A x \in DOMAIN req : x # c => req'[x] = req[x]
  BY <1>2 DEF Put
<1> QED BY <1>1, <1>2, <1>3 DEF TypeOK

LEMMA DoneType ==
    ASSUME TypeOK, NEW c \in Client, Done(c)
    PROVE  /\ pc' = [pc EXCEPT ![c] = "idle"] /\ pc' \in [Client -> Pc]
           /\ DOMAIN req' = DOMAIN req \ {c}
           /\ \A x \in DOMAIN req' : req'[x] = req[x] /\ req'[x] \in Request
<1>1. req' = Drop(req, c) /\ pc' = [pc EXCEPT ![c] = "idle"]
  BY DEF Done, Goto
<1> QED BY <1>1 DEF Drop, TypeOK, Pc

LEMMA AnswerType ==
    ASSUME TypeOK, NEW c \in Client, NEW s \in Slot, NEW k \in Nat, NEW d \in Nat,
           c \in DOMAIN req, Answer(c, s, k, d)
    PROVE  /\ DOMAIN belief' \in {DOMAIN belief, DOMAIN belief \cup {c}}
           /\ \A x \in DOMAIN belief' : belief'[x] \in Belief
           /\ \A x \in DOMAIN belief : x # c => belief'[x] = belief[x]
           /\ \/ belief' = belief
              \/ belief'[c] = [slot |-> s, token |-> k, until |-> req[c].sent + d,
                               epoch |-> epoch]
<1> DEFINE b == [slot |-> s, token |-> k, until |-> req[c].sent + d, epoch |-> epoch]
<1>1. b \in Belief
  BY DEF TypeOK, Request, Belief
<1>2. belief' = belief \/ belief' = Put(belief, c, b)
  BY DEF Answer
<1> HIDE DEF b
<1>3. CASE belief' = belief
  BY <1>3 DEF TypeOK
<1>4. CASE belief' = Put(belief, c, b)
  <2>1. /\ DOMAIN belief' = DOMAIN belief \cup {c} /\ belief'[c] = b
        /\ \A x \in DOMAIN belief : x # c => belief'[x] = belief[x]
    BY <1>4 DEF Put
  <2> QED BY <2>1, <1>1 DEF TypeOK, b
<1> QED BY <1>2, <1>3, <1>4

\* Type correctness is preserved by every step.
LEMMA TypeStep ==
    ASSUME TypeOK, RequestInProgress, [Next]_vars
    PROVE  TypeOK'
<1> USE NoneAssumption
<1>0. /\ "flashing" \in Mode /\ "debugging" \in Mode /\ Slot \in SUBSET Slot
      /\ {} \in SUBSET Slot /\ \A s \in Slot : {s} \in SUBSET Slot
  BY DEF Mode
<1>1. ASSUME NEW c \in Client, Ask(c) PROVE TypeOK'
  <2>1. CASE SendAcquire(c)
    <3>1. PICK s \in Slot, m \in Mode, d \in Ttl : Send(c, "acquire", s, m, d, {})
      BY <2>1 DEF SendAcquire
    <3>2. "acquire" \in Pc
      BY DEF Pc
    <3> QED BY <3>1, <3>2, <1>0, <2>1, SendType DEF SendAcquire, TypeOK, debug
  <2>2. CASE SendOwner(c)
    <3>1. PICK o \in {"renew", "release"} :
              Send(c, o, belief[c].slot, "flashing", DefaultTtl, {})
      BY <2>2 DEF SendOwner
    <3>2. o \in Pc /\ belief[c].slot \in Slot
      BY <2>2, <3>1 DEF SendOwner, TypeOK, Belief, Pc
    <3> QED BY <3>1, <3>2, <1>0, <2>2, SendType, DefaultTtlType
            DEF SendOwner, TypeOK, debug
  <2>3. CASE SendBench(c)
    <3>1. PICK s \in Slot : Send(c, "bench", s, "flashing", DefaultTtl, Slot)
      BY <2>3 DEF SendBench
    <3>2. "bench" \in Pc
      BY DEF Pc
    <3> QED BY <3>1, <3>2, <1>0, <2>3, SendType, DefaultTtlType
            DEF SendBench, TypeOK, debug
  <2>4. CASE SendDebug(c)
    <3>1. PICK s \in Slot, o \in {"start", "stop"} :
              Send(c, o, s, "debugging", DefaultTtl, {s})
      BY <2>4 DEF SendDebug
    <3>2. o \in Pc
      BY <3>1 DEF Pc
    <3> QED BY <3>1, <3>2, <1>0, <2>4, SendType, DefaultTtlType
            DEF SendDebug, TypeOK, debug
  <2>5. CASE Forget(c)
    BY <2>5 DEF Drop, Forget, TypeOK, debug
  <2> QED BY <1>1, <2>1, <2>2, <2>3, <2>4, <2>5 DEF Ask
<1>2. ASSUME NEW c \in Client, Handle(c) PROVE TypeOK'
  <2>0. c \in DOMAIN req /\ req[c] \in Request
    BY <1>2 DEF Handle, AcquireRefused, AcquireFree, AcquireDebugged,
       AcquireNotDebugged, AcquireStray, AcquireGrant, Renew, RenewRefused,
       Release, Bench, StartRefused, Start, Launch, StartFails, Started, Stop,
       StopDone, Killed, RequestInProgress, TypeOK
  <2>1. CASE AcquireRefused(c)
    BY <2>1, DoneType DEF AcquireRefused, TypeOK, debug
  <2>2. CASE AcquireFree(c)
    BY <2>2 DEF Drop, AcquireFree, TypeOK, debug, Goto, Pc
  <2>3. CASE AcquireDebugged(c)
    BY <2>3, DoneType DEF AcquireDebugged, Refused, TypeOK, debug
  <2>4. CASE AcquireNotDebugged(c)
    BY <2>4 DEF AcquireNotDebugged, TypeOK, debug, Goto, Pc
  <2>5. CASE AcquireStray(c)
    BY <2>5, DoneType DEF AcquireStray, Refused, TypeOK, debug
  <2>6. CASE AcquireGrant(c)
    <3> DEFINE g == [token |-> issued, mode |-> req[c].mode, ttl |-> req[c].ttl,
                     expires |-> now + req[c].ttl]
    <3>1. req[c].slot \in Slot /\ req[c].ttl \in Nat
      BY <2>0, TtlAssumption DEF Request
    <3>2. g \in Grant
      BY <2>0, <3>1 DEF Request, Grant, TypeOK
    <3>3. grants' = Put(grants, req[c].slot, g)
      BY <2>6 DEF AcquireGrant
    <3> HIDE DEF g
    <3>4. DOMAIN grants' \subseteq Slot /\ \A s \in DOMAIN grants' : grants'[s] \in Grant
      BY <3>1, <3>2, <3>3 DEF Put, TypeOK
    <3>5. DOMAIN belief' \subseteq Client /\ \A x \in DOMAIN belief' : belief'[x] \in Belief
      <4>1. Answer(c, req[c].slot, issued, req[c].ttl) /\ issued \in Nat
        BY <2>6 DEF AcquireGrant, TypeOK
      <4> QED BY <4>1, <2>0, <3>1, AnswerType DEF TypeOK
    <3>6. /\ issued' = issued + 1 /\ glock' = None /\ Done(c)
          /\ UNCHANGED <<now, dlock, sessions, openocd, opener, epoch>>
      BY <2>6 DEF AcquireGrant, debug
    <3>7. /\ pc' \in [Client -> Pc] /\ DOMAIN req' \subseteq Client
          /\ \A x \in DOMAIN req' : req'[x] \in Request
      BY <3>6, DoneType DEF TypeOK
    <3> QED BY <3>4, <3>5, <3>6, <3>7 DEF TypeOK
  <2>7. CASE Renew(c)
    <3>1. PICK s \in Slot :
              /\ Owns(c, s) /\ ~Expired(grants[s])
              /\ grants' = [grants EXCEPT ![s].expires = now + grants[s].ttl]
              /\ Answer(c, s, grants[s].token, grants[s].ttl)
      BY <2>7 DEF Renew, RenewedUntil
    <3>2. s \in DOMAIN grants /\ grants[s].token \in Nat /\ grants[s].ttl \in Nat
      BY <3>1, TtlAssumption DEF Owns, TypeOK, Grant
    <3>3. DOMAIN grants' \subseteq Slot /\ \A x \in DOMAIN grants' : grants'[x] \in Grant
      BY <3>1, <3>2 DEF TypeOK, Grant
    <3>4. DOMAIN belief' \subseteq Client /\ \A x \in DOMAIN belief' : belief'[x] \in Belief
      BY <3>1, <3>2, <2>0, AnswerType DEF TypeOK
    <3> QED BY <3>3, <3>4, <2>7, DoneType DEF Renew, TypeOK, debug
  <2>8. CASE RenewRefused(c)
    BY <2>8, DoneType DEF Drop, RenewRefused, TypeOK, debug
  <2>9. CASE Release(c)
    BY <2>9, DoneType DEF Drop, Release, TypeOK, debug
  <2>10. CASE Bench(c)
    BY <2>10 DEF Bench, Empty, TypeOK, debug, Goto, Pc
  <2>11. CASE StartRefused(c)
    BY <2>11, DoneType DEF StartRefused, TypeOK, debug
  <2>12. CASE Start(c)
    BY <2>12 DEF Start, TypeOK, Goto, Pc
  <2>13. CASE Launch(c)
    BY <2>13, <2>0 DEF Launch, TypeOK, Goto, Pc, Request
  <2>14. CASE StartFails(c)
    BY <2>14, DoneType DEF StartFails, TypeOK
  <2>15. CASE Started(c)
    BY <2>15, <2>0, DoneType DEF Started, TypeOK, Request
  <2>16. CASE Stop(c)
    <3>1. PICK s \in req[c].todo \cap sessions :
              /\ sessions' = sessions \ {s}
              /\ req' = [req EXCEPT ![c].slot = s, ![c].todo = @ \ {s}]
      BY <2>16 DEF Stop
    <3>2. DOMAIN req' \subseteq Client /\ \A x \in DOMAIN req' : req'[x] \in Request
      BY <3>1, <2>0 DEF TypeOK, Request
    <3> QED BY <3>1, <3>2, <2>16 DEF Stop, TypeOK, Goto, Pc
  <2>17. CASE StopDone(c)
    BY <2>17, DoneType DEF StopDone, TypeOK, debug
  <2>18. CASE Killed(c)
    BY <2>18 DEF Killed, TypeOK, Goto, Pc
  <2> QED BY <1>2, <2>1, <2>2, <2>3, <2>4, <2>5, <2>6, <2>7, <2>8, <2>9, <2>10,
             <2>11, <2>12, <2>13, <2>14, <2>15, <2>16, <2>17, <2>18 DEF Handle
<1>3. ASSUME NEW s \in Slot, ReadMode(s) PROVE TypeOK'
  BY <1>3 DEF Drop, ReadMode, TypeOK, debug
<1>4. ASSUME NEW s \in Slot, OpenOrClose(s) PROVE TypeOK'
  BY <1>4 DEF OpenOrClose, TypeOK, debug, Opener
<1>5. ASSUME Tick PROVE TypeOK'
  BY <1>5 DEF Tick, TypeOK, debug
<1>6. ASSUME UNCHANGED vars PROVE TypeOK'
  BY <1>6 DEF vars, TypeOK
<1> QED BY <1>1, <1>2, <1>3, <1>4, <1>5, <1>6 DEF Next

\* The locks, the requests in progress and the slot a thread has found free.
LEMMA ControlStep ==
    ASSUME TypeOK, LocksHeldInside, RequestInProgress, FreeUntilGranted, [Next]_vars
    PROVE  LocksHeldInside' /\ RequestInProgress' /\ FreeUntilGranted'
<1> DEFINE Goal == LocksHeldInside' /\ RequestInProgress' /\ FreeUntilGranted'
<1> USE NoneAssumption
    DEF LocksHeldInside, RequestInProgress, FreeUntilGranted
<1>0. pc \in [Client -> Pc] /\ DOMAIN belief \subseteq Client /\ now \in Nat
  BY DEF TypeOK
<1>1. ASSUME NEW c \in Client, Ask(c) PROVE Goal
  <2>1. ASSUME NEW l \in {"acquire", "renew", "release", "bench", "start", "stop"},
               NEW s \in Slot, NEW m \in Mode, NEW d \in Ttl,
               NEW stops \in SUBSET Slot, Send(c, l, s, m, d, stops),
               l \in {"renew", "release"} => c \in DOMAIN belief,
               UNCHANGED <<now, grants, glock, dlock, belief>>
        PROVE  Goal
    <3>1. l \in Pc
      BY DEF Pc
    <3>2. /\ DOMAIN req' = DOMAIN req \cup {c} /\ req'[c].sent = now
          /\ \A x \in DOMAIN req : x # c => req'[x] = req[x]
      BY <2>1, <3>1, SendType
    <3>3. pc[c] = "idle" /\ pc' = [pc EXCEPT ![c] = l]
      BY <2>1 DEF Send, Goto
    <3> QED BY <2>1, <3>2, <3>3, <1>0
  <2>a. /\ "flashing" \in Mode /\ "debugging" \in Mode /\ Slot \in SUBSET Slot
        /\ {} \in SUBSET Slot /\ \A s \in Slot : {s} \in SUBSET Slot
    BY DEF Mode
  <2>2. CASE SendAcquire(c)
    <3>1. PICK s \in Slot, m \in Mode, d \in Ttl : Send(c, "acquire", s, m, d, {})
      BY <2>2 DEF SendAcquire
    <3>2. UNCHANGED <<now, grants, glock, dlock, belief>>
      BY <2>2 DEF SendAcquire, debug
    <3> QED BY <3>1, <3>2, <2>a, <2>1, DefaultTtlType
  <2>3. CASE SendOwner(c)
    <3>1. PICK o \in {"renew", "release"} : Send(c, o, belief[c].slot, "flashing", DefaultTtl, {})
      BY <2>3 DEF SendOwner
    <3>2. UNCHANGED <<now, grants, glock, dlock, belief>>
          /\ c \in DOMAIN belief /\ belief[c].slot \in Slot
      BY <2>3 DEF SendOwner, debug, TypeOK, Belief
    <3> QED BY <3>1, <3>2, <2>a, <2>1, DefaultTtlType
  <2>4. CASE SendBench(c)
    <3>1. PICK s \in Slot : Send(c, "bench", s, "flashing", DefaultTtl, Slot)
      BY <2>4 DEF SendBench
    <3>2. UNCHANGED <<now, grants, glock, dlock, belief>>
      BY <2>4 DEF SendBench, debug
    <3> QED BY <3>1, <3>2, <2>a, <2>1, DefaultTtlType
  <2>5. CASE SendDebug(c)
    <3>1. PICK s \in Slot, o \in {"start", "stop"} : Send(c, o, s, "debugging", DefaultTtl, {s})
      BY <2>5 DEF SendDebug
    <3>2. UNCHANGED <<now, grants, glock, dlock, belief>>
      BY <2>5 DEF SendDebug, debug
    <3> QED BY <3>1, <3>2, <2>a, <2>1, DefaultTtlType
  <2>6. CASE Forget(c)
    BY <2>6, <1>0 DEF Forget, Drop, debug
  <2> QED BY <1>1, <2>2, <2>3, <2>4, <2>5, <2>6 DEF Ask
<1>2. ASSUME NEW c \in Client, Handle(c) PROVE Goal
  <2> USE <1>0 DEF Goto, Drop
  <2>1. CASE AcquireRefused(c)
    BY <2>1 DEF AcquireRefused, Done, debug
  <2>2. CASE AcquireFree(c)
    BY <2>2 DEF AcquireFree, debug
  <2>3. CASE AcquireDebugged(c)
    BY <2>3 DEF AcquireDebugged, Refused, Done, debug
  <2>4. CASE AcquireNotDebugged(c)
    BY <2>4 DEF AcquireNotDebugged, debug
  <2>5. CASE AcquireStray(c)
    BY <2>5 DEF AcquireStray, Refused, Done, debug
  <2>6. CASE AcquireGrant(c)
    <3>1. /\ pc[c] = "scan" /\ pc' = [pc EXCEPT ![c] = "idle"] /\ glock' = None
          /\ req' = Drop(req, c) /\ UNCHANGED <<now, dlock>>
      BY <2>6 DEF AcquireGrant, Done, debug
    <3>2. DOMAIN belief \subseteq DOMAIN belief'
      BY <2>6 DEF AcquireGrant, Answer, Put
    <3> QED BY <3>1, <3>2
  <2>7. CASE Renew(c)
    <3>1. /\ pc[c] = "renew" /\ pc' = [pc EXCEPT ![c] = "idle"] /\ glock = None
          /\ req' = Drop(req, c) /\ UNCHANGED <<now, glock, dlock>>
      BY <2>7 DEF Renew, Done, debug
    <3>2. DOMAIN belief \subseteq DOMAIN belief'
      BY <2>7 DEF Renew, Answer, Put
    <3> QED BY <3>1, <3>2
  <2>8. CASE RenewRefused(c)
    BY <2>8 DEF RenewRefused, Done, debug
  <2>9. CASE Release(c)
    BY <2>9 DEF Release, Done, debug
  <2>10. CASE Bench(c)
    BY <2>10 DEF Bench, Empty, debug
  <2>11. CASE StartRefused(c)
    BY <2>11 DEF StartRefused, Done, debug
  <2>12. CASE Start(c)
    BY <2>12 DEF Start
  <2>13. CASE Launch(c)
    BY <2>13 DEF Launch
  <2>14. CASE StartFails(c)
    BY <2>14 DEF StartFails, Done
  <2>15. CASE Started(c)
    BY <2>15 DEF Started, Done
  <2>16. CASE Stop(c)
    <3>1. PICK s \in req[c].todo \cap sessions :
              req' = [req EXCEPT ![c].slot = s, ![c].todo = @ \ {s}]
      BY <2>16 DEF Stop
    <3>2. /\ DOMAIN req' = DOMAIN req /\ \A x \in DOMAIN req : x # c => req'[x] = req[x]
          /\ c \in DOMAIN req /\ req'[c].sent = req[c].sent
      <4>1. c \in DOMAIN req /\ req[c] \in Request
        BY <2>16 DEF Stop, TypeOK
      <4> QED BY <3>1, <4>1 DEF Request
    <3> QED BY <2>16, <3>2 DEF Stop
  <2>17. CASE StopDone(c)
    BY <2>17 DEF StopDone, Done, debug
  <2>18. CASE Killed(c)
    BY <2>18 DEF Killed
  <2> QED BY <1>2, <2>1, <2>2, <2>3, <2>4, <2>5, <2>6, <2>7, <2>8, <2>9, <2>10,
             <2>11, <2>12, <2>13, <2>14, <2>15, <2>16, <2>17, <2>18 DEF Handle
<1>3. ASSUME NEW s \in Slot, ReadMode(s) PROVE Goal
  BY <1>3 DEF ReadMode, Drop, debug
<1>4. ASSUME NEW s \in Slot, OpenOrClose(s) PROVE Goal
  BY <1>4 DEF OpenOrClose, debug
<1>5. ASSUME Tick PROVE Goal
  <2>1. \A c \in DOMAIN req : req[c].sent \in Nat
    BY DEF TypeOK, Request
  <2>2. now' = now + 1 /\ UNCHANGED <<grants, glock, dlock, pc, req, belief>>
    BY <1>5 DEF Tick, debug
  <2> QED BY <1>0, <2>1, <2>2 DEF TypeOK
<1>6. ASSUME UNCHANGED vars PROVE Goal
  BY <1>6 DEF vars
<1> QED BY <1>1, <1>2, <1>3, <1>4, <1>5, <1>6 DEF Next

\* A step that leaves the grants, the beliefs and the clock alone, and in which
\* no client comes back from a release, changes nothing of what is believed.
LEMMA QuietStep ==
    ASSUME TokensDiffer, NothingFromTheFuture, BeliefBacked,
           UNCHANGED <<now, grants, issued, epoch, belief>>,
           \A c \in Client : pc[c] = "release" => pc'[c] = "release"
    PROVE  TokensDiffer' /\ NothingFromTheFuture' /\ BeliefBacked'
BY DEF TokensDiffer, NothingFromTheFuture, BeliefBacked, Covered, Believes, Swept

\* A grant that has run out is no longer believed in, so it may be dropped.
LEMMA ReclaimStep ==
    ASSUME TypeOK, TokensDiffer, NothingFromTheFuture, BeliefBacked,
           NEW s \in Slot, ~Held(s), grants' = Drop(grants, s),
           UNCHANGED <<now, issued, epoch, belief>>,
           \A c \in Client : pc[c] = "release" => pc'[c] = "release"
    PROVE  TokensDiffer' /\ NothingFromTheFuture' /\ BeliefBacked'
<1>1. /\ DOMAIN grants' = DOMAIN grants \ {s}
      /\ \A u \in DOMAIN grants' : grants'[u] = grants[u]
  BY DEF Drop
<1>2. \A c \in Client : Covered(c) => belief[c].slot # s
  <2> SUFFICES ASSUME NEW c \in Client, Covered(c), belief[c].slot = s
               PROVE  FALSE
    OBVIOUS
  <2>1. s \in DOMAIN grants /\ grants[s].expires >= belief[c].until
    BY DEF BeliefBacked, Covered
  <2>2. now >= grants[s].expires
    BY <2>1 DEF Held, Expired
  <2>3. now < belief[c].until /\ now \in Nat /\ belief[c].until \in Nat
        /\ grants[s].expires \in Nat
    BY <2>1 DEF Covered, Believes, Swept, TypeOK, Belief, Grant
  <2> QED BY <2>1, <2>2, <2>3
<1>3. \A c \in Client : Covered(c)' => Covered(c)
  BY DEF Covered, Believes, Swept
<1> QED BY <1>1, <1>2, <1>3 DEF TokensDiffer, Swept, NothingFromTheFuture, BeliefBacked, Covered

\* The part of the invariant that is about what clients believe.
LEMMA BeliefStep ==
    ASSUME GrantInv, [Next]_vars
    PROVE  TokensDiffer' /\ NothingFromTheFuture' /\ BeliefBacked'
<1> DEFINE Goal == TokensDiffer' /\ NothingFromTheFuture' /\ BeliefBacked'
<1>0. /\ TypeOK /\ TokensDiffer /\ NothingFromTheFuture /\ BeliefBacked
      /\ LocksHeldInside /\ RequestInProgress /\ FreeUntilGranted
      /\ pc \in [Client -> Pc] /\ now \in Nat /\ issued \in Nat /\ epoch \in Nat
      /\ DOMAIN belief \subseteq Client /\ DOMAIN grants \subseteq Slot
  BY DEF GrantInv, TypeOK
<1>g. \A s \in DOMAIN grants : /\ grants[s].token \in Nat /\ grants[s].ttl \in Nat
                               /\ grants[s].expires \in Nat
  BY <1>0, TtlAssumption DEF TypeOK, Grant
<1>b. \A c \in DOMAIN belief : /\ belief[c].token \in Nat /\ belief[c].until \in Nat
                               /\ belief[c].epoch \in Nat
  BY <1>0 DEF TypeOK, Belief
<1>1. ASSUME NEW c \in Client, Ask(c) PROVE Goal
  <2>1. CASE Forget(c)
    <3>1. /\ DOMAIN belief' = DOMAIN belief \ {c}
          /\ \A x \in DOMAIN belief' : belief'[x] = belief[x]
          /\ UNCHANGED <<now, grants, issued, epoch, pc>>
      BY <2>1 DEF Forget, Drop
    <3> QED BY <3>1, <1>0
            DEF TokensDiffer, NothingFromTheFuture, BeliefBacked, Covered, Believes, Swept
  <2>2. CASE ~Forget(c)
    <3>1. /\ UNCHANGED <<now, grants, issued, epoch, belief>>
          /\ pc[c] = "idle" /\ \E l : pc' = [pc EXCEPT ![c] = l]
      BY <1>1, <2>2
         DEF Ask, SendAcquire, SendOwner, SendBench, SendDebug, Send, Goto
    <3> QED BY <3>1, <1>0, QuietStep
  <2> QED BY <2>1, <2>2
<1>2. ASSUME NEW c \in Client, Handle(c) PROVE Goal
  <2>1. CASE AcquireFree(c)
    <3>1. c \in DOMAIN req /\ req[c].slot \in Slot
      BY <2>1, <1>0 DEF AcquireFree, RequestInProgress, TypeOK, Request
    <3>2. /\ ~Held(req[c].slot) /\ grants' = Drop(grants, req[c].slot)
          /\ UNCHANGED <<now, issued, epoch, belief>>
          /\ \A x \in Client : pc[x] = "release" => pc'[x] = "release"
      BY <2>1, <1>0 DEF AcquireFree, Goto
    <3> QED BY <3>1, <3>2, <1>0, ReclaimStep
  <2>2. CASE AcquireGrant(c)
    <3> DEFINE s == req[c].slot
    <3>1. /\ c \in DOMAIN req /\ s \in Slot /\ req[c].ttl \in Nat
          /\ req[c].sent \in Nat /\ req[c].sent <= now /\ s \notin DOMAIN grants
      BY <2>2, <1>0, TtlAssumption
         DEF AcquireGrant, RequestInProgress, FreeUntilGranted, TypeOK, Request
    <3>2. /\ DOMAIN grants' = DOMAIN grants \cup {s}
          /\ grants'[s].token = issued /\ grants'[s].ttl = req[c].ttl
          /\ grants'[s].expires = now + req[c].ttl
          /\ \A u \in DOMAIN grants : grants'[u] = grants[u]
      BY <2>2, <3>1 DEF AcquireGrant, Put
    <3>3. /\ DOMAIN belief' \in {DOMAIN belief, DOMAIN belief \cup {c}}
          /\ \A x \in DOMAIN belief : x # c => belief'[x] = belief[x]
          /\ \/ belief' = belief
             \/ belief'[c] = [slot |-> s, token |-> issued,
                              until |-> req[c].sent + req[c].ttl, epoch |-> epoch]
      <4>1. Answer(c, s, issued, req[c].ttl)
        BY <2>2 DEF AcquireGrant
      <4> HIDE DEF s
      <4>2. issued \in Nat
        BY <1>0
      <4> QED BY <4>1, <4>2, <3>1 DEF Answer, Put
    <3>4. /\ issued' = issued + 1 /\ UNCHANGED <<now, epoch>>
          /\ pc' = [pc EXCEPT ![c] = "idle"] /\ pc[c] = "scan"
      BY <2>2 DEF AcquireGrant, Done, Goto
    <3> HIDE DEF s
    <3>5. TokensDiffer'
      BY <1>0, <1>g, <1>b, <3>2, <3>3, <3>4 DEF TokensDiffer, Swept
    <3>6. NothingFromTheFuture'
      BY <1>0, <1>g, <1>b, <3>1, <3>2, <3>3, <3>4 DEF NothingFromTheFuture
    <3>7. BeliefBacked'
      <4> SUFFICES ASSUME NEW x \in Client, Covered(x)'
                   PROVE  /\ belief'[x].slot \in DOMAIN grants'
                          /\ grants'[belief'[x].slot].token = belief'[x].token
                          /\ grants'[belief'[x].slot].expires >= belief'[x].until
        BY DEF BeliefBacked, Covered
      <4>1. CASE x \in DOMAIN belief /\ belief'[x] = belief[x]
        <5>1. Covered(x)
          BY <4>1, <1>0, <3>4 DEF Covered, Believes, Swept
        <5> QED BY <4>1, <5>1, <1>0, <3>1, <3>2 DEF BeliefBacked, Covered
      <4>2. CASE x = c /\ belief'[c] = [slot |-> s, token |-> issued,
                            until |-> req[c].sent + req[c].ttl, epoch |-> epoch]
        BY <4>2, <1>0, <3>1, <3>2
      <4> QED BY <4>1, <4>2, <3>3 DEF Covered, Believes, Swept
    <3> QED BY <3>5, <3>6, <3>7
  <2>3. CASE Renew(c)
    <3>0. c \in DOMAIN belief /\ c \in DOMAIN req /\ req[c].sent \in Nat
          /\ req[c].sent <= now
      BY <2>3, <1>0 DEF Renew, RequestInProgress, TypeOK, Request
    <3>1. PICK s \in Slot :
              /\ s \in DOMAIN grants /\ grants[s].token = belief[c].token
              /\ grants' = [grants EXCEPT ![s].expires = now + grants[s].ttl]
              /\ Answer(c, s, grants[s].token, grants[s].ttl)
      BY <2>3 DEF Renew, Owns, RenewedUntil
    <3>2. /\ DOMAIN grants' = DOMAIN grants
          /\ \A u \in DOMAIN grants : /\ grants'[u].token = grants[u].token
                                      /\ grants'[u].ttl = grants[u].ttl
                                      /\ u # s => grants'[u] = grants[u]
          /\ grants'[s].expires = now + grants[s].ttl
      BY <3>1, <1>0 DEF TypeOK, Grant
    <3>3. /\ DOMAIN belief' = DOMAIN belief
          /\ \A x \in DOMAIN belief : x # c => belief'[x] = belief[x]
          /\ \/ belief' = belief
             \/ belief'[c] = [slot |-> s, token |-> grants[s].token,
                              until |-> req[c].sent + grants[s].ttl, epoch |-> epoch]
      <4>1. grants[s].token \in Nat /\ grants[s].ttl \in Nat
        BY <3>1, <1>g
      <4>2. DOMAIN belief \cup {c} = DOMAIN belief
        BY <3>0
      <4>3. /\ DOMAIN belief' \in {DOMAIN belief, DOMAIN belief \cup {c}}
            /\ \A x \in DOMAIN belief : x # c => belief'[x] = belief[x]
            /\ \/ belief' = belief
               \/ belief'[c] = [slot |-> s, token |-> grants[s].token,
                                until |-> req[c].sent + grants[s].ttl, epoch |-> epoch]
        <5>1. TypeOK /\ c \in DOMAIN req /\ Answer(c, s, grants[s].token, grants[s].ttl)
          BY <3>0, <3>1, <1>0
        <5> QED BY <4>1, <5>1, AnswerType
      <4> QED BY <4>2, <4>3
    <3>4. /\ UNCHANGED <<now, issued, epoch>> /\ pc' = [pc EXCEPT ![c] = "idle"]
          /\ pc[c] = "renew"
      BY <2>3 DEF Renew, Done, Goto
    <3>5. belief[c].slot = s
      BY <3>0, <3>1, <1>0 DEF TokensDiffer, Swept
    <3>6. TokensDiffer'
      BY <1>0, <3>0, <3>1, <3>2, <3>3, <3>4, <3>5 DEF TokensDiffer, Swept
    <3>7. NothingFromTheFuture'
      BY <1>0, <1>g, <3>1, <3>2, <3>3, <3>4 DEF NothingFromTheFuture
    <3>8. BeliefBacked'
      <4>1. \A u \in DOMAIN grants : grants'[u].expires >= grants[u].expires
        BY <1>0, <1>g, <3>1, <3>2 DEF NothingFromTheFuture
      <4> SUFFICES ASSUME NEW x \in Client, Covered(x)'
                   PROVE  /\ belief'[x].slot \in DOMAIN grants'
                          /\ grants'[belief'[x].slot].token = belief'[x].token
                          /\ grants'[belief'[x].slot].expires >= belief'[x].until
        BY DEF BeliefBacked, Covered
      <4>2. CASE x \in DOMAIN belief /\ belief'[x] = belief[x]
        <5>1. Covered(x)
          BY <4>2, <1>0, <3>4 DEF Covered, Believes, Swept
        <5>2. /\ belief[x].slot \in DOMAIN grants
              /\ grants[belief[x].slot].token = belief[x].token
              /\ grants[belief[x].slot].expires >= belief[x].until
          BY <5>1, <1>0 DEF BeliefBacked, Covered
        <5>3. grants'[belief[x].slot].expires \in Nat
          BY <5>2, <3>1, <3>2, <1>0, <1>g
        <5> QED BY <4>1, <4>2, <5>2, <5>3, <3>2, <1>g, <1>b, <4>2
      <4>3. CASE x = c /\ belief'[c] = [slot |-> s, token |-> grants[s].token,
                            until |-> req[c].sent + grants[s].ttl, epoch |-> epoch]
        <5>1. /\ s \in DOMAIN grants' /\ grants'[s].token = grants[s].token
              /\ grants'[s].expires = now + grants[s].ttl
          BY <3>1, <3>2
        <5>2. now + grants[s].ttl >= req[c].sent + grants[s].ttl
          BY <3>0, <3>1, <1>0, <1>g
        <5>3. /\ belief'[x].slot = s /\ belief'[x].token = grants[s].token
              /\ belief'[x].until = req[c].sent + grants[s].ttl
          BY <4>3
        <5> QED BY <5>1, <5>2, <5>3
      <4>4. x \in DOMAIN belief
        BY <3>3 DEF Covered, Believes, Swept
      <4> QED BY <4>2, <4>3, <4>4, <3>3
    <3> QED BY <3>6, <3>7, <3>8
  <2>4. CASE RenewRefused(c)
    <3>1. /\ DOMAIN belief' \subseteq DOMAIN belief
          /\ \A x \in DOMAIN belief' : belief'[x] = belief[x]
          /\ UNCHANGED <<now, grants, issued, epoch>>
          /\ pc[c] = "renew" /\ pc' = [pc EXCEPT ![c] = "idle"]
      BY <2>4 DEF RenewRefused, Drop, Done, Goto
    <3> QED BY <3>1, <1>0
            DEF TokensDiffer, NothingFromTheFuture, BeliefBacked, Covered, Believes, Swept
  <2>5. CASE Release(c)
    <3>1. /\ DOMAIN belief' = DOMAIN belief \ {c}
          /\ \A x \in DOMAIN belief' : belief'[x] = belief[x]
          /\ UNCHANGED <<now, issued, epoch>> /\ pc' = [pc EXCEPT ![c] = "idle"]
      BY <2>5 DEF Release, Drop, Done, Goto
    <3>2. /\ DOMAIN grants' = {s \in DOMAIN grants : grants[s].token # belief[c].token}
          /\ \A s \in DOMAIN grants' : grants'[s] = grants[s]
      BY <2>5 DEF Release, Released, Owns
    <3>3. c \in DOMAIN belief
      BY <2>5, <1>0 DEF Release, RequestInProgress
    <3>4. TokensDiffer' /\ NothingFromTheFuture'
      BY <3>1, <3>2, <1>0 DEF TokensDiffer, Swept, NothingFromTheFuture
    <3>5. BeliefBacked'
      <4> SUFFICES ASSUME NEW x \in Client, Covered(x)'
                   PROVE  /\ belief'[x].slot \in DOMAIN grants'
                          /\ grants'[belief'[x].slot].token = belief'[x].token
                          /\ grants'[belief'[x].slot].expires >= belief'[x].until
        BY DEF BeliefBacked, Covered
      <4>1. x # c /\ x \in DOMAIN belief /\ belief'[x] = belief[x]
        BY <3>1 DEF Covered, Believes, Swept
      <4>2. Covered(x)
        BY <4>1, <3>1, <1>0 DEF Covered, Believes, Swept
      <4>3. belief[x].token # belief[c].token
        BY <4>1, <3>3, <1>0 DEF TokensDiffer, Swept
      <4> QED BY <4>1, <4>2, <4>3, <3>2, <1>0 DEF BeliefBacked, Covered
    <3> QED BY <3>4, <3>5
  <2>6. CASE Bench(c)
    <3>1. DOMAIN grants' = {} /\ epoch' = epoch + 1 /\ UNCHANGED <<now, issued, belief>>
      BY <2>6 DEF Bench, Empty
    <3>2. \A x \in Client : ~Covered(x)'
      BY <3>1, <1>0, <1>b DEF Covered, Believes, Swept, NothingFromTheFuture
    <3> QED BY <3>1, <3>2, <1>0, <1>b
            DEF TokensDiffer, Swept, NothingFromTheFuture, BeliefBacked, Covered
  <2>7. CASE AcquireRefused(c) \/ AcquireDebugged(c) \/ AcquireNotDebugged(c)
             \/ AcquireStray(c) \/ StartRefused(c) \/ Start(c) \/ Launch(c)
             \/ StartFails(c) \/ Started(c) \/ Stop(c) \/ StopDone(c) \/ Killed(c)
    <3>1. /\ UNCHANGED <<now, grants, issued, epoch, belief>>
          /\ pc[c] # "release" /\ \E l : pc' = [pc EXCEPT ![c] = l]
      BY <2>7 DEF AcquireRefused, AcquireDebugged, AcquireNotDebugged,
         AcquireStray, StartRefused, Start, Launch, StartFails, Started, Stop,
         StopDone, Killed, Done, Goto
    <3> QED BY <3>1, <1>0, QuietStep
  <2> QED BY <1>2, <2>1, <2>2, <2>3, <2>4, <2>5, <2>6, <2>7 DEF Handle
<1>3. ASSUME NEW s \in Slot, ReadMode(s) PROVE Goal
  <2>1. /\ ~Held(s) /\ grants' = Drop(grants, s)
        /\ UNCHANGED <<now, issued, epoch, belief, pc>>
    BY <1>3 DEF ReadMode, Held
  <2> QED BY <2>1, <1>0, ReclaimStep
<1>4. ASSUME NEW s \in Slot, OpenOrClose(s) PROVE Goal
  BY <1>4, <1>0, QuietStep DEF OpenOrClose
<1>5. ASSUME Tick PROVE Goal
  <2>1. now' = now + 1 /\ UNCHANGED <<grants, issued, epoch, belief, pc>>
    BY <1>5 DEF Tick
  <2>2. TokensDiffer' /\ NothingFromTheFuture'
    BY <2>1, <1>0, <1>g DEF TokensDiffer, Swept, NothingFromTheFuture
  <2>3. \A x \in Client : Covered(x)' => Covered(x)
    BY <2>1, <1>0, <1>b DEF Covered, Believes, Swept
  <2> QED BY <2>1, <2>2, <2>3, <1>0 DEF BeliefBacked, Covered
<1>6. ASSUME UNCHANGED vars PROVE Goal
  BY <1>6, <1>0, QuietStep DEF vars
<1> QED BY <1>1, <1>2, <1>3, <1>4, <1>5, <1>6 DEF Next

\* The record and the beliefs agree in every reachable state.
THEOREM GrantInvariant == Spec => []GrantInv
<1>1. GrantInv /\ [Next]_vars => GrantInv'
  <2> SUFFICES ASSUME GrantInv, [Next]_vars PROVE GrantInv'
    OBVIOUS
  <2> QED BY TypeStep, ControlStep, BeliefStep DEF GrantInv
<1> QED BY <1>1, InitInv, PTL DEF Spec

\* FR-033 for any number of clients and slots: two clients believe that they hold
\* one slot only when a bench reset has taken the lease of one of them back.
THEOREM OneBelieverPerSlot == Spec => []OneBeliever
<1>1. GrantInv => OneBeliever
  <2> SUFFICES ASSUME GrantInv, NEW c \in Client, NEW d \in Client,
                      Covered(c), Covered(d), c # d,
                      belief[c].slot = belief[d].slot
               PROVE  FALSE
    BY DEF OneBeliever, Covered
  <2>1. belief[c].token = belief[d].token
    BY DEF GrantInv, BeliefBacked, Covered
  <2> QED BY <2>1 DEF GrantInv, TokensDiffer, Covered, Believes
<1> QED BY <1>1, GrantInvariant, PTL

\* FR-032 for any number of clients and slots: the token of a swept lease moves
\* no grant, whoever holds the slot by then.
THEOREM SweptTokensPowerless == Spec => SweptPowerless
<1> DEFINE Same(c) == /\ DOMAIN grants' = DOMAIN grants
                      /\ \A s \in DOMAIN grants : grants'[s] = grants[s]
                      /\ c \in DOMAIN belief' => belief'[c] = belief[c]
           Quiet == \A c \in DOMAIN belief :
                      Swept(c) /\ pc[c] \in {"renew", "release"} /\ pc'[c] = "idle"
                      => Same(c)
<1>1. ASSUME GrantInv, [Next]_vars, NEW c \in DOMAIN belief, Swept(c),
             pc[c] \in {"renew", "release"}, pc'[c] = "idle"
      PROVE  Same(c)
  <2>0. /\ c \in Client /\ pc \in [Client -> Pc] /\ DOMAIN grants \subseteq Slot
        /\ \A s \in DOMAIN grants : ~Owns(c, s)
    BY <1>1 DEF GrantInv, TypeOK, TokensDiffer, Owns
  <2>1. CASE RenewRefused(c)
    BY <2>1 DEF RenewRefused, Drop
  <2>2. CASE Renew(c)
    BY <2>0, <2>2 DEF Renew, Owns
  <2>3. CASE Release(c)
    <3>1. c \notin DOMAIN belief'
      BY <2>3 DEF Release, Drop
    <3>2. Released(c) = {}
      BY <2>0 DEF Released
    <3>3. grants' = [s \in DOMAIN grants |-> grants[s]]
      BY <2>3, <3>2 DEF Release
    <3> QED BY <3>1, <3>3
  <2>4. ASSUME NEW d \in Client, Ask(d) PROVE FALSE
    <3>1. pc[d] = "idle" /\ (pc' = pc \/ \E l : pc' = [pc EXCEPT ![d] = l])
      BY <2>4 DEF Ask, SendAcquire, SendOwner, SendBench, SendDebug, Forget, Send, Goto
    <3> QED BY <1>1, <2>0, <3>1
  <2>5. ASSUME NEW d \in Client, Handle(d)
        PROVE  RenewRefused(c) \/ Renew(c) \/ Release(c)
    <3>1. \E l : pc' = [pc EXCEPT ![d] = l]
      BY <2>5 DEF Handle, AcquireRefused, AcquireFree, AcquireDebugged, AcquireNotDebugged,
         AcquireStray, AcquireGrant, Renew, RenewRefused, Release, Bench, StartRefused, Start,
         Launch, StartFails, Started, Stop, StopDone, Killed, Done, Goto
    <3>2. d = c
      BY <1>1, <2>0, <3>1
    <3> QED BY <1>1, <2>5, <3>2 DEF Handle, AcquireRefused, AcquireFree, AcquireDebugged,
         AcquireNotDebugged, AcquireStray, AcquireGrant, Bench, StartRefused, Start,
         Launch, StartFails, Started, Stop, StopDone, Killed
  <2>6. UNCHANGED vars \/ Tick \/ (\E s \in Slot : ReadMode(s) \/ OpenOrClose(s)) => UNCHANGED pc
    BY DEF vars, Tick, ReadMode, OpenOrClose
  <2> QED BY <1>1, <2>1, <2>2, <2>3, <2>4, <2>5, <2>6 DEF Next
<1>2. GrantInv /\ [Next]_vars => [Quiet]_vars
  BY <1>1
<1> QED BY <1>2, GrantInvariant, PTL DEF Spec, SweptPowerless, Same, Quiet

\* FR-033 for any number of clients and slots: only its owner's release or a
\* bench reset takes a live grant away.
THEOREM GrantsNotPreempted == Spec => NoPreemption
<1> DEFINE Gone(s) == s \in DOMAIN grants' => grants'[s].token # grants[s].token
           Excuse(s) == \/ epoch' # epoch
                        \/ \E c \in DOMAIN belief : pc[c] = "release" /\ Owns(c, s)
           Kept == \A s \in DOMAIN grants : ~Expired(grants[s]) /\ Gone(s) => Excuse(s)
<1>1. ASSUME GrantInv, [Next]_vars PROVE Kept
  <2>0. /\ TypeOK /\ RequestInProgress /\ FreeUntilGranted
        /\ epoch \in Nat /\ DOMAIN grants \subseteq Slot
    BY <1>1 DEF GrantInv, TypeOK
  <2>1. CASE UNCHANGED grants
    BY <2>1
  <2>2. ASSUME NEW c \in Client, AcquireFree(c) PROVE Kept
    <3>1. ~Held(req[c].slot)
          /\ \A s \in DOMAIN grants : s # req[c].slot =>
                 s \in DOMAIN grants' /\ grants'[s] = grants[s]
      BY <2>2 DEF AcquireFree, Drop
    <3> QED BY <3>1 DEF Held
  <2>3. ASSUME NEW c \in Client, AcquireGrant(c) PROVE Kept
    <3>1. req[c].slot \notin DOMAIN grants
      BY <2>3, <2>0 DEF AcquireGrant, FreeUntilGranted
    <3>2. \A s \in DOMAIN grants : s # req[c].slot =>
             s \in DOMAIN grants' /\ grants'[s] = grants[s]
      BY <2>3 DEF AcquireGrant, Put
    <3> QED BY <3>1, <3>2
  <2>4. ASSUME NEW c \in Client, Renew(c) PROVE Kept
    <3>1. PICK s \in Slot :
              grants' = [grants EXCEPT ![s].expires = RenewedUntil(grants[s])]
      BY <2>4 DEF Renew
    <3>2. \A u \in DOMAIN grants : /\ u \in DOMAIN grants'
                                   /\ grants'[u].token = grants[u].token
      BY <3>1, <2>0 DEF TypeOK, Grant
    <3> QED BY <3>2
  <2>5. ASSUME NEW c \in Client, Release(c) PROVE Kept
    <3>1. \A s \in DOMAIN grants : ~Owns(c, s) =>
             s \in DOMAIN grants' /\ grants'[s] = grants[s]
      BY <2>5 DEF Release, Released
    <3>2. c \in DOMAIN belief /\ pc[c] = "release"
      BY <2>5, <2>0 DEF Release, RequestInProgress
    <3> QED BY <3>1, <3>2
  <2>6. ASSUME NEW c \in Client, Bench(c) PROVE Kept
    BY <2>6, <2>0 DEF Bench
  <2>7. ASSUME NEW s \in Slot, ReadMode(s) PROVE Kept
    <3>1. Expired(grants[s])
          /\ \A u \in DOMAIN grants : u # s =>
                 u \in DOMAIN grants' /\ grants'[u] = grants[u]
      BY <2>7 DEF ReadMode, Drop
    <3> QED BY <3>1
  <2>8. ASSUME NEW c \in Client, Ask(c) PROVE UNCHANGED grants
    BY <2>8 DEF Ask, SendAcquire, SendOwner, SendBench, SendDebug, Forget
  <2>9. ASSUME NEW c \in Client, Handle(c) PROVE Kept
    <3>1. \/ AcquireFree(c) \/ AcquireGrant(c) \/ Renew(c) \/ Release(c) \/ Bench(c)
          \/ UNCHANGED grants
      BY <2>9 DEF Handle, AcquireRefused, AcquireDebugged, AcquireNotDebugged,
         AcquireStray, RenewRefused, StartRefused, Start, Launch, StartFails,
         Started, Stop, StopDone, Killed
    <3> QED BY <3>1, <2>1, <2>2, <2>3, <2>4, <2>5, <2>6
  <2>10. UNCHANGED vars \/ Tick \/ (\E s \in Slot : OpenOrClose(s)) => UNCHANGED grants
    BY DEF vars, Tick, OpenOrClose
  <2> QED BY <1>1, <2>1, <2>7, <2>8, <2>9, <2>10 DEF Next
<1>2. GrantInv /\ [Next]_vars => [Kept]_vars
  BY <1>1
<1> QED BY <1>2, GrantInvariant, PTL DEF Spec, NoPreemption, Gone, Excuse, Kept
-----------------------------------------------------------------------------
(* A slot's lease implements RevocableUse.                                    *)

\* A client learns of a grant only from the answer to its own acquire or renewal.
LEMMA BeliefFromAnswer ==
    ASSUME GrantInv, [Next]_vars, NEW c \in Client, c \in DOMAIN belief',
           ~AcquireGrant(c), ~Renew(c)
    PROVE  c \in DOMAIN belief /\ belief'[c] = belief[c]
<1> DEFINE Old == c \in DOMAIN belief /\ belief'[c] = belief[c]
<1>0. TypeOK /\ RequestInProgress /\ TokensDiffer
  BY DEF GrantInv
<1>1. CASE UNCHANGED belief
  BY <1>1
<1>2. ASSUME NEW d \in Client, belief' = Drop(belief, d) PROVE Old
  BY <1>2 DEF Drop
<1>3. ASSUME NEW d \in Client, Ask(d) PROVE Old
  <2>1. UNCHANGED belief \/ belief' = Drop(belief, d)
    BY <1>3 DEF Ask, SendAcquire, SendOwner, SendBench, SendDebug, Forget
  <2> QED BY <1>1, <1>2, <2>1
<1>4. ASSUME NEW d \in Client, Handle(d) PROVE Old
  <2>1. \/ AcquireGrant(d) \/ Renew(d) \/ UNCHANGED belief \/ belief' = Drop(belief, d)
    BY <1>4 DEF Handle, AcquireRefused, AcquireFree, AcquireDebugged, AcquireNotDebugged,
         AcquireStray, RenewRefused, Release, Bench, StartRefused, Start, Launch, StartFails,
         Started, Stop, StopDone, Killed
  <2>2. CASE AcquireGrant(d) \/ Renew(d)
    <3>1. c # d
      BY <2>2
    <3>2. PICK u \in Slot, k \in Nat, l \in Nat : Answer(d, u, k, l)
      <4>1. CASE AcquireGrant(d)
        <5>1. d \in DOMAIN req /\ req[d] \in Request /\ issued \in Nat
          BY <1>0, <4>1 DEF AcquireGrant, RequestInProgress, TypeOK
        <5>2. req[d].slot \in Slot /\ req[d].ttl \in Nat
          BY <5>1, TtlAssumption DEF Request
        <5> QED BY <4>1, <5>1, <5>2 DEF AcquireGrant
      <4>2. CASE Renew(d)
        <5>1. PICK u \in Slot : u \in DOMAIN grants /\ Answer(d, u, grants[u].token, grants[u].ttl)
          BY <4>2 DEF Renew, Owns
        <5>2. grants[u].token \in Nat /\ grants[u].ttl \in Nat
          BY <1>0, <5>1, TtlAssumption DEF TypeOK, Grant
        <5> QED BY <5>1, <5>2
      <4> QED BY <2>2, <4>1, <4>2
    <3> QED BY <3>1, <3>2 DEF Answer, Put
  <2> QED BY <1>1, <1>2, <2>1, <2>2
<1>5. UNCHANGED vars \/ Tick \/ (\E s \in Slot : ReadMode(s) \/ OpenOrClose(s)) => UNCHANGED belief
  BY DEF vars, Tick, ReadMode, OpenOrClose
<1> QED BY <1>1, <1>3, <1>4, <1>5 DEF Next

\* A belief that stays the same does not become true: the clock and the number
\* of bench resets only grow, and a release once sent is answered.
LEMMA BeliefOnlyEnds ==
    ASSUME GrantInv, [Next]_vars, NEW c \in Client, Believes(c)',
           c \in DOMAIN belief, belief'[c] = belief[c]
    PROVE  Believes(c) /\ (Swept(c) => Swept(c)')
<1>0. /\ now \in Nat /\ epoch \in Nat /\ belief[c].until \in Nat /\ belief[c].epoch \in Nat
      /\ belief[c].epoch <= epoch /\ pc \in [Client -> Pc]
  BY DEF GrantInv, TypeOK, Belief, NothingFromTheFuture
<1>1. now' \in {now, now + 1} /\ epoch' \in {epoch, epoch + 1}
  <2>1. ASSUME NEW d \in Client, Ask(d) PROVE UNCHANGED <<now, epoch>>
    BY <2>1 DEF Ask, SendAcquire, SendOwner, SendBench, SendDebug, Forget
  <2>2. ASSUME NEW d \in Client, Handle(d) PROVE now' = now /\ epoch' \in {epoch, epoch + 1}
    BY <2>2 DEF Handle, AcquireRefused, AcquireFree, AcquireDebugged, AcquireNotDebugged,
       AcquireStray, AcquireGrant, Renew, RenewRefused, Release, Bench, StartRefused, Start,
       Launch, StartFails, Started, Stop, StopDone, Killed
  <2> QED BY <2>1, <2>2 DEF Next, Tick, ReadMode, OpenOrClose, vars
<1>2. pc[c] # "release"
  <2> SUFFICES ASSUME pc[c] = "release" PROVE FALSE
    OBVIOUS
  <2>1. pc'[c] # "release"
    BY DEF Believes
  <2>2. ASSUME NEW d \in Client, Ask(d) PROVE FALSE
    <3>1. pc[d] = "idle" /\ (pc' = pc \/ \E l : pc' = [pc EXCEPT ![d] = l])
      BY <2>2 DEF Ask, SendAcquire, SendOwner, SendBench, SendDebug, Forget, Send, Goto
    <3> QED BY <1>0, <2>1, <3>1
  <2>3. ASSUME NEW d \in Client, Handle(d) PROVE FALSE
    <3>1. \E l : pc' = [pc EXCEPT ![d] = l]
      BY <2>3 DEF Handle, AcquireRefused, AcquireFree, AcquireDebugged, AcquireNotDebugged,
         AcquireStray, AcquireGrant, Renew, RenewRefused, Release, Bench, StartRefused, Start,
         Launch, StartFails, Started, Stop, StopDone, Killed, Done, Goto
    <3>2. d = c
      BY <1>0, <2>1, <3>1
    <3>3. Release(c)
      BY <2>3, <3>2 DEF Handle, AcquireRefused, AcquireFree, AcquireDebugged, AcquireNotDebugged,
         AcquireStray, AcquireGrant, Renew, RenewRefused, Bench, StartRefused, Start,
         Launch, StartFails, Started, Stop, StopDone, Killed
    <3>4. c \notin DOMAIN belief'
      BY <3>3 DEF Release, Drop
    <3> QED BY <3>4 DEF Believes
  <2>4. UNCHANGED vars \/ Tick \/ (\E s \in Slot : ReadMode(s) \/ OpenOrClose(s)) => UNCHANGED pc
    BY DEF vars, Tick, ReadMode, OpenOrClose
  <2> QED BY <2>1, <2>2, <2>3, <2>4 DEF Next
<1> QED BY <1>0, <1>1, <1>2 DEF Believes, Swept

\* Who becomes the holder of a lease finds no other.
LEMMA NewBeliever ==
    ASSUME GrantInv, [Next]_vars, NEW s \in Slot,
           NEW c \in Client, c \in Holders(s)', c \notin Holders(s)
    PROVE  Holders(s) = {}
<1>0. TypeOK /\ RequestInProgress /\ FreeUntilGranted /\ TokensDiffer /\ BeliefBacked
  BY DEF GrantInv
<1>1. Believes(c)' /\ ~Swept(c)' /\ c \in DOMAIN belief' /\ belief'[c].slot = s
  BY DEF Holders, Outdated, Believers, Believes
<1>2. ~(c \in DOMAIN belief /\ belief'[c] = belief[c])
  BY <1>1, BeliefOnlyEnds DEF Holders, Outdated, Believers
<1>3. CASE AcquireGrant(c)
  <2>1. Answer(c, req[c].slot, issued, req[c].ttl) /\ req[c].slot \notin DOMAIN grants
    BY <1>0, <1>3 DEF AcquireGrant, FreeUntilGranted
  <2>2. belief'[c].slot = req[c].slot
    BY <1>1, <1>2, <2>1 DEF Answer, Put
  <2> QED BY <1>0, <1>1, <2>1, <2>2 DEF Holders, Outdated, Believers, BeliefBacked
<1>4. CASE Renew(c)
  <2>1. PICK u \in Slot : /\ u \in DOMAIN grants /\ grants[u].token = belief[c].token
                          /\ Answer(c, u, grants[u].token, grants[u].ttl)
    BY <1>4 DEF Renew, Owns
  <2>2. c \in DOMAIN belief /\ u = belief[c].slot
    BY <1>0, <1>4, <2>1 DEF Renew, RequestInProgress, TokensDiffer
  <2>3. belief'[c].slot = u
    BY <1>1, <1>2, <2>1 DEF Answer, Put
  <2> SUFFICES ASSUME NEW d \in Holders(s) PROVE FALSE
    OBVIOUS
  <2>4. /\ d \in Client /\ Believes(d) /\ ~Swept(d)
        /\ belief[d].slot = s /\ d \in DOMAIN belief
    BY DEF Holders, Outdated, Believers, Believes
  <2>5. grants[s].token = belief[d].token
    BY <1>0, <2>4 DEF BeliefBacked
  <2>6. d = c
    BY <1>0, <1>1, <2>1, <2>2, <2>3, <2>4, <2>5 DEF TokensDiffer
  <2> QED BY <2>6
<1> QED BY <1>1, <1>2, <1>3, <1>4, BeliefFromAnswer

\* A client is outdated because it was before, or because a bench reset has just
\* made all who believed so.
LEMMA OutdatedStep ==
    ASSUME GrantInv, [Next]_vars, NEW s \in Slot
    PROVE  \/ Outdated(s)' \subseteq Outdated(s)
           \/ Holders(s)' = {} /\ Outdated(s)' = Believers(s)
<1>0. /\ TypeOK /\ RequestInProgress /\ TokensDiffer /\ NothingFromTheFuture
      /\ epoch \in Nat /\ pc \in [Client -> Pc]
      /\ \A c \in DOMAIN belief : belief[c].epoch \in Nat /\ belief[c].epoch <= epoch
  BY DEF GrantInv, TypeOK, Belief, NothingFromTheFuture
<1>1. ASSUME NEW c \in Client, Bench(c)
      PROVE  Holders(s)' = {} /\ Outdated(s)' = Believers(s)
  <2>1. /\ epoch' = epoch + 1 /\ UNCHANGED <<now, belief>>
        /\ pc[c] = "bench" /\ pc' = [pc EXCEPT ![c] = "stop"]
    BY <1>1 DEF Bench, Goto
  <2>2. \A x \in Client : Believes(x)' <=> Believes(x)
    BY <1>0, <2>1 DEF Believes
  <2>3. Believers(s)' = Believers(s)
    BY <2>1, <2>2 DEF Believers
  <2>4. \A x \in Believers(s) : Swept(x)'
    BY <1>0, <2>1 DEF Believers, Believes, Swept
  <2>5. Outdated(s)' = Believers(s)
    BY <2>3, <2>4 DEF Outdated
  <2> QED BY <2>3, <2>5 DEF Holders
<1>2. ASSUME \A c \in Client : ~Bench(c), NEW x \in Outdated(s)'
      PROVE  x \in Outdated(s)
  <2>1. x \in Client /\ Believes(x)' /\ Swept(x)' /\ belief'[x].slot = s /\ x \in DOMAIN belief'
    BY DEF Outdated, Believers, Believes
  <2>2. epoch' = epoch
    <3>1. ASSUME NEW d \in Client, Ask(d) PROVE epoch' = epoch
      BY <3>1 DEF Ask, SendAcquire, SendOwner, SendBench, SendDebug, Forget
    <3>2. ASSUME NEW d \in Client, Handle(d) PROVE epoch' = epoch
      BY <1>2, <3>2 DEF Handle, AcquireRefused, AcquireFree, AcquireDebugged,
         AcquireNotDebugged, AcquireStray, AcquireGrant, Renew, RenewRefused, Release,
         StartRefused, Start, Launch, StartFails, Started, Stop, StopDone, Killed
    <3> QED BY <3>1, <3>2 DEF Next, Tick, ReadMode, OpenOrClose, vars
  <2>3. CASE x \in DOMAIN belief /\ belief'[x] = belief[x]
    <3>1. Believes(x)
      BY <2>1, <2>3, BeliefOnlyEnds
    <3> QED BY <2>1, <2>2, <2>3, <3>1 DEF Outdated, Believers, Swept
  <2>4. CASE ~(x \in DOMAIN belief /\ belief'[x] = belief[x])
    <3>1. AcquireGrant(x) \/ Renew(x)
      BY <2>1, <2>4, BeliefFromAnswer
    <3>2. \E u, k, l : Answer(x, u, k, l)
      BY <3>1 DEF AcquireGrant, Renew
    <3>3. belief'[x].epoch = epoch
      BY <2>1, <2>4, <3>2 DEF Answer, Put
    <3> QED BY <2>1, <2>2, <3>3 DEF Swept
  <2> QED BY <2>3, <2>4
<1> QED BY <1>1, <1>2

\* One holder at most, as a fact about the set.
LEMMA HoldersFew ==
    GrantInv => \A s \in Slot : \A c \in Holders(s) : Holders(s) = {c}
<1> SUFFICES ASSUME GrantInv, NEW s \in Slot, NEW c \in Holders(s)
             PROVE  Holders(s) = {c}
    OBVIOUS
<1>1. ASSUME NEW d \in Holders(s) PROVE d = c
  <2>1. /\ Believes(c) /\ ~Swept(c) /\ Believes(d) /\ ~Swept(d)
        /\ belief[c].slot = belief[d].slot /\ c \in Client /\ d \in Client
    BY <1>1 DEF Holders, Outdated, Believers
  <2>2. belief[c].token = belief[d].token
    BY <2>1 DEF GrantInv, BeliefBacked
  <2> QED BY <2>1, <2>2 DEF GrantInv, TokensDiffer, Believes
<1> QED BY <1>1

\* FR-033 as a whole, for any number of clients and slots: a lease is held by
\* nobody or by one client and passes to another only after nobody did; beside
\* the holder only those believe in it whom a bench reset has swept.
THEOREM LeaseImplementsRevocableUse == Spec => LeasePassedOn
<1> DEFINE Passed == \A s \in Slot : [Lease(s)!Next]_<<Holders(s), Outdated(s)>>
           Few == \A s \in Slot : \A c \in Holders(s) : Holders(s) = {c}
<1>1. Init => \A s \in Slot : Lease(s)!Init
  BY DEF Init, Empty, Lease!Init, Holders, Outdated, Believers, Believes
<1>2. ASSUME GrantInv, Few, Few', [Next]_vars PROVE Passed
  <2> SUFFICES ASSUME NEW s \in Slot
               PROVE  [Lease(s)!Next]_<<Holders(s), Outdated(s)>>
    OBVIOUS
  <2>1. /\ Holders(s)' \subseteq Client /\ Holders(s)' \cap Outdated(s)' = {}
        /\ Believers(s) = Holders(s) \cup Outdated(s)
    BY DEF Holders, Outdated, Believers
  <2>2. CASE Holders(s)' = {} /\ Outdated(s)' = Believers(s)
    <3>1. Outdated(s)' = Outdated(s) \cup Holders(s)
      BY <2>1, <2>2
    <3> QED BY <2>2, <3>1 DEF Lease!Next, Lease!Revoke
  <2>3. CASE Outdated(s)' \subseteq Outdated(s)
    <3>1. CASE Holders(s)' \subseteq Holders(s)
      BY <2>3, <3>1 DEF Lease!Next, Lease!Leave
    <3>2. CASE ~(Holders(s)' \subseteq Holders(s))
      <4>1. PICK c \in Holders(s)' : c \notin Holders(s)
        BY <3>2
      <4>2. Holders(s) = {}
        BY <1>2, <2>1, <4>1, NewBeliever
      <4>3. Holders(s)' = {c} /\ c \in Client
        BY <1>2, <2>1, <4>1
      <4>4. Outdated(s)' \subseteq Outdated(s) \ Holders(s)'
        BY <2>1, <2>3
      <4> QED BY <4>2, <4>3, <4>4 DEF Lease!Next, Lease!Take
    <3> QED BY <3>1, <3>2
  <2> QED BY <1>2, <2>2, <2>3, OutdatedStep
<1>3. GrantInv /\ Few /\ Few' /\ [Next]_vars => [Passed]_vars
  BY <1>2
<1>4. GrantInv => Few
  BY HoldersFew
<1> QED BY <1>1, <1>3, <1>4, GrantInvariant, PTL DEF Spec, LeasePassedOn, Passed

===============================================================================
