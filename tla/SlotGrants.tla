------------------------------ MODULE SlotGrants ------------------------------
(* The access manager of pi/portal.py: leases on slots, granted, renewed,     *)
(* released and lazily reclaimed under _grants_lock, together with what it    *)
(* reads while it holds that lock: the debug sessions of                      *)
(* pi/debug_controller.py (under a lock of their own) and the processes that  *)
(* have the slot's device node open.                                          *)
(*                                                                            *)
(* Clients keep their own idea of how long they hold a slot, counted from the *)
(* moment they sent the request.  Answers may be lost.  A Python dict is a    *)
(* function whose domain is the keys it holds.                                *)
EXTENDS Naturals

CONSTANTS
    Client,     \* request threads, each serving one client at a time
    Slot,       \* slot labels
    None,       \* Python's None
    Ttl,        \* lease lengths clients ask for, after clamping to [1, 3600]
    Ops,        \* the requests made in this instance
    MaxTime,    \* bound on the clock
    MaxToken,   \* bound: no acquire is sent once so many grants were issued
    MaxEpoch    \* bound on the bench resets

AllOps == {"acquire", "renew", "release", "bench", "debug", "open"}

ASSUME OpsAssumption   == Ops \subseteq AllOps
ASSUME TtlAssumption   == Ttl \subseteq Nat \ {0} /\ Ttl # {}
ASSUME NoneAssumption  == None \notin Client
ASSUME BoundAssumption == MaxTime \in Nat /\ MaxToken \in Nat /\ MaxEpoch \in Nat

VARIABLES
    now,        \* time.time()
    grants,     \* _grants: slot |-> its grant
    issued,     \* how many tokens uuid4 has handed out
    glock,      \* owner of _grants_lock
    dlock,      \* owner of debug_controller._lock
    sessions,   \* debug_controller._sessions
    openocd,    \* slots whose USB interface an OpenOCD process has claimed
    opener,     \* who has each slot's device node open
    epoch,      \* bench resets so far
    pc,         \* where each client's request is
    req,        \* client |-> the request in progress, and when it was sent
    belief      \* client |-> what it knows of the grant it was given

debug == <<dlock, sessions, openocd>>
vars  == <<now, grants, issued, glock, dlock, sessions, openocd, opener,
           epoch, pc, req, belief>>

Mode    == {"flashing", "debugging"}    \* any working mode, and debugging
Grant   == [token : Nat, mode : Mode, ttl : Ttl, expires : Nat]
Request == [slot : Slot, mode : Mode, ttl : Ttl, sent : Nat, todo : SUBSET Slot]
Belief  == [slot : Slot, token : Nat, until : Nat, epoch : Nat]

Pc == {"idle", "acquire", "check", "scan", "renew", "release", "bench",
       "start", "launch", "wait", "stop", "kill"}

\* "proxy": the recorded proxy; "starting": a proxy that start_proxy has
\* spawned and not recorded yet; "foreign": any other process, esptool included.
Opener == {"nobody", "proxy", "starting", "foreign"}

TypeOK ==
    /\ now \in Nat /\ issued \in Nat /\ epoch \in Nat
    /\ DOMAIN grants \subseteq Slot
    /\ \A s \in DOMAIN grants : grants[s] \in Grant
    /\ glock \in Client \cup {None} /\ dlock \in Client \cup {None}
    /\ sessions \subseteq Slot /\ openocd \subseteq Slot
    /\ opener \in [Slot -> Opener]
    /\ pc \in [Client -> Pc]
    /\ DOMAIN req \subseteq Client
    /\ \A c \in DOMAIN req : req[c] \in Request
    /\ DOMAIN belief \subseteq Client
    /\ \A c \in DOMAIN belief : belief[c] \in Belief

Empty == [x \in {} |-> x]

Init ==
    /\ now = 0 /\ issued = 0 /\ epoch = 0
    /\ grants = Empty /\ req = Empty /\ belief = Empty
    /\ glock = None /\ dlock = None
    /\ sessions = {} /\ openocd = {}
    /\ opener = [s \in Slot |-> "proxy"]
    /\ pc = [c \in Client |-> "idle"]

-----------------------------------------------------------------------------
DefaultTtl == CHOOSE d \in Ttl : TRUE      \* any: only acquire reads it

Put(f, k, v) == [x \in DOMAIN f \cup {k} |-> IF x = k THEN v ELSE f[x]]
Drop(f, k)   == [x \in DOMAIN f \ {k} |-> f[x]]

Expired(g) == now >= g.expires

\* _live_grant returns the slot's grant, or drops it and returns None.
HeldNever(s)  == s \in DOMAIN grants /\ FALSE       \* mutant
Held(s)       == s \in DOMAIN grants /\ ~Expired(grants[s])

Goto(c, l) == pc' = [pc EXCEPT ![c] = l]

\* The request is answered.
Done(c) == Goto(c, "idle") /\ req' = Drop(req, c)

Send(c, l, s, m, d, stops) ==
    /\ pc[c] = "idle"
    /\ Goto(c, l)
    /\ req' = Put(req, c, [slot |-> s, mode |-> m, ttl |-> d, sent |-> now,
                           todo |-> stops])

\* A granted answer reaches the client, or is lost on the way; so does the
\* refusal of a renewal.
Answer(c, s, k, d) ==
    belief' \in {belief, Put(belief, c, [slot |-> s, token |-> k,
                                         until |-> req[c].sent + d,
                                         epoch |-> epoch])}

-----------------------------------------------------------------------------
(* What clients ask for. *)

SendAcquire(c) ==
    /\ "acquire" \in Ops /\ c \notin DOMAIN belief /\ issued < MaxToken
    /\ \E s \in Slot, m \in Mode, d \in Ttl : Send(c, "acquire", s, m, d, {})
    /\ UNCHANGED <<now, grants, issued, glock, debug, opener, epoch, belief>>

\* Renewals and releases name a token; only its owner has it.
SendOwner(c) ==
    /\ c \in DOMAIN belief
    /\ \E o \in Ops \cap {"renew", "release"} :
         Send(c, o, belief[c].slot, "flashing", DefaultTtl, {})
    /\ UNCHANGED <<now, grants, issued, glock, debug, opener, epoch, belief>>

SendBench(c) ==
    /\ "bench" \in Ops /\ epoch < MaxEpoch
    /\ \E s \in Slot : Send(c, "bench", s, "flashing", DefaultTtl, Slot)
    /\ UNCHANGED <<now, grants, issued, glock, debug, opener, epoch, belief>>

SendDebug(c) ==
    /\ "debug" \in Ops
    /\ \E s \in Slot, o \in {"start", "stop"} :
         Send(c, o, s, "debugging", DefaultTtl, {s})
    /\ UNCHANGED <<now, grants, issued, glock, debug, opener, epoch, belief>>

\* The client gives up on a lease it knows to be over.
Forget(c) ==
    /\ c \in DOMAIN belief /\ pc[c] = "idle" /\ now >= belief[c].until
    /\ belief' = Drop(belief, c)
    /\ UNCHANGED <<now, grants, issued, glock, debug, opener, epoch, pc, req>>

-----------------------------------------------------------------------------
(* slot_acquire: the lock is held from the first test to the grant. *)

AcquireRefused(c) ==
    /\ pc[c] = "acquire" /\ glock = None /\ Held(req[c].slot)
    /\ Done(c)
    /\ UNCHANGED <<now, grants, issued, glock, debug, opener, epoch, belief>>

AcquireFree(c) ==
    /\ pc[c] = "acquire" /\ glock = None /\ ~Held(req[c].slot)
    /\ glock' = c
    /\ grants' = Drop(grants, req[c].slot)
    /\ Goto(c, IF req[c].mode = "debugging" THEN "scan" ELSE "check")
    /\ UNCHANGED <<now, issued, debug, opener, epoch, req, belief>>

\* A refusal leaves the `with` block like any other return.
Refused(c) == glock' = None

\* is_debugging waits for the debug controller's lock.
AcquireDebugged(c) ==
    /\ pc[c] = "check" /\ dlock = None /\ req[c].slot \in sessions
    /\ Refused(c)
    /\ Done(c)
    /\ UNCHANGED <<now, grants, issued, debug, opener, epoch, belief>>

AcquireNotDebugged(c) ==
    /\ pc[c] = "check" /\ dlock = None /\ req[c].slot \notin sessions
    /\ Goto(c, "scan")
    /\ UNCHANGED <<now, grants, issued, glock, debug, opener, epoch, req, belief>>

\* _unexpected_holders knows the proxy by the pid the slot records.
Stray(s) == opener[s] \in {"starting", "foreign"}

AcquireStray(c) ==
    /\ pc[c] = "scan" /\ Stray(req[c].slot)
    /\ Refused(c)
    /\ Done(c)
    /\ UNCHANGED <<now, grants, issued, debug, opener, epoch, belief>>

AcquireGrant(c) ==
    /\ pc[c] = "scan" /\ ~Stray(req[c].slot)
    /\ LET r == req[c] IN
         /\ grants' = Put(grants, r.slot,
                          [token |-> issued, mode |-> r.mode, ttl |-> r.ttl,
                           expires |-> now + r.ttl])
         /\ Answer(c, r.slot, issued, r.ttl)
    /\ issued' = issued + 1
    /\ glock' = None
    /\ Done(c)
    /\ UNCHANGED <<now, debug, opener, epoch>>

-----------------------------------------------------------------------------
(* slot_renew, slot_release, and any reader that asks for the slot's mode. *)

Owns(c, s) == s \in DOMAIN grants /\ grants[s].token = belief[c].token

\* time.time() + ttl, with the ttl of the grant itself.
RenewedUntilOld(g) == g.expires                     \* mutant
RenewedUntil(g) == now + g.ttl

Renew(c) ==
    /\ pc[c] = "renew" /\ glock = None
    /\ \E s \in Slot :
         /\ Owns(c, s) /\ ~Expired(grants[s])
         /\ grants' = [grants EXCEPT ![s].expires = RenewedUntil(grants[s])]
         /\ Answer(c, s, grants[s].token, grants[s].ttl)
    /\ Done(c)
    /\ UNCHANGED <<now, issued, glock, debug, opener, epoch>>

RenewRefused(c) ==
    /\ pc[c] = "renew" /\ glock = None
    /\ \A s \in Slot : Owns(c, s) => Expired(grants[s])
    /\ belief' \in {belief, Drop(belief, c)}
    /\ Done(c)
    /\ UNCHANGED <<now, grants, issued, glock, debug, opener, epoch>>

ReleasedAny(c) == DOMAIN grants                     \* mutant
Released(c) == {s \in DOMAIN grants : Owns(c, s)}

Release(c) ==
    /\ pc[c] = "release" /\ glock = None
    /\ grants' = [s \in DOMAIN grants \ Released(c) |-> grants[s]]
    /\ belief' = Drop(belief, c)
    /\ Done(c)
    /\ UNCHANGED <<now, issued, glock, debug, opener, epoch>>

ReadMode(s) ==
    /\ glock = None /\ s \in DOMAIN grants /\ Expired(grants[s])
    /\ grants' = Drop(grants, s)
    /\ UNCHANGED <<now, issued, glock, debug, opener, epoch, pc, req, belief>>

\* bench_reset forgets every grant, then stops the debug sessions in turn.
Bench(c) ==
    /\ pc[c] = "bench" /\ glock = None
    /\ grants' = Empty
    /\ epoch' = epoch + 1
    /\ Goto(c, "stop")
    /\ UNCHANGED <<now, issued, glock, debug, opener, req, belief>>

-----------------------------------------------------------------------------
(* debug_controller.start and stop hold its lock throughout. *)

StartRefused(c) ==
    /\ pc[c] = "start" /\ dlock = None /\ req[c].slot \in sessions
    /\ Done(c)
    /\ UNCHANGED <<now, grants, issued, glock, debug, opener, epoch, belief>>

Start(c) ==
    /\ pc[c] = "start" /\ dlock = None /\ req[c].slot \notin sessions
    /\ dlock' = c
    /\ Goto(c, "launch")
    /\ UNCHANGED <<now, grants, issued, glock, sessions, openocd, opener, epoch,
                   req, belief>>

Launch(c) ==
    /\ pc[c] = "launch"
    /\ openocd' = openocd \cup {req[c].slot}
    /\ Goto(c, "wait")
    /\ UNCHANGED <<now, grants, issued, glock, dlock, sessions, opener, epoch,
                   req, belief>>

StartFails(c) ==
    /\ pc[c] \in {"launch", "wait"}
    /\ openocd' = openocd \ {req[c].slot}
    /\ dlock' = None
    /\ Done(c)
    /\ UNCHANGED <<now, grants, issued, glock, sessions, opener, epoch, belief>>

Started(c) ==
    /\ pc[c] = "wait"
    /\ sessions' = sessions \cup {req[c].slot}
    /\ dlock' = None
    /\ Done(c)
    /\ UNCHANGED <<now, grants, issued, glock, openocd, opener, epoch, belief>>

Stop(c) ==
    /\ pc[c] = "stop" /\ dlock = None
    /\ \E s \in req[c].todo \cap sessions :
         /\ sessions' = sessions \ {s}
         /\ req' = [req EXCEPT ![c].slot = s, ![c].todo = @ \ {s}]
    /\ dlock' = c
    /\ Goto(c, "kill")
    /\ UNCHANGED <<now, grants, issued, glock, openocd, opener, epoch, belief>>

StopDone(c) ==
    /\ pc[c] = "stop" /\ dlock = None /\ req[c].todo \cap sessions = {}
    /\ Done(c)
    /\ UNCHANGED <<now, grants, issued, glock, debug, opener, epoch, belief>>

Killed(c) ==
    /\ pc[c] = "kill"
    /\ openocd' = openocd \ {req[c].slot}
    /\ dlock' = None
    /\ Goto(c, "stop")
    /\ UNCHANGED <<now, grants, issued, glock, sessions, opener, epoch, req, belief>>

-----------------------------------------------------------------------------
(* The device node and the clock. *)

\* start_proxy and stop_proxy, and anyone else opening the node.
OpenOrClose(s) ==
    /\ "open" \in Ops
    /\ \/ opener[s] = "nobody"   /\ opener' = [opener EXCEPT ![s] = "starting"]
       \/ opener[s] = "nobody"   /\ opener' = [opener EXCEPT ![s] = "foreign"]
       \/ opener[s] = "starting" /\ opener' = [opener EXCEPT ![s] = "proxy"]
       \/ opener[s] # "nobody"   /\ opener' = [opener EXCEPT ![s] = "nobody"]
    /\ UNCHANGED <<now, grants, issued, glock, debug, epoch, pc, req, belief>>

\* Only a thread that waits for a lock or for OpenOCD lets time pass: every
\* other step takes much less than the shortest lease, one second.
Waits(c) ==
    \/ pc[c] \in {"idle", "launch", "wait", "kill"}
    \/ pc[c] \in {"acquire", "renew", "release", "bench"} /\ glock # None
    \/ pc[c] \in {"check", "start", "stop"} /\ dlock # None

Tick ==
    /\ now < MaxTime
    /\ \A c \in Client : Waits(c)
    /\ now' = now + 1
    /\ UNCHANGED <<grants, issued, glock, debug, opener, epoch, pc, req, belief>>

Ask(c) == SendAcquire(c) \/ SendOwner(c) \/ SendBench(c) \/ SendDebug(c) \/ Forget(c)

Handle(c) ==
    \/ AcquireRefused(c) \/ AcquireFree(c)
    \/ AcquireDebugged(c) \/ AcquireNotDebugged(c)
    \/ AcquireStray(c) \/ AcquireGrant(c)
    \/ Renew(c) \/ RenewRefused(c) \/ Release(c) \/ Bench(c)
    \/ StartRefused(c) \/ Start(c) \/ Launch(c) \/ StartFails(c) \/ Started(c)
    \/ Stop(c) \/ StopDone(c) \/ Killed(c)

Next ==
    \/ \E c \in Client : Ask(c) \/ Handle(c)
    \/ \E s \in Slot : ReadMode(s) \/ OpenOrClose(s)
    \/ Tick

Spec == Init /\ [][Next]_vars

\* is_debugging, from inside slot_acquire.
AskDebugger(c) == AcquireDebugged(c) \/ AcquireNotDebugged(c)

\* Every request thread runs on.  Neither lock is handed out in order, but a
\* thread that finds the debug controller's lock free time and again gets it
\* once: that is all the fairness asked of Python's lock.
FairSpec ==
    /\ Spec
    /\ \A c \in Client : WF_vars(Handle(c)) /\ SF_vars(AskDebugger(c))

-----------------------------------------------------------------------------
(* Properties. *)

\* A client that counts its lease from the moment it asked, and has not begun
\* to give it back, thinks it holds the slot.  Nobody tells it of a bench reset.
Believes(c) == c \in DOMAIN belief /\ pc[c] # "release" /\ now < belief[c].until

\* A bench reset has taken the lease back since.
Swept(c) == belief[c].epoch # epoch

\* The inductive invariant behind OneBeliever: the two locks are held exactly
\* in the critical sections, a thread past the first test of slot_acquire
\* finds the slot free until it grants, no two grants share a token, a swept
\* lease has no grant, no lease runs longer than its ttl, and what a client that
\* was not swept believes is backed by a grant that lasts at least as long.
LocksHeldInside ==
    \A c \in Client : /\ glock = c <=> pc[c] \in {"check", "scan"}
                      /\ dlock = c <=> pc[c] \in {"launch", "wait", "kill"}

RequestInProgress ==
    \A c \in Client : /\ c \in DOMAIN req <=> pc[c] # "idle"
                      /\ c \in DOMAIN req => req[c].sent <= now
                      /\ pc[c] \in {"renew", "release"} => c \in DOMAIN belief

FreeUntilGranted ==
    \A c \in Client : pc[c] \in {"check", "scan"} => req[c].slot \notin DOMAIN grants

TokensDiffer ==
    /\ \A s \in DOMAIN grants : grants[s].token < issued
    /\ \A c \in DOMAIN belief : belief[c].token < issued
    /\ \A s, u \in DOMAIN grants : grants[s].token = grants[u].token => s = u
    /\ \A c, d \in DOMAIN belief : belief[c].token = belief[d].token => c = d
    /\ \A s \in DOMAIN grants, c \in DOMAIN belief :
         grants[s].token = belief[c].token => s = belief[c].slot /\ ~Swept(c)

BeliefBacked ==
    \A c \in Client : Believes(c) /\ ~Swept(c) =>
        /\ belief[c].slot \in DOMAIN grants
        /\ grants[belief[c].slot].token = belief[c].token
        /\ grants[belief[c].slot].expires >= belief[c].until

NothingFromTheFuture ==
    /\ \A s \in DOMAIN grants : grants[s].expires <= now + grants[s].ttl
    /\ \A c \in DOMAIN belief : belief[c].epoch <= epoch

GrantInv ==
    /\ TypeOK
    /\ LocksHeldInside
    /\ RequestInProgress
    /\ FreeUntilGranted
    /\ TokensDiffer
    /\ NothingFromTheFuture
    /\ BeliefBacked

\* FR-033: never do two clients both believe that they hold the same slot, unless
\* a bench reset has taken the lease of one of them back.
OneBeliever ==
    \A c, d \in Client :
        Believes(c) /\ Believes(d) /\ c # d /\ belief[c].slot = belief[d].slot
        => Swept(c) \/ Swept(d)

\* FR-033 as a whole: a slot's lease is held by nobody or by one client that
\* knows of it, passes to another only after nobody did, and the clients that
\* believe in it beside the holder are those a bench reset has swept, no other.
Believers(s) == {c \in Client : Believes(c) /\ belief[c].slot = s}
Outdated(s)  == {c \in Believers(s) : Swept(c)}
Holders(s)   == Believers(s) \ Outdated(s)
Lease(s) == INSTANCE RevocableUse
                WITH User <- Client, users <- Holders(s), stale <- Outdated(s)
LeasePassedOn ==
    /\ \A s \in Slot : Lease(s)!Init
    /\ [][\A s \in Slot : [Lease(s)!Next]_<<Holders(s), Outdated(s)>>]_vars

\* FR-032: whatever a swept client calls next, and whoever holds the slot by
\* then, its call changes nobody's grant and lengthens nothing it believes.
SweptPowerless ==
    [][\A c \in DOMAIN belief :
         Swept(c) /\ pc[c] \in {"renew", "release"} /\ pc'[c] = "idle"
         => /\ DOMAIN grants' = DOMAIN grants
            /\ \A s \in DOMAIN grants : grants'[s] = grants[s]
            /\ c \in DOMAIN belief' => belief'[c] = belief[c]]_vars

\* FR-033: a live grant is never pre-empted.  It goes when its owner releases
\* it or a bench reset sweeps it away, and by no other call.
NoPreemption ==
    [][\A s \in DOMAIN grants :
         ~Expired(grants[s]) /\ (s \in DOMAIN grants' =>
                                  grants'[s].token # grants[s].token)
         => \/ epoch' # epoch
            \/ \E c \in DOMAIN belief : pc[c] = "release" /\ Owns(c, s)]_vars

\* FR-032: a renewal sent while the client's lease ran is never refused.
RenewerKeeps ==
    [][\A c \in Client :
         pc[c] = "renew" /\ ~Swept(c)
             /\ req[c].sent < belief[c].until
         => c \in DOMAIN belief']_vars

\* FR-035: while OpenOCD has a slot's USB interface, nobody holds the slot for
\* anything but debugging.
DebugExcludesWork ==
    \A s \in openocd \cap DOMAIN grants :
        ~Expired(grants[s]) => grants[s].mode = "debugging"

\* FR-034: the manager's own proxy is never the reason for a refusal.
OwnProxyIsNoStray ==
    \A c \in Client : pc[c] = "scan" /\ Stray(req[c].slot)
        => opener[req[c].slot] = "foreign"

\* Whoever takes _grants_lock gives it back, though it waits for the debug
\* controller's lock while it holds it.
GrantsLockReleased == \A c \in Client : glock = c ~> glock # c
=============================================================================
