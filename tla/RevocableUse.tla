----------------------------- MODULE RevocableUse -----------------------------
(* What the bench promises of a slot's lease (docs/Harness-FSD.md, FR-032 and *)
(* FR-033): nobody holds it or one client does, and it passes from one to     *)
(* another only through being free.  An operator may take it back from its    *)
(* holder, who is not told: until its next call, or until the lease would     *)
(* have run out, that client is out of date, beside whoever holds it next.    *)
CONSTANT User
VARIABLES
    users,      \* who holds it and thinks so
    stale       \* who still thinks so, and has had it taken back

Init == users = {} /\ stale = {}

\* Whoever asks again is out of date no longer.
Take ==
    /\ users = {}
    /\ \E u \in User : users' = {u}
    /\ stale' \subseteq stale \ users'

Leave == users' \subseteq users /\ stale' \subseteq stale

Revoke == users' = {} /\ stale' = stale \cup users

Next == Take \/ Leave \/ Revoke

Spec == Init /\ [][Next]_<<users, stale>>
=============================================================================
