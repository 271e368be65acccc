----------------------------- MODULE ExclusiveUse -----------------------------
(* What the bench promises of each thing that only one party can use: a       *)
(* slot's ports (docs/Harness-FSD.md, FR-034), a debug probe (FR-026), the    *)
(* WiFi radio, the SDR dongle.  It is free or has exactly one user, and       *)
(* passes from one to another only through being free.                        *)
CONSTANT User
VARIABLE users      \* those who use it

Init == users = {}

Open == users = {} /\ users' \subseteq User /\ \E u \in users' : users' = {u}

Close == users # {} /\ users' = {}

Next == Open \/ Close

Spec == Init /\ [][Next]_users
=============================================================================
