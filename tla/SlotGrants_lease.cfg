SPECIFICATION Spec
CONSTANTS
    Client = {c1, c2}
    Slot = {s1}
    None = None
    Ttl = {1, 2}
    Ops = {"acquire", "renew", "release", "bench", "debug", "open"}
    MaxTime = 3
    MaxToken = 2
    MaxEpoch = 1
INVARIANTS GrantInv
PROPERTIES LeasePassedOn NoPreemption SweptPowerless
SYMMETRY Symmetry
CHECK_DEADLOCK FALSE
