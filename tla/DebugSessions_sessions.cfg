SPECIFICATION FairSpec
CONSTANTS
    Thread = {t1, t2}
    Slot = {s1, s2}
    Probe = {p1}
    Proc = {q1, q2}
    None = None
    s1 = s1
    s2 = s2
    p1 = p1
    Builtin = {s1}
    Located = {s1, s2}
    Wired <- OneWired
    Kinds = {"start", "stop", "flash", "read", "bench", "reset", "add", "remove"}
    Tries = 1
    MaxRequests = 3
    MaxFaults = 1
INVARIANTS DebugInv NoStray OwnPort
PROPERTIES ProbePassedOn Answered
CHECK_DEADLOCK FALSE
