SPECIFICATION Spec
CONSTANTS
    Thread = {t1, t2}
    Pid = {p1, p2, p3}
    None = None
    Ops = {"start", "stop", "flash", "reset", "add", "remove", "restart", "bench", "monitor", "health"}
    MaxCrash = 1
    MaxReplug = 1
SYMMETRY Symmetry
INVARIANTS LeftServed ResettingEnds
