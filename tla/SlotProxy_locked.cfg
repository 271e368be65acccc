SPECIFICATION Spec
CONSTANTS
    Thread = {t1, t2, t3}
    Pid = {p1, p2, p3}
    None = None
    Ops = {"start", "stop", "flash", "reset", "add", "remove", "monitor"}
    MaxCrash = 1
    MaxReplug = 1
SYMMETRY Symmetry
INVARIANTS SlotInv NoOrphan OneProxy RunningServes
PROPERTY ProxiesPassedOn
