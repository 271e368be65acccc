SPECIFICATION Spec
CONSTANTS
    Thread = {t1, t2}
    Pid = {p1, p2}
    None = None
    Ops = {"add", "flash"}
    MaxCrash = 0
    MaxReplug = 1
INVARIANT OneUser
