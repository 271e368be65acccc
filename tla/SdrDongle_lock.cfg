SPECIFICATION Spec
CONSTANTS
    Thread = {t1, t2}
    None = None
    Posted = {"start_live", "stop_live", "live", "capture", "acquire", "stop", "reset", "bench"}
    Phases = 2
    MaxRequests = 3
INVARIANT SdrInv
PROPERTY Answered
CHECK_DEADLOCK FALSE
