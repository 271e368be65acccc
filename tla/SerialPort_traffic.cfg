SPECIFICATION FairSpec
CONSTANTS
    Monitor = {m1}
    Writer = {w1}
    Kinds = {"monitor", "jtag", "watch"}
    Client = {c1}
    Recorder = Recorder
    None = None
    WRITE_ATTEMPTS = 2
    BACKLOG = 1
    Buffer = 1
    Stalls = FALSE
    MaxLines = 2
    MaxStarts = 1
    MaxCalls = 2
INVARIANTS PortInv InOrder Truthful
CHECK_DEADLOCK FALSE
PROPERTIES Recorded RecorderReturns
