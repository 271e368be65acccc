SPECIFICATION Spec
CONSTANTS
    Thread = {t1, t2}
    Ssid = {a}
    Net = {n}
    Mac = {m}
    None = None
    Posted = {"ap_start", "ap_stop", "sta_join", "sta_leave", "serial", "testing", "enter_portal", "bench_reset", "scan"}
    SCAN_ATTEMPTS = 2
    MaxRequests = 2
    MaxLeases = 2
INVARIANTS RadioInv OneWatcher
PROPERTIES Answered OneRoleAtATime LeaverForgotten
CHECK_DEADLOCK FALSE
