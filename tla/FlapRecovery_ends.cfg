SPECIFICATION FairSpec
CONSTANTS
    Rec = {r1, r2}
    Wired = {TRUE, FALSE}
    Keyed = {TRUE, FALSE}
    PinFaults = TRUE
    FLAP_THRESHOLD = 2
    FLAP_MAX_RETRIES = 1
    Prompt = FALSE
    Overtake = 0
    MaxManual = 0
    MaxAttempts = 1
    MaxCycles = 1
    MaxUnplugs = 1
PROPERTY RecoveryEnds
CHECK_DEADLOCK FALSE
