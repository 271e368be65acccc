SPECIFICATION Spec
CONSTANTS
    Rec = {r1, r2}
    Wired = {TRUE, FALSE}
    Keyed = {TRUE}
    PinFaults = FALSE
    FLAP_THRESHOLD = 2
    FLAP_MAX_RETRIES = 1
    Prompt = TRUE
    Overtake = 1
    MaxManual = 1
    MaxAttempts = 2
    MaxCycles = 1
    MaxUnplugs = 1
INVARIANTS FlapInv RetryLimit FailedReleasesBoot PresentSettles
SYMMETRY Symmetry
CHECK_DEADLOCK FALSE
