SPECIFICATION FairSpec
CONSTANTS
    Thread = {t1, t2}
    None = None
    Channel = {c0, c2}
    Freq = {f1, f2}
    SI5351 = TRUE
    BusFaults = TRUE
    MaxStarts = 4
INVARIANTS SigInv ClockAsShown
PROPERTY Answered
CHECK_DEADLOCK FALSE
