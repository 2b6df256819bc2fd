\* Three tickers for one place in L1, and a weekend from tick 1 to tick 3.
CONSTANTS
    Ticker = {k1, k2, k3}
    Thread = {t1, t2}
    MaxSize = 1
    Base = 2
    Backfill = 1
    Open = {0, 4}
    End = 4
    InRedis = 1
    None = None
SYMMETRY Symmetry
SPECIFICATION MCSpec
INVARIANTS
    L1Sound
PROPERTIES
    ServedIsRecent
    AloneNeverFails
CHECK_DEADLOCK FALSE
