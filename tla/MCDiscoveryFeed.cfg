\* Two publications of two possible dates, one of them outside the window, and
\* a reader.
CONSTANTS
    Date = {1, 3}
    a = a
    b = b
    Ticker = {a, b}
    Post = {p1, p2}
    Scans <- MCScans
    Get = {g1}
    Days = {1}
    Today = 3
    DayKey = DayKey
    Nothing = Nothing
SPECIFICATION FairSpec
INVARIANTS
    TypeOK
    ServedWasCommitted
    StaleOnlyByRace
PROPERTY EventuallyFresh
