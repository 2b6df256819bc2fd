\* Two months, figures 1 and 2 or none yet.
CONSTANTS
    p1 = p1
    p2 = p2
    p3 = p3
    b1 = b1
    b2 = b2
    Month = {1, 2}
    Value = {1, 2}
    Change <- MCChange
    Null = Null
    None = None
    Post = {p1, p2, p3}
    Run = {b1, b2}
    Figures <- MCFigures
SPECIFICATION MCSpec
INVARIANTS
    TypeOK
    RevisionsWithoutGaps
    NextNumberIsFree
    SuccessMeansStored
PROPERTY NoSilentRevision
CHECK_DEADLOCK FALSE
