\* One account, three requests.
CONSTANTS
    me = me
    l1 = l1
    User = {me}
    Text <- MCText
    Upper <- MCUpper
    Ticker <- MCTicker
    Cap = 2
    Stock = {l1}
    Request = {r1, r2, r3}
    Calls <- MCCalls
    Opening <- MCOpening
    Default = Default
    NoRow = NoRow
    NoData = NoData
    Visits = 1
    Typed <- MCTyped
    saved <- MCSaved
    defaultQuickTickers <- MCBar
SYMMETRY Requests
SPECIFICATION PageSpec
INVARIANT FailedEditIsUndone
\* Every request may have been answered.
CHECK_DEADLOCK FALSE
