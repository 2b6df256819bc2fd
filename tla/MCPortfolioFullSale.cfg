\* Requests, accounts and holdings of the instance.
CONSTANTS
    ann = ann
    bob = bob
    h1 = h1
    r1 = r1
    User = {ann, bob}
    Stock = {h1}
    OpeningRows <- MCRows
    Request = {r1, r2, r3}
    Calls <- MCCalls
    Opening = Opening
    NoRow = NoRow
    NoHolding = NoHolding
SPECIFICATION Spec
INVARIANT WholeHoldingCanBeSold
CHECK_DEADLOCK FALSE
