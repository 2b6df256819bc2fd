\* A limit of two requests in two ticks, four requests, and time for two windows.
CONSTANTS
    Request = {r1, r2, r3, r4}
    Max = 2
    Window = 2
    Horizon = 5
    None = None
SPECIFICATION Spec
INVARIANT RefusedOnlyOverLimit
CHECK_DEADLOCK FALSE
