\* Two email addresses of one person, three sign-ins or two other requests, two webhook
\* calls at a time.
CONSTANTS
    p = p
    admin = admin
    e1 = e1
    e2 = e2
    nobody = nobody
    Email = {e1, e2, nobody}
    Person = {p, admin}
    Nobody = Nobody
    Elsewhere = Elsewhere
    Request = {1, 2, 3}
    Calls <- MCCalls
    Hook = {h1, h2}
    None = None
SPECIFICATION MCSpec
INVARIANTS
    TypeOK
    AlwaysTheSameAccount
    AuditOnlyOfEdits
    ProIsPaidFor
    OneCustomerUnlessOverlap
PROPERTIES
    EditTakesHold
    PlanSettles
CHECK_DEADLOCK FALSE
