\* One payment, two possible charges, two concurrent requests, two pooled
\* connections, every fault.
SPECIFICATION Spec
CONSTANTS
    Payments = {p1}
    Charges = {c1, c2}
    Requests = {r1, r2}
    Sessions = {s1, s2}
    Onboarded = {p1}
    Faults = {"provider", "backoffice", "db", "notify", "crash"}
    MaxLockDepth = 1
    None = None
SYMMETRY Symmetry
INVARIANTS
    TypeOK
    TopupMarkerSound
    CompletedOnlyIfApproved
    NoCreditForgotten
PROPERTY CreditedOnceAndOnlyIfPaid
CHECK_DEADLOCK FALSE
