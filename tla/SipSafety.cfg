\* Two keys, three order ids, one of them of a user without complete backoffice
\* data, two concurrent requests, every fault.
SPECIFICATION Spec
CONSTANTS
    Orders = {o1, o2, o3}
    Keys = {k1, k2}
    Requests = {r1, r2}
    Onboarded = {o1, o2}
    Faults = {"bank", "backoffice", "db", "notify", "crash"}
    None = None
SYMMETRY Symmetry
INVARIANTS
    TypeOK
    NoDuplicateQr
    TopupMarkerSound
    TransactionBeforeCredit
    QrKept
PROPERTY CreditedOnceAndOnlyIfPaid
CHECK_DEADLOCK FALSE
