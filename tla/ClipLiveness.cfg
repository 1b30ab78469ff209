\* Two payments, one of a user without complete backoffice data; two pooled connections,
\* so that locks leak; failing topUps, fair scheduling.
SPECIFICATION FairSpec
CONSTANTS
    Payments = {p1, p2}
    Charges = {c1}
    Requests = {r1, r2}
    Sessions = {s1, s2}
    Onboarded = {p1}
    Faults = {"backoffice", "notify"}
    MaxLockDepth = 2
    None = None
PROPERTY ApprovedIsCredited
CHECK_DEADLOCK FALSE
