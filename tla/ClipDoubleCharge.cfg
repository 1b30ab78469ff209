\* Two requests at a time, no faults.
SPECIFICATION Spec
CONSTANTS
    Payments = {p1}
    Charges = {c1, c2}
    Requests = {r1, r2}
    Sessions = {s1}
    Onboarded = {p1}
    Faults = {}
    MaxLockDepth = 2
    None = None
PROPERTY NoDoubleCharge
CHECK_DEADLOCK FALSE
