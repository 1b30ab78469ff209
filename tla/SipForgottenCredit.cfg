\* The topup fails once and the bank repeats the callback.
SPECIFICATION Spec
CONSTANTS
    Orders = {o1}
    Keys = {k1}
    Requests = {r1, r2}
    Onboarded = {o1}
    Faults = {"backoffice"}
    None = None
INVARIANT NoCreditForgotten
CHECK_DEADLOCK FALSE
