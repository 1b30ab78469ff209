\* Two people, two devices, two challenges, two requests at a time; the lifetime of a
\* challenge is one tick of three.
SPECIFICATION Spec
CONSTANTS
    u1 = u1
    u2 = u2
    k1 = k1
    k2 = k2
    Users = {u1, u2}
    Keys = {k1, k2}
    KeyOf <- MCKeyOf
    Devices = {d1, d2}
    Challenges = {c1, c2}
    Requests = {r1, r2}
    Lifetime = 1
    MaxTime = 2
    Faults = {"abort"}
    None = None
SYMMETRY Symmetry
INVARIANTS
    SignerLogsIn
    LoginClosesChallenge
PROPERTY ClosedStaysClosed
CHECK_DEADLOCK FALSE
