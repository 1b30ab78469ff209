\* Two users, one of them for migration, two requests or scripts at a time, calls and
\* answers lost; four device ids and three tokens.
SPECIFICATION Spec
CONSTANTS
    Users = {u1, u2}
    Targets = {u1}
    Requests = {r1, r2}
    Devices = {d1, d2, d3, d4}
    MaxTokens = 3
    Operations = {"register", "login", "migrate", "activate"}
    Faults = {"backoffice", "abort"}
    None = None
SYMMETRY Symmetry
INVARIANTS
    TypeOK
    AuthStateComplete
    LoginReusesDevice
CHECK_DEADLOCK FALSE
