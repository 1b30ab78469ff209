\* Two users, one of them without an ewallet_id, a card that requests and scripts may
\* order or a virtual one, two requests or scripts at a time, lost calls and answers.
SPECIFICATION MCSpec
CONSTANTS
    Users = {u1, u2}
    CardIds = {p1, v1}
    Physical = {p1}
    WithProfile = {u1, u2}
    WithCustomer = {u1, u2}
    WithWallet = {u1}
    ScriptUser = u2
    DefaultWallet = DefaultWallet
    Requests = {r1, r2}
    Operations = {"activate", "details", "stop", "unstop", "cvv", "unlink", "assign", "virtual", "request", "activateScript", "usersScript", "noUserScript", "notification"}
    Faults = {"issuer", "abort"}
    None = None
SYMMETRY Symmetry
CONSTRAINT OneCard
INVARIANTS
    TypeOK
    
    ActiveOnlyIfActivated
    SpendsForHolder
    OrderedCardsRecorded
    RowMatchesIssuer
PROPERTY UnlinkedIsRetired
CHECK_DEADLOCK FALSE
