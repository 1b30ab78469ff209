\* A transfer to an alias, sent up to twice, and a cash-out of one user, two at a time;
\* every fault, cards that come and go; two aliases.
SPECIFICATION Spec
CONSTANTS
    u1 = u1
    u2 = u2
    o1 = o1
    o2 = o2
    a1 = a1
    a2 = a2
    Users = {u1, u2}
    Onboarded = {u1, u2}
    Nameless = {u2}
    Targets = {a1, a2}
    Aliases = {a1, a2}
    Orders = {o1, o2}
    Kind <- MCKind
    Sender <- MCSender
    Target <- MCTarget
    Requests = {r1, r2}
    MaxAttempts <- MCMaxAttempts
    Faults = {"backoffice", "names", "db", "cards"}
    None = None
SYMMETRY Symmetry
INVARIANTS
    AnswerTellsMove
    ReceiptNamesPayee
    SuccessHasReceipt
PROPERTY PinGuardsMoney
CHECK_DEADLOCK FALSE
