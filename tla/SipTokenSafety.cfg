\* Two requests, answers that take up to the timeout, every fault; fair scheduling.
SPECIFICATION FairTokenSpec
CONSTANTS
    Callers = {r1, r2}
    Validity = 5
    Ttl = 3
    Timeout = 2
    MaxTime = 6
    TokenFaults = {"auth", "revoked", "error", "crash", "denied"}
    NoTime = NoTime
INVARIANTS
    CachedTokenValid
    OneQrPerRequest
PROPERTY RequestsAnswered
CHECK_DEADLOCK FALSE
