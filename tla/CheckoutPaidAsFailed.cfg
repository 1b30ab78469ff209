\* One submission that goes through 3DS; nothing fails.
SPECIFICATION Spec
CONSTANTS
    Submissions = {s1}
    Outcomes = {"challenge"}
    LateEvents = FALSE
    ReadyTries = 2
    FallbackTries = 2
    Faults = {}
INVARIANT FailedMeansNotPaid
CHECK_DEADLOCK FALSE
