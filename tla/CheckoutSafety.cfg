\* Two submissions, also at once, every outcome, SDK and network may fail, the app
\* answers; fair scheduling of the page.
SPECIFICATION FairSpec
CONSTANTS
    Submissions = {s1, s2}
    Outcomes = {"approved", "authorized", "rejected", "in_process", "pending", "challenge"}
    LateEvents = TRUE
    ReadyTries = 2
    FallbackTries = 2
    Faults = {"sdk", "net"}
INVARIANTS
    TypeOK
    OneVerdict
    DoneMeansPaidOrOpen
PROPERTIES
    SubmissionEnds
    AppIsTold
CHECK_DEADLOCK FALSE
