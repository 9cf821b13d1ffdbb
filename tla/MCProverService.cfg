\* Three callers; two retries.
CONSTANTS
    Clients = {c1, c2, c3}
    c1 = c1
    c2 = c2
    c3 = c3
    Gaps <- MCGaps
    SkipMax = 4
    StepEnabled = TRUE
    Retries = 2
SPECIFICATION FairSpec
INVARIANTS
    PermitHeldByHandler
    GivesUpAfterRetries
    DelayBounded
PROPERTY RequestsEnd
