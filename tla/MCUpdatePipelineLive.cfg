\* A prover that answers within the timeout; every gap is within SKIP_MAX; the
\* output hash of one block begins with a zero byte, so its update reverts.
CONSTANTS
    Relayers = {r1, r2}
    MaxHeight = 3
    SkipMax = 2
    StepEnabled = TRUE
    TimeoutTicks = 4
    ProveTicks = 1
    MaxJobs = 2
    MaxFailures = 1
    LeadingZeros <- MCOutputOfTwo
SPECIFICATION FairSpec
PROPERTIES
    CatchesUp
