\* The chain can get further ahead of the client than SKIP_MAX.
CONSTANTS
    Relayers = {r1}
    MaxHeight = 4
    SkipMax = 2
    StepEnabled = TRUE
    TimeoutTicks = 3
    ProveTicks = 1
    MaxJobs = 2
    MaxFailures = 0
    LeadingZeros <- MCNone
SPECIFICATION FairSpec
PROPERTIES
    CatchesUp
