\* Two relayers, a timer that can fire before the proof comes, wrong and failed
\* answers.
CONSTANTS
    Relayers = {r1, r2}
    MaxHeight = 3
    SkipMax = 2
    StepEnabled = TRUE
    TimeoutTicks = 3
    ProveTicks = 1
    MaxJobs = 3
    MaxFailures = 1
    LeadingZeros <- MCNone
SPECIFICATION FairSpec
INVARIANTS
    TypeOK
    BuiltMessagesAccepted
PROPERTIES
    ProofInTimeReceived
    GoroutinesEnd
