\* The input hash of the step from block 2 to block 3 begins with a zero byte.
CONSTANTS
    Relayers = {r1}
    MaxHeight = 3
    SkipMax = 2
    StepEnabled = TRUE
    TimeoutTicks = 3
    ProveTicks = 1
    MaxJobs = 2
    MaxFailures = 0
    LeadingZeros <- MCStepInput
SPECIFICATION Spec
INVARIANTS
    BuiltMessagesAccepted
