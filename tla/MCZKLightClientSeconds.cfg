\* block.timestamp in coarser units than header times, as on an EVM chain, where
\* it counts seconds and header times count nanoseconds.
CONSTANTS
    Clients = {c1}
    MaxHeight = 4
    MaxTimestamp = 6
    NanosPerSecond = 2
    BlockTimestampUnit = 2
    a1 = a1
    a2 = a2
    r1 = r1
    r2 = r2
    digestStep = digestStep
    digestSkip = digestSkip
    digestOther = digestOther
    badLength = badLength
    AppHashes = {a1, a2}
    Rests = {r1, r2}
    Headers <- MCHeaders
    Chain <- MCChain
    StepLinks <- MCStepLinks
    SkipLinks <- MCSkipLinks
    Digests <- MCDigests
    stepVerifierDigest = digestStep
    skipVerifierDigest = digestSkip
    revisionNumber = 0
    RevisionNumbers = {0, 1}
    BadLength = badLength
    ProtoClientStates <- MCProtoClientStates
    ProtoConsensusStates <- MCProtoConsensusStates
    UpdateStateInputs <- MCUpdateStateInputs
SPECIFICATION Spec
PROPERTIES
    ExpiredClientFrozen
CHECK_DEADLOCK FALSE
