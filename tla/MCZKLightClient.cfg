\* A chain no fork is reachable from; block.timestamp in nanoseconds, as the
\* repository's tests set it.
CONSTANTS
    Clients = {c1, c2}
    MaxHeight = 4
    MaxTimestamp = 6
    NanosPerSecond = 2
    BlockTimestampUnit = 1
    a1 = a1
    a2 = a2
    r1 = r1
    r2 = r2
    digestStep = digestStep
    digestSkip = digestSkip
    digestOther = digestOther
    badLength = badLength
    AppHashes = {a1, a2}
    Rests = {r1, r2}
    Headers <- MCHeaders
    Chain <- MCChain
    StepLinks <- MCStepLinks
    SkipLinks <- MCSkipLinks
    Digests <- MCDigests
    stepVerifierDigest = digestStep
    skipVerifierDigest = digestSkip
    revisionNumber = 0
    RevisionNumbers = {0, 1}
    BadLength = badLength
    ProtoClientStates <- MCProtoClientStates
    ProtoConsensusStates <- MCProtoConsensusStates
    UpdateStateInputs <- MCUpdateStateInputs
SPECIFICATION Spec
INVARIANTS
    TypeOK
    Certified
    LatestHeightStored
    AnchorKept
    HonestUpdateAccepted
PROPERTIES
    StoredNeverRewritten
    ExpiredClientFrozen
    ImplementsTrustStore
CHECK_DEADLOCK FALSE
