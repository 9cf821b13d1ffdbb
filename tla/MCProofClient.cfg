\* Every configuration, contract and cut of an answer.
CONSTANTS
    Base = 4
    FpSize = 2
    CountSize = 1
    DurationMod = 8
    Configs <- MCConfigs
    Proofs <- MCProofs
    Digest <- MCDigest
    Contracts <- MCContracts
CHECK_DEADLOCK FALSE
SPECIFICATION Spec
INVARIANTS
    CrashOnlyOnForeignAnswer
    GenuineProofDelivered
    DecodedWordsGenuine
    ShortDigestStops
