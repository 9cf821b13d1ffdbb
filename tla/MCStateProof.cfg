\* Two blocks, stores of up to five entries in all shapes up to four; every header
\* with every message made of the parts of any of them.
CONSTANTS
    Trees <- MCTrees
    Keys <- MCKeys
    Values = {1, 2}
    BlockFields <- MCBlockFields
    MaxBlocks = 2
    NanosPerSecond = 2
    Empty <- MCEmpty
    AppHashes <- MCAppHashes
    Headers <- MCHeaders
    Messages <- MCMessages
SPECIFICATION Spec
INVARIANTS
    TypeOK
    ReturnedProofAccepted
    MembershipSound
    NonMembershipSound
    NonMembershipComplete
    OpeningSound
    OpeningComplete
CHECK_DEADLOCK FALSE
