\* Integers of ten and five bits, two messages or unknown fields, four stray bytes.
CONSTANTS
    IntBits = 10
    Int32Bits = 5
    Messages <- MCMessages
    UnknownFields <- MCUnknownFields
    StrayBytes <- MCStrayBytes
    MaxStray = 4
    MaxMessages = 2
SPECIFICATION Spec
CHECK_DEADLOCK FALSE
INVARIANTS
    ReadAsWritten
    StaysInBuffer
    CutInventsNothing
