\* Two setups, a service and a command, two requests.
CONSTANTS
    Base = 4
    HashLength = 2
    HashBits = 3
    FieldOrder = 11
    Service = "service"
    Command = "command"
    Requests = {r1, r2}
    r1 = r1
    r2 = r2
    Bodies <- MCBodies
    FileParts = 2
    MaxSetups = 2
CHECK_DEADLOCK FALSE
SYMMETRY MCSymmetry
SPECIFICATION Spec
INVARIANTS
    KeysMatch
    LoadedOfOneSetup
    AnswersExact
    MutexHeldByProver
