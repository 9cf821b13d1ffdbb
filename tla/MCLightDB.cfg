\* A relayer and an operator, a node that may come to serve another chain.
CONSTANTS
    Relayers = {relayer}
    Operators = {cli}
    Chains = {"main", "reset"}
    MaxHeight = 2
    Attempts = 2
    MaxGen = 2
    relayer = relayer
    cli = cli
SPECIFICATION FairSpec
INVARIANTS
    LockDiscipline
    ReinitForced
    RootedHeaders
    HeaderZeroFound
PROPERTY CommandsEnd
