CONSTANTS
    a = a
    b = b
    Clients = {a, b}
    Pairs <- MCPairs
    RootPair = 0
    PerPage = 1
    Nobody = nobody
    DSCount = 3
    StripeSize = 1
    Scenarios <- MCScenarios
SPECIFICATION Spec
INVARIANTS TypeOK CopiesApart HandlesValid AttributesWhole
PROPERTIES NoDuplicateInSequence ListingComplete ImplementsFileTree EveryCallReturns
CHECK_DEADLOCK FALSE
