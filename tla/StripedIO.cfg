CONSTANTS
    a = a
    b = b
    Clients = {a, b}
    DSCount = 3
    StripeSize = 2
    Layout <- MCLayout
    MaxSize = 8
    Scenarios <- MCScenarios
SPECIFICATION Spec
INVARIANTS TypeOK ReadsExplained CompletedWritesStored SizeIsEnd
CHECK_DEADLOCK FALSE
