\* A client that dies with requests outstanding.
SPECIFICATION Spec
CONSTANTS
    Conns = {c1, c2}
    Askers = {c1, c2}
    Workers = {w1}
    NSlots = 1
    MaxRequests = 2
    Notify = FALSE
    Closing = "any"
    NoConn = NoConn
    NoItem = NoItem
INVARIANTS UsedUntilSent
CHECK_DEADLOCK FALSE
