\* A slot whose client closed while its last response was going out.
SPECIFICATION FairSpec
CONSTANTS
    Conns = {c1, c2}
    Askers = {c1, c2}
    Workers = {w1}
    NSlots = 1
    MaxRequests = 1
    Notify = FALSE
    Closing = "idle"
    NoConn = NoConn
    NoItem = NoItem
PROPERTIES SlotEventuallyFree
CHECK_DEADLOCK FALSE
