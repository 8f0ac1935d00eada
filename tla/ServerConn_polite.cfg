\* Clients that close only when they expect no answer, as the client library does.
SPECIFICATION FairSpec
CONSTANTS
    Conns = {c1, c2, c3}
    Askers = {c1, c2, c3}
    Workers = {w1, w2}
    NSlots = 2
    MaxRequests = 1
    Notify = FALSE
    Closing = "idle"
    NoConn = NoConn
    NoItem = NoItem
INVARIANTS TypeOK SlotKeepsConnection TableConsistent
PROPERTIES ImplementsReply EveryRequestAnswered
CHECK_DEADLOCK FALSE
