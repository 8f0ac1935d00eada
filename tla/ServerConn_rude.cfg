\* Clients that close or reset at any time, and a configuration change.
SPECIFICATION FairSpec
CONSTANTS
    Conns = {c1, c2}
    Askers = {c1}
    Workers = {w1}
    NSlots = 2
    MaxRequests = 1
    Notify = TRUE
    Closing = "any"
    NoConn = NoConn
    NoItem = NoItem
INVARIANTS AnsweredOnce
PROPERTIES EveryItemLeaves EveryClientNotified
CHECK_DEADLOCK FALSE
