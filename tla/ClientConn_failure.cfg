\* A server dies at any moment, or a send meets a full connection.
SPECIFICATION Spec
CONSTANTS
    s1 = s1
    s2 = s2
    Callers = {a1, a2}
    Threads = {t1, t2}
    Servers <- MCServers
    Backup <- MCBackup
    NTokens = 2
    MaxCalls = 1
    MaxUpdates = 1
    MaxFull = 1
    Failing = "either"
    NoItem = NoItem
    Nobody = Nobody
SYMMETRY MCSymmetry
INVARIANTS TypeOK TokensConserved SignalledOnce ReferencedItemsLive
PROPERTIES  CallsAnswered
CHECK_DEADLOCK FALSE
