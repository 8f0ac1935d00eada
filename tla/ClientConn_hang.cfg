\* A server dies while a request is pending on it.
SPECIFICATION FairSpec
CONSTANTS
    s1 = s1
    s2 = s2
    Callers = {a1}
    Threads = {t1}
    Servers <- MCServers
    Backup <- MCBackup
    NTokens = 1
    MaxCalls = 1
    MaxUpdates = 0
    MaxFull = 0
    Failing = "any"
    NoItem = NoItem
    Nobody = Nobody
PROPERTIES EveryCallReturns
CHECK_DEADLOCK FALSE
