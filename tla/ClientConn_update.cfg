\* All servers live and no connection is full; the configuration changes while requests are made.
SPECIFICATION FairSpec
CONSTANTS
    s1 = s1
    s2 = s2
    Callers = {a1, a2}
    Threads = {t1, t2}
    Servers <- MCServers
    Backup <- MCBackup
    NTokens = 2
    MaxCalls = 1
    MaxUpdates = 1
    MaxFull = 0
    Failing = "never"
    NoItem = NoItem
    Nobody = Nobody
PROPERTIES EveryCallReturns ConfigChangeEnds
CHECK_DEADLOCK FALSE
