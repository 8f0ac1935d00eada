\* All servers live; a send meets a full connection and the caller turns to the
\* backup at once.
SPECIFICATION Spec
CONSTANTS
    s1 = s1
    s2 = s2
    Callers = {a1}
    Threads = {t1}
    Servers <- MCServers
    Backup <- MCBackup
    NTokens = 1
    MaxCalls = 1
    MaxUpdates = 0
    MaxFull = 1
    Failing = "never"
    NoItem = NoItem
    Nobody = Nobody
INVARIANTS DropsWhatFailed
CHECK_DEADLOCK FALSE
