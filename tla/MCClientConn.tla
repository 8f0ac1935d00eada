---------------------------- MODULE MCClientConn ----------------------------
\* Two servers that back each other up; callers, threads and servers are alike.
EXTENDS ClientConn, TLC

CONSTANTS s1, s2

MCServers == {s1, s2}
MCBackup == [s \in MCServers |-> IF s = s1 THEN s2 ELSE s1]
MCSymmetry ==
    Permutations(Callers) \cup Permutations(Threads) \cup Permutations(Servers)
=============================================================================
