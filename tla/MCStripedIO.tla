---------------------------- MODULE MCStripedIO ----------------------------
(* Two clients and one file of three extents on three data servers. *)
EXTENDS StripedIO, TLC

CONSTANTS a, b

W(offset, size, val) == [op |-> "write", offset |-> offset, size |-> size, val |-> val]
R(offset, size) == [op |-> "read", offset |-> offset, size |-> size]
S == [op |-> "size"]
Scenario(as, bs, mortal, most, above) ==
    [calls |-> (a :> as) @@ (b :> bs), mortal |-> mortal, errors |-> most,
     above |-> above]

\* As Placement of FileCreate gives it for the first server 0.
MCLayout == [i \in 1..6 |-> [srv |-> <<0, 1, 2, 1, 2, 0>>[i],
                             hdl |-> IF i <= 3 THEN 257 ELSE 258]]
MCScenarios == <<
    \* A file written in pieces that meet inside and at the end of a stripe,
    \* then examined and read, while a server fails.
    Scenario(<<W(0, 3, 1), W(3, 5, 2), S, R(1, 6)>>, <<>>, DataServers, 0, FALSE),
    \* Two writers that overlap, and a reader afterwards.
    Scenario(<<W(0, 3, 1), R(0, 4)>>, <<W(1, 3, 2), R(0, 4)>>, {}, 0, FALSE),
    \* A reader and a second look at the size while the file grows.
    Scenario(<<W(0, 2, 1), W(1, 3, 2)>>, <<S, R(0, 4), S>>, {0}, 0, FALSE),
    \* Failing system calls, and buffers at any address.
    Scenario(<<W(0, 4, 1), S, R(0, 4)>>, <<>>, {1}, 1, TRUE)>>
=============================================================================
