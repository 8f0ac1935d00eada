--------------------------- MODULE MCConfigUpdate ---------------------------
(* Pages of two servers: tables of four, which fill theirs, and of five. *)
EXTENDS ConfigUpdate

T(mds, ds) == [mds |-> mds, ds |-> ds]
Scenario(steps, errors, mortal, busy, password) ==
    [steps |-> steps, dbErrors |-> errors, mortal |-> mortal, busy |-> busy, password |-> password]

MCScenarios == <<
    \* A data server is added, then a pair of metadata servers, each with a nudge.
    Scenario(<<T(2, 3), T(2, 4), Nudge, T(3, 4), T(4, 4), Nudge>>, 0, FALSE, FALSE, TRUE),
    \* Servers are removed; a query fails.
    Scenario(<<T(2, 4), T(2, 3), T(2, 1), Nudge, Nudge>>, 1, FALSE, FALSE, TRUE),
    \* The root fails, or the client is too busy to swap.
    Scenario(<<T(2, 3), T(2, 4), Nudge>>, 1, TRUE, TRUE, TRUE),
    \* A wrong password.
    Scenario(<<T(2, 2), T(2, 3), Nudge>>, 0, FALSE, FALSE, FALSE)>>
=============================================================================
