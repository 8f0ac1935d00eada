---------------------------- MODULE MCFileCreate ----------------------------
(* Two clients on two pairs of metadata servers and three data servers. *)
EXTENDS FileCreate

CONSTANTS a, b

Op(op, path) == [op |-> op, path |-> path]
Scenario(as, bs, firsts, homes, mortal, errors, crossing) ==
    [calls |-> (a :> as) @@ (b :> bs), firsts |-> firsts,
     homes |-> (a :> homes[1]) @@ (b :> homes[2]), mortal |-> mortal,
     diskErrors |-> errors, crossing |-> crossing]

MCPairs == {0, 1}
MCScenarios == <<
    \* The same name made twice at the same time.
    Scenario(<<Op("mknod", <<"f">>)>>, <<Op("mknod", <<"f">>)>>, {0}, <<{0}, {1}>>, {}, 0, FALSE),
    \* Directories made on one pair, whose primary fails.
    Scenario(<<Op("mkdir", <<"d">>), Op("mkdir", <<"d">>)>>, <<Op("mkdir", <<"d">>)>>, {0},
             <<{0}, {0}>>, {<<0, "primary">>}, 0, FALSE),
    \* A listing while they are made.
    Scenario(<<Op("mkdir", <<"d">>), Op("mkdir", <<"e">>)>>, <<Op("list", <<>>)>>, {0},
             <<{0}, {0}>>, {<<0, "primary">>}, 0, FALSE),
    \* A file two directories deep, on the other pair.
    Scenario(<<Op("mkdir", <<"d">>), Op("mkdir", <<"d", "e">>), Op("mknod", <<"d", "e", "f">>),
               Op("list", <<"d", "e">>)>>,
             <<Op("stat", <<"d", "e", "f">>)>>, {2}, <<{1}, {1}>>, {<<1, "primary">>}, 0, FALSE),
    \* One file, whatever the random choices and the failures.
    Scenario(<<Op("creat", <<"f">>), Op("open", <<"f">>)>>, <<>>, DataServers,
             <<{0, 1}, {0}>>, {<<0, "primary">>, <<1, "primary">>, <<1, "data">>}, 1, FALSE),
    \* Statements that cross.
    Scenario(<<Op("mknod", <<"f">>)>>, <<Op("stat", <<"f">>)>>, {0}, <<{0}, {0}>>, {}, 0, TRUE),
    Scenario(<<Op("mkdir", <<"d">>)>>, <<Op("list", <<>>)>>, {0}, <<{0}, {0}>>, {}, 0, TRUE)>>
=============================================================================
