---------------------------- MODULE ConfigUpdate ----------------------------
(***************************************************************************)
(* The configuration of the file system (utils_config.c, hercules_         *)
(* client.c, hercules_mds_cmds.c, updateFSConfig.c).  An administrator     *)
(* edits the table of servers and nudges the root metadata server, which   *)
(* notifies all its connections.  A client reads the table in pages when   *)
(* it mounts, and again, in a thread of its own, for every notification,   *)
(* then connects to the servers it found and swaps them for the old ones.  *)
(* It reads on a connection of its own, which is notified like any other.  *)
(***************************************************************************)
EXTENDS Integers, Sequences

CONSTANTS PerPage,    \* servers that fit into an extent
          Updaters,   \* bound: threads of hfsConfigChanged at a time
          Nobody,     \* configUpdateMutex is free
          Scenarios   \* bound: what may happen.  steps: what the administrator
                      \* does, a table of servers or Nudge, the first step being
                      \* the table at the beginning; dbErrors: how many queries
                      \* may fail; mortal: whether the root may fail; busy:
                      \* whether requests may stay in flight; password: whether
                      \* the user's is right

Mount == 0                       \* the thread that mounts
Threads == {Mount} \cup Updaters
Nudge == [mds |-> 0, ds |-> 0]   \* updateFSConfig: not a table

ASSUME ConfigAssumption ==
    /\ PerPage \in Nat \ {0}
    /\ Updaters \subseteq Nat \ {Mount} /\ Nobody \notin Threads
    /\ \A s \in DOMAIN Scenarios :
          /\ Scenarios[s].steps \in Seq([mds : Nat, ds : Nat]) \ {<<>>}
          /\ \A i \in DOMAIN Scenarios[s].steps :
                Scenarios[s].steps[i] # Nudge => Scenarios[s].steps[i].mds >= 2
          /\ Scenarios[s].steps[1] # Nudge
          /\ Scenarios[s].dbErrors \in Nat
          /\ {Scenarios[s].mortal, Scenarios[s].busy, Scenarios[s].password} \subseteq BOOLEAN

VARIABLES scenario,  \* the one this behaviour follows
          edits,     \* steps the administrator has made
          nudges,    \* FsUpdateSem
          told,      \* notifications sent to every connection
          alive,     \* the root server
          dbErrors,  \* failed queries
          at,        \* where a thread is
          from,      \* the server it reads from: "primary", "backup"
          asked,     \* the request it waits for the answer to, or "none"
          sock,      \* what is on its way to it
          ctx,       \* the servers it has read
          link,      \* notifications on the connections it has made to the root
          conf,      \* the client's configuration
          used,      \* the thread whose connections it uses
          mutex,     \* configUpdateMutex
          heard,     \* history: the last notification the client has read
          since,     \* history: per thread, edits when it began to read
          until,     \* history: and when it had read the last page
          newest,    \* history: since of the configuration in use
          disturbed  \* history: a notification came where an answer was expected,
                     \* or a thread gave up waiting for what was in flight

admin == <<scenario, edits, nudges>>
root == <<told, alive, dbErrors>>
reading == <<from, asked, sock, ctx>>
history == <<heard, since, until, newest, disturbed>>
vars == <<admin, root, at, reading, link, conf, used, mutex, history>>

Given == Scenarios[scenario]
Steps == Given.steps

\* The table after n steps, and its rows: the union of the metadata servers
\* and the data servers, in this order.  The root and its backup have the same.
LastTable(n) == CHOOSE i \in 1..n : /\ Steps[i] # Nudge
                                    /\ \A j \in i + 1..n : Steps[j] = Nudge
Table(n) == Steps[LastTable(n)]
Rows(table) == [i \in 1..table.mds |-> <<"mds", i - 1>>] \o [i \in 1..table.ds |-> <<"ds", i - 1>>]
CountMDS(c) == Len(SelectSeq(c, LAMBDA r : r[1] = "mds"))

Closed == <<>>
Init == /\ scenario \in DOMAIN Scenarios
        /\ edits = 1
        /\ nudges = 0 /\ told = 0 /\ alive = TRUE /\ dbErrors = 0
        /\ at = [t \in Threads |-> IF t = Mount THEN "open" ELSE "none"]
        /\ from = [t \in Threads |-> "primary"]
        /\ asked = [t \in Threads |-> "none"]
        /\ sock = [t \in Threads |-> Closed]
        /\ ctx = [t \in Threads |-> <<>>]
        /\ link = [t \in Threads |-> Closed]
        /\ conf = <<>> /\ used = Mount /\ mutex = Nobody
        /\ heard = 0 /\ newest = 0 /\ disturbed = FALSE
        /\ since = [t \in Threads |-> 0] /\ until = [t \in Threads |-> 0]

-----------------------------------------------------------------------------
(* The administrator and the root server *)

Edit ==
    /\ edits < Len(Steps)
    /\ edits' = edits + 1
    /\ nudges' = IF Steps[edits + 1] = Nudge THEN nudges + 1 ELSE nudges
    /\ UNCHANGED <<scenario, root, at, reading, link, conf, used, mutex, history>>

\* hfsWaitForFSUpdates: to everyone who is connected.
Changed == [what |-> "changed", ok |-> FALSE, rows |-> <<>>, n |-> told + 1]
Reads(t) == at[t] \in {"extent", "page"} /\ from[t] = "primary"
Connected(t) == (at[t] \in {"login", "swap"} /\ ctx[t] # <<>>) \/ (t = used /\ conf # <<>>)
Notify ==
    /\ alive /\ nudges > 0
    /\ nudges' = nudges - 1
    /\ told' = told + 1
    /\ sock' = [t \in Threads |-> IF Reads(t) THEN Append(sock[t], Changed) ELSE sock[t]]
    /\ link' = [t \in Threads |-> IF Connected(t) THEN Append(link[t], Changed) ELSE link[t]]
    /\ UNCHANGED <<scenario, edits, alive, dbErrors, at, from, asked, ctx, conf, used, mutex,
                   history>>

Die ==
    /\ alive /\ Given.mortal
    /\ at[Mount] = "none"
    /\ \A t \in Threads : ~Reads(t)
    /\ alive' = FALSE
    /\ UNCHANGED <<admin, told, dbErrors, at, reading, link, conf, used, mutex, history>>

\* dbGetSrvrListing: one page from an offset; an error when the table has
\* become shorter than that.
Page(rows, offset) ==
    [what |-> "page", ok |-> offset <= Len(rows),
     rows |-> SubSeq(rows, offset + 1, IF offset + PerPage < Len(rows) THEN offset + PerPage
                                       ELSE Len(rows))]
\* The worker's answer to the request of a thread.
Answer(t) ==
    IF asked[t] = "page" THEN Page(Rows(Table(edits)), Len(ctx[t]))
    ELSE [what |-> asked[t], ok |-> asked[t] = "login2" => Given.password, rows |-> <<>>]
Reply(t, msg) ==
    /\ asked' = [asked EXCEPT ![t] = "none"]
    /\ IF at[t] = "login"
       THEN link' = [link EXCEPT ![t] = Append(@, msg)] /\ UNCHANGED sock
       ELSE sock' = [sock EXCEPT ![t] = Append(@, msg)] /\ UNCHANGED link
    /\ UNCHANGED <<admin, told, alive, at, from, ctx, conf, used, mutex, history>>
Serve(t) ==
    /\ asked[t] # "none"
    /\ Reply(t, Answer(t))
    /\ UNCHANGED dbErrors
QueryFails(t) ==
    /\ asked[t] \in {"extent", "page", "login1"}
    /\ dbErrors < Given.dbErrors
    /\ dbErrors' = dbErrors + 1
    /\ Reply(t, [what |-> asked[t], ok |-> FALSE, rows |-> <<>>])

-----------------------------------------------------------------------------
(* hfsBuildFSContext_MDS *)

\* What a step of a thread leaves alone.
Own(t) == UNCHANGED <<admin, root, conf, used, mutex, heard, newest>>
Go(t, place) == at' = [at EXCEPT ![t] = place]
Ask(t, what) == asked' = [asked EXCEPT ![t] = what]

\* A new connection; the first request on it.
Open(t) ==
    /\ at[t] = "open"
    /\ from[t] = "primary" => alive
    /\ Go(t, "extent")
    /\ Ask(t, "extent")
    /\ ctx' = [ctx EXCEPT ![t] = <<>>]
    /\ since' = [since EXCEPT ![t] = edits]
    /\ Own(t) /\ UNCHANGED <<from, sock, link, until, disturbed>>

\* The root first, then its backup; whoever mounts has no other.
Close(t) == sock' = [sock EXCEPT ![t] = Closed]
NoBackup(t) == FALSE   \* (a variant)
MayTryBackup(t) == t # Mount /\ from[t] = "primary"
End(t) ==
    /\ Go(t, "none")
    /\ from' = [from EXCEPT ![t] = "primary"]
    /\ ctx' = [ctx EXCEPT ![t] = <<>>]
    /\ since' = [since EXCEPT ![t] = 0]
    /\ until' = [until EXCEPT ![t] = 0]
    /\ mutex' = IF mutex = t THEN Nobody ELSE mutex
    /\ asked' = [asked EXCEPT ![t] = "none"]
ReadFails(t) ==
    /\ Close(t)
    /\ IF MayTryBackup(t)
       THEN /\ Go(t, "open")
            /\ from' = [from EXCEPT ![t] = "backup"]
            /\ Ask(t, "none")
            /\ UNCHANGED <<ctx, since, until, mutex>>
       ELSE End(t)
    /\ UNCHANGED <<admin, root, link, conf, used, heard, newest>>

OpenFails(t) ==
    /\ at[t] = "open"
    /\ from[t] = "primary" /\ ~alive
    /\ ReadFails(t)
    /\ UNCHANGED disturbed

\* hfsGetFSExtentSize: a notification reads as an extent size of 0.
GotExtent(t) ==
    /\ at[t] = "extent" /\ sock[t] # <<>>
    /\ LET msg == Head(sock[t])
       IN /\ disturbed' = (disturbed \/ msg.what = "changed")
          /\ IF msg.what = "extent" /\ msg.ok
             THEN /\ Go(t, "page")
                  /\ Ask(t, "page")
                  /\ sock' = [sock EXCEPT ![t] = Tail(@)]
                  /\ Own(t) /\ UNCHANGED <<from, ctx, link, since, until>>
             ELSE ReadFails(t)

\* hfsReadFSConfigFromServer: the last page is one that is not full; a
\* notification reads as an empty one.
LastPageAlsoWhenFull(rows) == Len(rows) <= PerPage   \* (a variant)
LastPage(rows) == Len(rows) # PerPage
GotPage(t) ==
    /\ at[t] = "page" /\ sock[t] # <<>>
    /\ LET msg == Head(sock[t])
       IN /\ disturbed' = (disturbed \/ msg.what = "changed")
          /\ IF msg.what = "page" /\ ~msg.ok THEN ReadFails(t)
             ELSE /\ ctx' = [ctx EXCEPT ![t] = @ \o msg.rows]
                  /\ IF LastPage(msg.rows)
                     THEN /\ Go(t, "connect")
                          /\ Close(t)
                          /\ Ask(t, "none")
                          /\ until' = [until EXCEPT ![t] = edits]
                     ELSE /\ sock' = [sock EXCEPT ![t] = Tail(@)]
                          /\ Ask(t, "page")
                          /\ UNCHANGED <<at, until>>
                  /\ Own(t) /\ UNCHANGED <<from, link, since>>

-----------------------------------------------------------------------------
(* hfsConnectServers, hfsAuthenticateROOTMDS, hfsConfigChanged *)

\* To every server read, the root among them; without any, to none.
Connect(t) ==
    /\ at[t] = "connect"
    /\ alive \/ ctx[t] = <<>>
    /\ link' = [link EXCEPT ![t] = <<>>]
    /\ Go(t, IF t = Mount THEN "login" ELSE "swap")
    /\ Ask(t, IF t = Mount /\ ctx[t] # <<>> THEN "login1" ELSE "none")
    /\ Own(t) /\ UNCHANGED <<from, sock, ctx, since, until, disturbed>>
ConnectFails(t) ==
    /\ at[t] = "connect"
    /\ ~alive /\ ctx[t] # <<>>
    /\ End(t)
    /\ UNCHANGED <<admin, root, sock, link, conf, used, heard, newest, disturbed>>

\* The two phases of the login, on the connection to the root, which the inbound
\* thread does not read yet; without a connection, or with a notification
\* instead of an answer, it fails.
Adopt(t) ==
    /\ conf' = ctx[t]
    /\ used' = t
    /\ newest' = since[t]
GotLogin ==
    /\ at[Mount] = "login"
    /\ link[Mount] # <<>> \/ ctx[Mount] = <<>>
    /\ LET msg == IF ctx[Mount] = <<>> THEN [what |-> "none", ok |-> FALSE] ELSE Head(link[Mount])
       IN /\ disturbed' = (disturbed \/ msg.what = "changed")
          /\ link' = [link EXCEPT ![Mount] = IF msg.ok THEN Tail(@) ELSE Closed]
          /\ IF msg.what = "login1" /\ msg.ok
             THEN /\ Ask(Mount, "login2")
                  /\ UNCHANGED <<at, from, ctx, since, until, conf, used, newest, mutex>>
             ELSE /\ End(Mount)
                  /\ IF msg.what = "login2" /\ msg.ok THEN Adopt(Mount)
                     ELSE UNCHANGED <<conf, used, newest>>
    /\ UNCHANGED <<admin, root, sock, heard>>

\* The inbound thread reads a notification: hfsUnsolicitedCommand.
Mounted == conf # <<>>
Hear(t) ==
    /\ Mounted /\ link[used] # <<>>
    /\ at[t] = "none" /\ t # used
    /\ Go(t, "lock")
    /\ heard' = Head(link[used]).n
    /\ link' = [link EXCEPT ![used] = Tail(@)]
    /\ UNCHANGED <<admin, root, reading, conf, used, mutex, since, until, newest, disturbed>>

AlwaysFree == TRUE   \* (a variant)
MutexFree == mutex = Nobody
\* hfsGetMDSFromServIdx(1) gives no server when there are none, and the thread
\* returns without unlocking.
Lock(t) ==
    /\ at[t] = "lock"
    /\ MutexFree
    /\ mutex' = t
    /\ Go(t, IF CountMDS(conf) = 0 THEN "left" ELSE "open")
    /\ UNCHANGED <<admin, root, reading, link, conf, used, history>>

\* Hold the client, wait for what is in flight, swap (see ClientConn); the old
\* connections are closed with what was not read.  When requests stay in flight
\* for too long it is the new ones that are closed.
Swap(t) ==
    /\ at[t] = "swap"
    /\ Adopt(t)
    /\ End(t)
    /\ link' = [link EXCEPT ![used] = Closed]
    /\ UNCHANGED <<admin, root, sock, heard, disturbed>>

SwapFails(t) ==
    /\ at[t] = "swap"
    /\ Given.busy
    /\ End(t)
    /\ link' = [link EXCEPT ![t] = Closed]
    /\ disturbed' = TRUE
    /\ UNCHANGED <<admin, root, sock, conf, used, heard, newest>>

Step(t) ==
    \/ Serve(t)
    \/ Open(t) \/ OpenFails(t) \/ GotExtent(t) \/ GotPage(t)
    \/ Connect(t) \/ ConnectFails(t) \/ Swap(t)
    \/ (t = Mount /\ GotLogin)

Next == \/ Edit \/ Notify \/ Die
        \/ \E t \in Updaters : Hear(t) \/ Lock(t)
        \/ \E t \in Threads : Step(t) \/ QueryFails(t) \/ SwapFails(t)

\* The server and the threads of the client keep running; nothing is assumed
\* of the order in which threads get the mutex.
Spec == /\ Init /\ [][Next]_vars
        /\ WF_vars(Notify)
        /\ WF_vars(\E t \in Updaters : Hear(t))
        /\ WF_vars(\E t \in Updaters : Lock(t))
        /\ \A t \in Threads : WF_vars(Step(t))

-----------------------------------------------------------------------------
(* What is checked *)

\* Types; a thread that reads has the mutex, and only the connections in use or
\* about to be are open.
TypeOK ==
    /\ \A t \in Updaters : at[t] \in {"open", "extent", "page", "connect", "swap", "left"}
                              => mutex = t
    /\ \A t \in Threads : /\ sock[t] # <<>> => at[t] \in {"extent", "page"}
                          /\ link[t] # <<>> => Connected(t)
    /\ heard <= told /\ dbErrors <= Given.dbErrors

\* hfsReadFSConfigFromServer: a reading during which the table did not change
\* and no notification came gives the table, whatever the number of servers
\* and pages, of either role.
ReadsExact ==
    \A t \in Threads :
        (/\ at[t] \in {"connect", "swap"}
         /\ ~disturbed
         /\ \A n \in since[t]..until[t] : Table(n) = Table(since[t]))
            => ctx[t] = Rows(Table(since[t]))

\* hfsConfigChanged: a configuration never gives way to one whose reading
\* began earlier, however many threads were started.
NewestStays == [][newest' >= newest]_vars

\* "Dynamically updating the FS configuration without FS remount": once the
\* client has read the last notification, it comes to use the table as it is,
\* also when a query on the root fails; unless a notification disturbs an
\* exchange on another connection, or the root fails.
LastChangeAdopted ==
    (edits = Len(Steps) /\ nudges = 0 /\ Mounted /\ heard = told /\ told > 0)
        ~> (conf = Rows(Table(edits)) \/ disturbed \/ ~alive)
=============================================================================
