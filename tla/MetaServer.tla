----------------------------- MODULE MetaServer -----------------------------
(***************************************************************************)
(* The metadata servers (hercules_mds_cmds.c, hercules_db_lib.c).  Every   *)
(* pair of servers keeps an inode table, a table of data handles and a     *)
(* name table in one MySQL database; the two servers of a pair each have   *)
(* one connection to it, which their worker threads share.  A handler is a *)
(* series of statements.  A select leaves its result on the connection     *)
(* until the thread stores it; any statement another thread makes on that  *)
(* connection in between fails ("commands out of sync"), and with it its   *)
(* command.  Two statements made at the same time cross: each thread may   *)
(* take the other's reply for its own, or wait for one that was taken.     *)
(*                                                                         *)
(* A client has one request at a time, served by a worker of its own: job. *)
(* Nothing deletes a row (the commands that would are not implemented), so *)
(* a select returns rows in the order they were inserted.                  *)
(***************************************************************************)
EXTENDS Integers, Sequences, FiniteSets

CONSTANTS Clients,   \* each with one request at a time
          Pairs,     \* pairs of metadata servers
          RootPair,  \* HFS_ROOT_SERVER_IDX
          PerPage,   \* directory entries that fit in one response
          Nobody     \* no client

Root == 16           \* HFS_ROOT_HANDLE
Servers == Pairs \X {"primary", "backup"}

ASSUME MetaAssumption ==
    /\ RootPair \in Pairs
    /\ PerPage \in Nat \ {0}
    /\ Nobody \notin Clients

VARIABLES inode,   \* per pair, handle to attributes
          extents, \* per pair, handle to its data handles, as they were inserted
          names,   \* per pair, the rows of the name table
          result,  \* per server, whose result waits on its connection
          lock,    \* per server, who holds serverMetaDataUpdateLock
          job      \* per client, the request being served

tables == <<inode, extents, names>>
metaVars == <<tables, result, lock, job>>

\* No request: also the form of one.
NoJob == [at |-> "none", srv |-> <<RootPair, "primary">>, cmd |-> [op |-> "none"],
          rows |-> <<>>, status |-> "none"]

\* An inode as it is allocated: no mode, no stripes.
Blank == [mode |-> "none", stripes |-> 0]

\* As mkfs leaves them (dbFormatMDS); its entries for /, . and .. are left out.
MetaInit ==
    /\ inode = [p \in Pairs |-> [h \in {Root} |-> [mode |-> "dir", stripes |-> 0]]]
    /\ extents = [p \in Pairs |-> [h \in {} |-> <<>>]]
    /\ names = [p \in Pairs |-> <<>>]
    /\ result = [s \in Servers |-> Nobody]
    /\ lock = [s \in Servers |-> Nobody]
    /\ job = [c \in Clients |-> NoJob]

Srv(c) == job[c].srv
Pair(c) == job[c].srv[1]
Cmd(c) == job[c].cmd

\* The rows of a directory, as they were inserted.
InDirectory(rows, dir) ==
    LET upTo[n \in 0..Len(rows)] ==
            IF n = 0 THEN <<>>
            ELSE IF rows[n].dir = dir THEN Append(upTo[n - 1], rows[n])
            ELSE upTo[n - 1]
    IN upTo[Len(rows)]

\* The rows of the name table, or where they are, and of the data handle table.
EntriesOf(p, dir) == InDirectory(names[p], dir)
EntriesNamed(p, dir, name) ==
    {i \in 1..Len(names[p]) : names[p][i].dir = dir /\ names[p][i].name = name}
HandlesOf(p, file) == IF file \in DOMAIN extents[p] THEN extents[p][file] ELSE <<>>

\* What a handler does first.
FirstStep(op) == CASE op = "lookup"  -> "select name"
                   [] op = "readdir" -> "select entries"
                   [] op = "getattr" -> "select inode"
                   [] op = "setattr" -> "update inode"
                   [] op = "alloc"   -> "lock"
                   [] op = "add"     -> "insert name"
                   [] op = "none"    -> "none"

\* mdsPendingCommandProcessing: a worker takes the request.
Serve(c, srv, cmd) ==
    job' = [job EXCEPT ![c] = [at |-> FirstStep(cmd.op), srv |-> srv, cmd |-> cmd,
                               rows |-> <<>>, status |-> "none"]]

Answered(c) == job[c].at = "answered"
Answer(c, status, rows) ==
    job' = [job EXCEPT ![c].at = "answered", ![c].status = status, ![c].rows = rows]

-----------------------------------------------------------------------------
(* Statements *)

\* The connection takes a statement when no result waits on it.
Statement(c, at) == job[c].at = at /\ result[Srv(c)] = Nobody

\* mysql_real_query with a select: the rows are fixed now, and wait.
Select(c, at, rows, next) ==
    /\ Statement(c, at)
    /\ result' = [result EXCEPT ![Srv(c)] = c]
    /\ job' = [job EXCEPT ![c].at = next, ![c].rows = rows]
    /\ UNCHANGED <<tables, lock>>

\* mysql_store_result.
Store(c, at) ==
    /\ job[c].at = at
    /\ result' = [result EXCEPT ![Srv(c)] = Nobody]
    /\ UNCHANGED tables

Then(c, at, rows) == job' = [job EXCEPT ![c].at = at, ![c].rows = rows]

\* hfsService_REQ_MDS_ALLOC_HANDLE releases the lock however the command ends.
KeepLock(c) == lock' = [s \in Servers |-> lock[s]]
Unlock(c) == lock' = [s \in Servers |-> IF lock[s] = c THEN Nobody ELSE lock[s]]

Statements == {"select name", "select entries", "select inode", "select handles",
               "update inode", "check handles", "insert handle", "select free",
               "select max", "insert inode", "insert name"}

\* A statement on a connection another thread's result waits on.
OutOfSync(c) ==
    /\ job[c].at \in Statements
    /\ result[Srv(c)] # Nobody
    /\ Answer(c, "db_error", <<>>)
    /\ Unlock(c)
    /\ UNCHANGED <<tables, result>>

-----------------------------------------------------------------------------
(* Handlers *)

\* dbLookUp: of several rows the first.
FirstRow(p, found) == names[p][CHOOSE i \in found : \A j \in found : i <= j]
NameRows(p, cmd) ==
    LET found == EntriesNamed(p, cmd.dir, cmd.name)
    IN IF found = {} THEN <<>> ELSE <<FirstRow(p, found)>>
LookUp(c) == Select(c, "select name", NameRows(Pair(c), Cmd(c)), "name")
LookUpStored(c) ==
    /\ Store(c, "name")
    /\ IF job[c].rows = <<>> THEN Answer(c, "no_such_record", <<>>)
       ELSE Answer(c, "ok", job[c].rows)
    /\ UNCHANGED lock

\* dbGetDirListing: skip the rows before the offset, then fill a page.
PageSkipsOne(rows, offset) ==
    SubSeq(rows, offset + 2, IF offset + PerPage < Len(rows) THEN offset + PerPage ELSE Len(rows))
Page(rows, offset) ==
    SubSeq(rows, offset + 1, IF offset + PerPage < Len(rows) THEN offset + PerPage ELSE Len(rows))
ReadDir(c) == Select(c, "select entries", EntriesOf(Pair(c), Cmd(c).dir), "entries")
ReadDirStored(c) ==
    /\ Store(c, "entries")
    /\ IF Cmd(c).offset > Len(job[c].rows) THEN Answer(c, "no_such_record", <<>>)
       ELSE Answer(c, "ok", Page(job[c].rows, Cmd(c).offset))
    /\ UNCHANGED lock

\* dbGetAttr: the inode, then, in a second select, its data handles, as many
\* as the inode has stripes and copies.
InodeRows(p, cmd) == IF cmd.file \in DOMAIN inode[p] THEN <<inode[p][cmd.file]>> ELSE <<>>
GetAttr(c) == Select(c, "select inode", InodeRows(Pair(c), Cmd(c)), "inode")
GetAttrStored(c) ==
    /\ Store(c, "inode")
    /\ IF job[c].rows = <<>> THEN Answer(c, "no_such_record", <<>>)
       ELSE Then(c, "select handles", job[c].rows)
    /\ UNCHANGED lock
GetHandles(c) ==
    Select(c, "select handles", job[c].rows \o HandlesOf(Pair(c), Cmd(c).file), "handles")
GetHandlesStored(c) ==
    /\ Store(c, "handles")
    /\ LET most == 1 + 2 * job[c].rows[1].stripes
       IN Answer(c, "ok", IF Len(job[c].rows) <= most THEN job[c].rows
                          ELSE SubSeq(job[c].rows, 1, most))
    /\ UNCHANGED lock

\* dbSetAttr: update the inode; the data handles are set once.
SetAttr(c) ==
    /\ Statement(c, "update inode")
    /\ inode' = [inode EXCEPT ![Pair(c)] =
            [h \in DOMAIN @ |-> IF h = Cmd(c).file
                                THEN [mode |-> Cmd(c).mode, stripes |-> Cmd(c).stripes]
                                ELSE @[h]]]
    /\ Then(c, "check handles", <<>>)
    /\ UNCHANGED <<extents, names, result, lock>>
CheckHandles(c) ==
    Select(c, "check handles", HandlesOf(Pair(c), Cmd(c).file), "checked")
NeverSet(rows) == FALSE /\ rows = <<>>
AlreadySet(rows) == rows # <<>>
CheckHandlesStored(c) ==
    /\ Store(c, "checked")
    /\ IF AlreadySet(job[c].rows) THEN Answer(c, "protocol_error", <<>>)
       ELSE IF Cmd(c).extents = <<>> THEN Answer(c, "ok", <<>>)
       ELSE Then(c, "insert handle", <<>>)
    /\ UNCHANGED lock

\* One insert per data handle; the rows so far are dataHandlesCnt.
InsertHandle(c) ==
    /\ Statement(c, "insert handle")
    /\ LET n == Len(job[c].rows) + 1
           row == Cmd(c).extents[n]
           handles == Append(HandlesOf(Pair(c), Cmd(c).file), row)
       IN /\ extents' = [extents EXCEPT ![Pair(c)] =
                 [f \in DOMAIN @ \cup {Cmd(c).file} |-> IF f = Cmd(c).file THEN handles ELSE @[f]]]
          /\ IF n = Len(Cmd(c).extents) THEN Answer(c, "ok", <<>>)
             ELSE Then(c, "insert handle", Append(job[c].rows, row))
    /\ UNCHANGED <<inode, names, result, lock>>

\* dbAllocMetaDataHandle: nothing ever fills the table of free handles; one
\* above the largest in use, which the primary key keeps unique.
LockUpdates(c) ==
    /\ job[c].at = "lock"
    /\ lock[Srv(c)] = Nobody
    /\ lock' = [lock EXCEPT ![Srv(c)] = c]
    /\ Then(c, "select free", <<>>)
    /\ UNCHANGED <<tables, result>>
SelectFree(c) == Select(c, "select free", <<>>, "free")
FreeStored(c) ==
    /\ Store(c, "free")
    /\ Then(c, "select max", <<>>)
    /\ UNCHANGED lock
Largest(S) == CHOOSE x \in S : \A y \in S : y <= x
SelectMax(c) == Select(c, "select max", <<Largest(DOMAIN inode[Pair(c)])>>, "max")
MaxStored(c) ==
    /\ Store(c, "max")
    /\ Then(c, "insert inode", <<job[c].rows[1] + 1>>)
    /\ UNCHANGED lock
InsertInode(c) ==
    /\ Statement(c, "insert inode")
    /\ LET h == job[c].rows[1]
           old == inode[Pair(c)]
       IN IF h \in DOMAIN old
          THEN Answer(c, "db_error", <<>>) /\ UNCHANGED inode
          ELSE /\ inode' = [inode EXCEPT ![Pair(c)] =
                     [x \in DOMAIN old \cup {h} |-> IF x = h THEN Blank ELSE old[x]]]
               /\ Answer(c, "ok", <<h>>)
    /\ Unlock(c)
    /\ UNCHANGED <<extents, names, result>>
\* dbAddDirent: nothing keeps names unique.
Dirent(cmd) == [dir |-> cmd.dir, name |-> cmd.name, file |-> cmd.file, home |-> cmd.home]
AddDirent(c) ==
    /\ Statement(c, "insert name")
    /\ names' = [names EXCEPT ![Pair(c)] = Append(@, Dirent(Cmd(c)))]
    /\ Answer(c, "ok", <<>>)
    /\ UNCHANGED <<inode, extents, result, lock>>

MetaStep(c) ==
    \/ LookUp(c) \/ LookUpStored(c)
    \/ ReadDir(c) \/ ReadDirStored(c)
    \/ GetAttr(c) \/ GetAttrStored(c) \/ GetHandles(c) \/ GetHandlesStored(c)
    \/ SetAttr(c) \/ CheckHandles(c) \/ CheckHandlesStored(c) \/ InsertHandle(c)
    \/ LockUpdates(c) \/ SelectFree(c) \/ FreeStored(c) \/ SelectMax(c) \/ MaxStored(c)
    \/ InsertInode(c)
    \/ AddDirent(c)
    \/ OutOfSync(c)

-----------------------------------------------------------------------------
(* Statements that cross *)

\* Two workers are inside mysql_real_query on their connection at once.  A worker
\* that reads the reply to the other's statement takes it for its own: the rows of
\* a like select, or the success of a change that was never made.  (What it reads
\* from the rows of an unlike select is undefined; here it is an error.)
Misread(c, d) ==
    LET p == Pair(c)
        to(at, rows) == {[job[c] EXCEPT !.at = at, !.rows = rows]}
        ok(rows) == {[job[c] EXCEPT !.at = "answered", !.status = "ok", !.rows = rows]}
        now == job[c].at
    IN CASE now = "update inode"  -> to("check handles", <<>>)
         [] now = "insert handle" -> ok(<<>>)
         [] now = "insert inode"  -> ok(job[c].rows)
         [] now = "insert name"   -> ok(<<>>)
         [] now # job[d].at       -> {}
         [] now = "select name"    -> to("name", NameRows(p, Cmd(d)))
         [] now = "select entries" -> to("entries", EntriesOf(p, Cmd(d).dir))
         [] now = "select inode"   -> to("inode", InodeRows(p, Cmd(d)))
         [] now = "select handles" -> to("handles", job[c].rows \o HandlesOf(p, Cmd(d).file))
         [] now = "check handles"  -> to("checked", HandlesOf(p, Cmd(d).file))
         [] OTHER -> {}

\* It may also get its own reply, as if it had come later, an error, or wait for
\* ever for a reply that the other has read.
Outcomes(c, d) ==
    {job[c], [job[c] EXCEPT !.at = "stuck"],
     [job[c] EXCEPT !.at = "answered", !.status = "db_error", !.rows = <<>>]} \cup Misread(c, d)

\* A result that nobody stores may be left on the connection.
Cross(c, d) ==
    /\ c # d /\ Srv(c) = Srv(d) /\ result[Srv(c)] = Nobody
    /\ job[c].at \in Statements /\ job[d].at \in Statements
    /\ \E x \in Outcomes(c, d), y \in Outcomes(d, c) : job' = [job EXCEPT ![c] = x, ![d] = y]
    /\ result' \in {result, [result EXCEPT ![Srv(c)] = c]}
    /\ lock' = [s \in Servers |-> IF lock[s] \in {c, d} /\ job'[lock[s]].at = "answered"
                                  THEN Nobody ELSE lock[s]]
    /\ UNCHANGED tables
=============================================================================
