----------------------------- MODULE FileCreate -----------------------------
(***************************************************************************)
(* The file operations of clients (hercules_client_fuse_glue.c and         *)
(* hercules_client_lib.c) over the metadata and data servers: a path is    *)
(* walked with one lookup per component; a new file gets its extents on    *)
(* the data servers, an inode on a random pair, its attributes, and last   *)
(* its name.  Every metadata request that does not succeed is made again   *)
(* on the backup.                                                          *)
(*                                                                         *)
(* The requests for extents, sent all at once, are served here in the      *)
(* order of the extents: those to different servers do not meet, and which *)
(* of two requests of one file to one server comes first only exchanges    *)
(* two fresh handles.                                                      *)
(***************************************************************************)
EXTENDS MetaServer, DataServer, SequencesExt, TLC

\* Bound: what may happen in a behaviour.  calls: what each client calls, in
\* order; firsts: what rand() % dsCount may be; homes: the pairs rand() may
\* choose for a new inode; mortal: the servers of which one may fail;
\* diskErrors: how many system calls may fail on the data servers; crossing:
\* whether statements of two workers may cross (once: nothing is sure then).
CONSTANT Scenarios

ASSUME CreateAssumption ==
    /\ Scenarios \in Seq(Range(Scenarios))
    /\ \A s \in Range(Scenarios) :
          /\ s.calls \in [Clients -> Seq([op : {"mknod", "mkdir", "creat", "open", "stat", "list"},
                                          path : Seq(STRING)])]
          /\ \A c \in Clients : \A i \in DOMAIN s.calls[c] :
                s.calls[c][i].path = <<>> => s.calls[c][i].op \in {"stat", "list"}
          /\ s.firsts \subseteq DataServers
          /\ s.homes \in [Clients -> SUBSET Pairs]
          /\ s.mortal \subseteq Servers \cup (DataServers \X {"data"})
          /\ s.diskErrors \in Nat /\ s.crossing \in BOOLEAN
    /\ DSCount >= 3   \* HFS_MIN_STRIPE_CNT

\* The kernel, which asks for a path one name at a time, makes nothing below what
\* is a regular file (ENOTDIR): no call makes a file where another call, of
\* whichever client, makes one below it.
ASSUME KernelAssumption ==
    \A s \in Range(Scenarios) : \A c, d \in Clients :
        \A i \in DOMAIN s.calls[c], j \in DOMAIN s.calls[d] :
            /\ s.calls[c][i].op \in {"mknod", "creat"}
            /\ s.calls[d][j].op \in {"mknod", "mkdir", "creat"}
            => ~IsStrictPrefix(s.calls[c][i].path, s.calls[d][j].path)

VARIABLES scenario,    \* the one this behaviour follows
          script,      \* the calls a client still has to make
          at,          \* where it is in its call
          my,          \* the local variables of its call, see Fresh
          reply,       \* what its last call returned
          dlock,       \* per data server, who holds serverMetaDataUpdateLock
          dead,        \* servers that have failed
          diskErrors,  \* failed system calls
          crossed,     \* history: statements of two workers have crossed
          trouble,     \* history: an answer of this call was an error
          before       \* history: rows of each name table when it last began to look

client == <<script, at, my, reply>>
faults == <<scenario, dead, diskErrors, crossed>>
history == <<trouble, before>>
vars == <<metaVars, dataVars, client, dlock, faults, history>>

Given == Scenarios[scenario]
Call(c) == Head(script[c])
Path(c) == Call(c).path
Makes(op) == op \in {"mknod", "mkdir", "creat"}
RootInode == [pair |-> RootPair, handle |-> Root]

\* pos: component of the path that is looked up; dir: the inode the walk has
\* reached; first: firstDataServerFixed; rows: data handles so far, or names
\* listed so far; new: the inode made; read: the handle counter read for it.
Fresh == [pos |-> 0, dir |-> RootInode, first |-> 0, rows |-> <<>>, new |-> RootInode,
          read |-> 0]

\* Data handles per copy, and the server of the ith extent, counted from 0:
\* the second copy starts one server further, and all of it is turned by a
\* random amount.
Stripes == IF DSCount > 16 THEN 16 ELSE DSCount   \* HFS_MAX_STRIPE_CNT
Copies == 2 * Stripes                             \* TOTAL_COPIES
SameStart(i) == 0 * i
SecondCopy(i) == IF i >= Stripes THEN 1 ELSE 0
Placement(f, i) == (((f + SecondCopy(i) + i) % Stripes) + f) % DSCount

\* The request for an extent could not be sent.
Lost == -1

NothingSeen == [p \in Pairs |-> 0]

Init == /\ MetaInit /\ DataInit
        /\ scenario \in DOMAIN Scenarios
        /\ script = Given.calls
        /\ at = [c \in Clients |-> "idle"]
        /\ my = [c \in Clients |-> Fresh]
        /\ reply = [c \in Clients |-> "none"]
        /\ dlock = [d \in DataServers |-> Nobody]
        /\ dead = {}
        /\ diskErrors = 0
        /\ crossed = FALSE
        /\ trouble = [c \in Clients |-> FALSE]
        /\ before = [c \in Clients |-> NothingSeen]

-----------------------------------------------------------------------------
(* Requests to the metadata servers *)

Ask(c, pair, cmd) == Serve(c, <<pair, "primary">>, cmd)

Succeeded(c) == Answered(c) /\ job[c].status = "ok"
Failed(c) == Answered(c) /\ job[c].status # "ok" /\ Srv(c)[2] = "backup"

Serving == UNCHANGED <<dataVars, client, dlock, faults, history>>

\* hfsDegradedMDSRequest: the packet is built again and goes to the backup,
\* whatever the primary had against it.
Retry(c) ==
    /\ Answered(c)
    /\ job[c].status # "ok"
    /\ Srv(c)[2] = "primary"
    /\ Serve(c, <<Pair(c), "backup">>, Cmd(c))
    /\ Serving /\ UNCHANGED <<tables, result, lock>>

TransmissionFails(c) ==
    /\ job[c].at # "none"
    /\ Srv(c) \in dead
    /\ job[c].at = FirstStep(Cmd(c).op)
    /\ Answer(c, "transmission_failed", <<>>)
    /\ Serving /\ UNCHANGED <<tables, result, lock>>

Work(c) == Srv(c) \notin dead /\ MetaStep(c) /\ Serving

\* The commands of two clients cross on a connection to the database.
Collide(c, d) ==
    /\ Given.crossing /\ ~crossed
    /\ Srv(c) \notin dead
    /\ Cross(c, d)
    /\ crossed' = TRUE
    /\ UNCHANGED <<dataVars, client, dlock, scenario, dead, diskErrors, history>>

-----------------------------------------------------------------------------
(* Parts of the steps of a call *)

\* What a step between two requests leaves alone.
Local == UNCHANGED <<tables, result, lock, dataVars, dlock, faults>>

Go(c, place) == at' = [at EXCEPT ![c] = place]
Look(c, pair, handle, name) == Ask(c, pair, [op |-> "lookup", dir |-> handle, name |-> name])

Return(c, what) ==
    /\ Go(c, "idle")
    /\ reply' = [reply EXCEPT ![c] = what]
    /\ script' = [script EXCEPT ![c] = Tail(@)]
    /\ my' = [my EXCEPT ![c] = Fresh]
    /\ trouble' = [trouble EXCEPT ![c] = FALSE]
    /\ before' = [before EXCEPT ![c] = NothingSeen]
    /\ job' = [job EXCEPT ![c] = NoJob]

\* History: an answer that lets the call conclude nothing, and
\* the names that were there when it began to look.
NoteTrouble(c) ==
    trouble' = [trouble EXCEPT ![c] = @ \/ job[c].status \notin {"ok", "no_such_record"}]
RememberNames(c) ==
    before' = [before EXCEPT ![c] = IF Call(c).op \in {"open", "stat"} THEN NothingSeen
                                    ELSE [p \in Pairs |-> Len(names[p])]]

\* The inode the path leads to is examined, or listed from where the last page
\* ended.
Visit(c, pair, handle) ==
    /\ IF Call(c).op = "list"
       THEN /\ Go(c, "list")
            /\ Ask(c, pair, [op |-> "readdir", dir |-> handle, offset |-> Len(my[c].rows)])
       ELSE /\ Go(c, "attributes of")
            /\ Ask(c, pair, [op |-> "getattr", file |-> handle])
    /\ IF my[c].rows = <<>> THEN RememberNames(c) ELSE UNCHANGED before
    /\ UNCHANGED <<script, my, reply, trouble>>

\* hfs_create_alloc_meta_data_handle: on a random pair.
AskInode(c) ==
    /\ Go(c, "inode")
    /\ \E p \in Given.homes[c] : Ask(c, p, [op |-> "alloc"])

-----------------------------------------------------------------------------
(* hfs_namei *)

\* clnt_fuse_mknod and the others begin by walking the path; the root needs no
\* lookup.  clnt_fuse_readdir walks it for every page.
Start(c) ==
    /\ \/ at[c] = "idle" /\ script[c] # <<>>
       \/ at[c] = "next page"
    /\ IF Path(c) = <<>> THEN Visit(c, RootPair, Root)
       ELSE /\ Go(c, "walk")
            /\ my' = [my EXCEPT ![c].pos = 1]
            /\ IF my[c].rows = <<>> THEN RememberNames(c) ELSE UNCHANGED before
            /\ Look(c, RootPair, Root, Path(c)[1])
            /\ UNCHANGED <<script, reply, trouble>>
    /\ Local

\* The inode a lookup has answered with.
Child(c) == [pair |-> job[c].rows[1].home, handle |-> job[c].rows[1].file]

\* The length of the path that is walked: the parent's, when creating.
Depth(c) == IF at[c] = "parent" THEN Len(Path(c)) - 1 ELSE Len(Path(c))

WalkOn(c) ==
    /\ at[c] \in {"walk", "parent"}
    /\ Succeeded(c)
    /\ my[c].pos < Depth(c)
    /\ my' = [my EXCEPT ![c].pos = @ + 1, ![c].dir = Child(c)]
    /\ IF at[c] = "walk" /\ my[c].rows = <<>> THEN RememberNames(c) ELSE UNCHANGED before
    /\ Look(c, Child(c).pair, Child(c).handle, Path(c)[my[c].pos + 1])
    /\ Local /\ UNCHANGED <<script, at, reply, trouble>>

\* The path exists: it cannot be made, or it is opened, examined or listed.
Found(c) ==
    /\ at[c] = "walk"
    /\ Succeeded(c)
    /\ my[c].pos = Depth(c)
    /\ IF Call(c).op \in {"mknod", "mkdir"} THEN Return(c, "EEXIST")
       ELSE Visit(c, Child(c).pair, Child(c).handle)
    /\ Local

\* The parent is known: a regular file needs extents first.
Located(c, inode_) ==
    IF Call(c).op = "mkdir"
    THEN /\ AskInode(c)
         /\ my' = [my EXCEPT ![c] = [Fresh EXCEPT !.dir = inode_]]
    ELSE /\ Go(c, "extents")
         /\ job' = [job EXCEPT ![c] = NoJob]
         /\ \E f \in Given.firsts :
               my' = [my EXCEPT ![c] = [Fresh EXCEPT !.dir = inode_, !.first = f]]

\* hfs_create: a lookup failed, for whatever reason, and so there is no such
\* file; walk to the parent.
AbsentAnyhow(c) ==
    at[c] = "walk" /\ (Failed(c) \/ (Succeeded(c) /\ Makes(Call(c).op)))
Absent(c) == at[c] = "walk" /\ Failed(c)
NotThere(c) ==
    /\ Absent(c)
    /\ IF ~Makes(Call(c).op)
       THEN Return(c, IF Call(c).op = "stat" /\ job[c].status # "no_such_record"
                      THEN "EREMOTEIO" ELSE "ENOENT")
       ELSE /\ IF Len(Path(c)) = 1 THEN Located(c, RootInode)
               ELSE /\ Go(c, "parent")
                    /\ my' = [my EXCEPT ![c] = [Fresh EXCEPT !.pos = 1]]
                    /\ Look(c, RootPair, Root, Path(c)[1])
            /\ NoteTrouble(c)
            /\ UNCHANGED <<script, reply, before>>
    /\ Local

ParentFound(c) ==
    /\ at[c] = "parent"
    /\ Succeeded(c)
    /\ my[c].pos = Depth(c)
    /\ Located(c, Child(c))
    /\ Local /\ UNCHANGED <<script, reply, history>>

-----------------------------------------------------------------------------
(* hfs_create_alloc_data_handle *)

NextServer(c) == Placement(my[c].first, Len(my[c].rows))
WithRow(c, hdl) ==
    my' = [my EXCEPT ![c].rows = Append(@, [srv |-> NextServer(c), hdl |-> hdl]),
                     ![c].read = 0]

\* A data server takes its lock and reads the counter.
DataAlwaysFree(d) == dlock[d] = dlock[d]
DataFree(d) == dlock[d] = Nobody
ReadCounter(c) ==
    /\ at[c] = "extents"
    /\ Len(my[c].rows) < Copies
    /\ <<NextServer(c), "data">> \notin dead
    /\ DataFree(NextServer(c))
    /\ dlock' = [dlock EXCEPT ![NextServer(c)] = c]
    /\ my' = [my EXCEPT ![c].read = counter[NextServer(c)]]
    /\ Go(c, "counted")
    /\ UNCHANGED <<metaVars, dataVars, script, reply, faults, history>>

\* The response is sent with the status of the unlocking.
Unlocked(c, hdl) ==
    /\ WithRow(c, hdl)
    /\ dlock' = [dlock EXCEPT ![NextServer(c)] = Nobody]
    /\ Go(c, "extents")
    /\ UNCHANGED <<metaVars, script, reply, scenario, dead, crossed, history>>

AllocExtent(c) ==
    /\ at[c] = "counted"
    /\ NewFile(NextServer(c), my[c].read)
    /\ Unlocked(c, NewHandle(NextServer(c), my[c].read))
    /\ UNCHANGED diskErrors

DiskError(c) ==
    /\ at[c] = "counted"
    /\ diskErrors < Given.diskErrors
    /\ diskErrors' = diskErrors + 1
    /\ DiskFails(NextServer(c), my[c].read)
    /\ Unlocked(c, Invalid)

ExtentLost(c) ==
    /\ at[c] = "extents"
    /\ Len(my[c].rows) < Copies
    /\ <<NextServer(c), "data">> \in dead
    /\ WithRow(c, Lost)
    /\ Local /\ UNCHANGED <<job, script, at, reply, history>>

\* All requests were waited for: one that failed fails the call.
ExtentsDone(c) ==
    /\ at[c] = "extents"
    /\ Len(my[c].rows) = Copies
    /\ IF \E i \in 1..Copies : my[c].rows[i].hdl = Lost
       THEN Return(c, "EREMOTEIO")
       ELSE /\ AskInode(c)
            /\ my' = [my EXCEPT ![c].first = 0]
            /\ UNCHANGED <<script, reply, history>>
    /\ Local

-----------------------------------------------------------------------------
(* The rest of hfs_create *)

\* The inode is allocated: hfs_setIAttr.
InodeDone(c) ==
    /\ at[c] = "inode"
    /\ Succeeded(c)
    /\ my' = [my EXCEPT ![c].new = [pair |-> Pair(c), handle |-> job[c].rows[1]]]
    /\ Go(c, "attributes")
    /\ Ask(c, Pair(c), [op |-> "setattr", file |-> job[c].rows[1],
                        mode |-> IF Call(c).op = "mkdir" THEN "dir" ELSE "file",
                        stripes |-> Len(my[c].rows) \div 2, extents |-> my[c].rows])
    /\ Local /\ UNCHANGED <<script, reply, history>>

\* hfs_create_add_dirent, once the attributes are set.
AttributesAnyhow(c) == Succeeded(c) \/ Failed(c)
AttributesSet(c) == Succeeded(c)
AttributesDone(c) ==
    /\ at[c] = "attributes"
    /\ AttributesSet(c)
    /\ Go(c, "name")
    /\ Ask(c, my[c].dir.pair, [op |-> "add", dir |-> my[c].dir.handle, name |-> Last(Path(c)),
                               file |-> my[c].new.handle, home |-> my[c].new.pair])
    /\ Local /\ UNCHANGED <<script, my, reply, history>>

\* clnt_fuse_open goes on to fetch the attributes of the file it has made.
NameDone(c) ==
    /\ at[c] = "name"
    /\ Succeeded(c)
    /\ IF Call(c).op = "creat" THEN Visit(c, my[c].new.pair, my[c].new.handle)
       ELSE Return(c, "ok")
    /\ Local

\* hfs_getIAttr, SAVE_CLIENT_FILE_HANDLE.
StatDone(c) ==
    /\ at[c] = "attributes of"
    /\ Succeeded(c)
    /\ Return(c, "ok")
    /\ Local

\* What was taken stays taken: nothing is freed.
GiveUp(c) ==
    /\ at[c] \in {"parent", "inode", "attributes", "name", "attributes of"}
    /\ Failed(c)
    /\ Return(c, IF Call(c).op = "stat" /\ job[c].status = "no_such_record"
                 THEN "ENOENT" ELSE "EREMOTEIO")
    /\ Local

\* clnt_fuse_readdir, called with growing offsets until it adds nothing.
\* hfs_readdir reports success always; the count in the packet is the
\* server's, which is 0 after an error, or, when nothing was sent, the offset
\* of the request, which lies at the same place.
Listed(c) == IF job[c].status = "transmission_failed"
             THEN [i \in 1..Cmd(c).offset |-> [name |-> ""]]
             ELSE job[c].rows
ListPage(c) ==
    /\ at[c] = "list"
    /\ Succeeded(c) \/ Failed(c)
    /\ IF Listed(c) = <<>> THEN Return(c, "ok")
       ELSE /\ my' = [my EXCEPT ![c].rows = @ \o Listed(c)]
            /\ Go(c, "next page")
            /\ job' = [job EXCEPT ![c] = NoJob]
            /\ NoteTrouble(c)
            /\ UNCHANGED <<script, reply, before>>
    /\ Local

-----------------------------------------------------------------------------
\* A server fails; one that is serving a request leaves its client waiting
\* for ever (see ClientConn), so only one that is not.
Die(s) ==
    /\ dead = {}
    /\ s \in Given.mortal
    /\ \A c \in Clients : Srv(c) = s => job[c].at \in {"none", "answered", FirstStep(Cmd(c).op)}
    /\ s[2] = "data" => dlock[s[1]] = Nobody
    /\ dead' = {s}
    /\ UNCHANGED <<metaVars, dataVars, client, dlock, scenario, diskErrors, crossed, history>>

\* The kernel asks for the next page.
GoOn(c) == at[c] # "idle" /\ Start(c)

Step(c) ==
    \/ Retry(c) \/ TransmissionFails(c) \/ Work(c)
    \/ WalkOn(c) \/ Found(c) \/ NotThere(c) \/ ParentFound(c)
    \/ ReadCounter(c) \/ AllocExtent(c) \/ ExtentLost(c) \/ ExtentsDone(c)
    \/ InodeDone(c) \/ AttributesDone(c) \/ NameDone(c) \/ StatDone(c) \/ GiveUp(c)
    \/ ListPage(c) \/ GoOn(c)

Next == \/ \E c \in Clients : Start(c) \/ Step(c) \/ DiskError(c)
        \/ \E c, d \in Clients : Collide(c, d)
        \/ \E s \in Given.mortal : Die(s)

Spec == Init /\ [][Next]_vars /\ \A c \in Clients : WF_vars(Step(c))

-----------------------------------------------------------------------------
(* What is checked *)

\* Types; and, unless statements have crossed, that a data handle row has its
\* inode, and what a result on a connection says of its owner.
TypeOK ==
    /\ \A p \in Pairs :
          /\ DOMAIN inode[p] \subseteq Nat
          /\ \A h \in DOMAIN inode[p] : inode[p][h] \in [mode : {"none", "dir", "file"},
                                                         stripes : {0, Stripes}]
          /\ ~crossed => DOMAIN extents[p] \subseteq DOMAIN inode[p]
          /\ \A h \in DOMAIN extents[p] : \A i \in 1..Len(extents[p][h]) :
                extents[p][h][i].srv \in DataServers
    /\ \A s \in Servers : /\ result[s] # Nobody /\ ~crossed => Srv(result[s]) = s
                          /\ lock[s] # Nobody => Srv(lock[s]) = s /\ Cmd(lock[s]).op = "alloc"
    /\ \A d \in DataServers : dlock[d] # Nobody => at[dlock[d]] = "counted"
    /\ diskErrors \in 0..Given.diskErrors /\ crossed \in BOOLEAN

\* hfs_create_alloc_data_handle: the two copies of a stripe are on different
\* servers, so that losing one server loses no stripe, unless statements have
\* crossed and two clients set the handles of one inode.
CopiesApart ==
    ~crossed => \A p \in Pairs : \A f \in DOMAIN inode[p] :
        LET r == HandlesOf(p, f)
        IN \A i \in 1..Stripes : Len(r) = Copies => r[i].srv # r[i + Stripes].srv

\* readHandleFromFile, srvAllocDataHandle: while no system call fails, every
\* extent a file is given has a valid handle: two requests that come together
\* do not make one server try to create one file twice.
HandlesValid ==
    diskErrors = 0 =>
        \A c \in Clients : at[c] \in {"extents", "counted"} =>
            \A i \in 1..Len(my[c].rows) : my[c].rows[i].hdl # Invalid

\* dbGetAttr, dbSetAttr: whoever fetches attributes finds them set, with the
\* data handles of all stripes, each its own, although they are written in many
\* statements, read in two, and set again on the backup after a failure; unless
\* statements have crossed.
AttributesWhole ==
    ~crossed => \A c \in Clients : (Answered(c) /\ Cmd(c).op = "getattr" /\ job[c].status = "ok") =>
        LET row(i) == job[c].rows[i + 1]
            n == 2 * job[c].rows[1].stripes
        IN /\ job[c].rows[1].mode # "none"
           /\ Len(job[c].rows) = 1 + n
           /\ \A i, j \in 1..n : row(i) = row(j) => i = j \/ row(i).hdl = Invalid

\* hfs_create ("absolutely right to assume that the file does not exist"):
\* unless a lookup ended in an error, or statements have crossed, a name is made
\* a second time only if the first came after the lookup began.
NoDuplicateInSequence ==
    [][\A c \in Clients :
          (names' # names /\ job[c].at = "insert name" /\ job'[c].at = "answered"
             /\ job'[c].status = "ok" /\ ~trouble[c] /\ ~crossed) =>
                \A i \in 1..before[c][Pair(c)] :
                    ~(/\ names[Pair(c)][i].dir = Cmd(c).dir
                      /\ names[Pair(c)][i].name = Cmd(c).name)]_vars

\* clnt_fuse_readdir: a listing whose requests were answered holds every
\* name that was there when it began, and none twice, unless statements have
\* crossed.
ListingComplete ==
    [][\A c \in Clients :
          (/\ at[c] = "list" /\ at'[c] = "idle"
           /\ ~trouble[c] /\ ~crossed /\ job[c].status \in {"ok", "no_such_record"}) =>
              LET Held(i) == names[Pair(c)][i]
                  mine == {i \in 1..before[c][Pair(c)] : Held(i).dir = Cmd(c).dir}
                  listed == my[c].rows
              IN /\ \A i \in mine : \E j \in 1..Len(listed) : listed[j] = Held(i)
                 /\ \A i, j \in 1..Len(listed) : listed[i] = listed[j] => i = j]_vars

\* Every call returns: no lock is left behind by a failed command, and no
\* lookup, retry or listing goes on for ever, unless statements cross and a worker
\* waits for a reply that another has read.
EveryCallReturns == \A c \in Clients : (at[c] # "idle") ~> (at[c] = "idle" \/ crossed)

\* What is visible: the files names lead to, with their extents.
Entries(p) == {[dir |-> [pair |-> p, handle |-> names[p][i].dir], name |-> names[p][i].name,
                file |-> [pair |-> names[p][i].home, handle |-> names[p][i].file]] :
                    i \in 1..Len(names[p])}
Visible == {RootInode} \cup UNION {{e.file : e \in Entries(p)} : p \in Pairs}
Contents(f) == [mode |-> inode[f.pair][f.handle].mode, rows |-> HandlesOf(f.pair, f.handle)]
AllEntries == UNION {Entries(p) : p \in Pairs}
AllPlaces == [f \in Visible |-> Contents(f)]
Tree == INSTANCE FileTree WITH
    RootDir <- RootInode,
    Hole <- Invalid,
    entry <- AllEntries,
    place <- AllPlaces,
    broken <- crossed

\* However the requests of several creations interleave, fail and are made
\* again, a name appears only with a whole file that shares nothing, until
\* statements cross.
ImplementsFileTree == Tree!FileTreeSpec
=============================================================================
