--------------------------- MODULE FileTree_proofs ---------------------------
(***************************************************************************)
(* What creating files promises, for any clients, servers, calls and       *)
(* failures: FileCreate implements FileTree, a name is not made again by a *)
(* call that could have found it, and a listing misses no name.            *)
(*                                                                         *)
(* An extent is of one file (ExtentsApart): each was new to its disk, and  *)
(* the calls hand on what they drew.  Every file a lookup can find has one *)
(* path (Paths), which grows with the tree and is what the walks follow;   *)
(* so a file is named in the directory its call was given, and only there. *)
(* A lookup that finds nothing shows that the path, or a part of it, led   *)
(* nowhere when the call began (Before), and then no row that old can be   *)
(* of the name the call makes.                                             *)
(*                                                                         *)
(* A select of a directory returns each of its rows once (InDirectory), in *)
(* an order to which a later one only adds.  So the pages of a listing,    *)
(* however far apart, join to what the directory begins with (Lists), and  *)
(* the page that is empty says that this is all.                           *)
(***************************************************************************)
EXTENDS FileCreate_proofs, WellFoundedInduction

-----------------------------------------------------------------------------
(* Which extents belong to whom *)

\* The extents of a file that is being made, and those an inode has.
Drawing(c) == at[c] \in {"extents", "counted", "inode", "attributes"}
TakenBy(c) == {e \in Tree!Allocated(Rows(c)) : Drawing(c) /\ e.hdl # Lost}
TakenFor(p, h) == Tree!Allocated(HandlesOf(p, h))
OnDisk(S) == \A e \in S : e.srv \in DataServers /\ e.hdl \in DOMAIN file[e.srv]

ExtentsApart ==
    /\ \A c \in Clients : OnDisk(TakenBy(c))
    /\ \A p \in Pairs : \A h \in DOMAIN inode[p] : OnDisk(TakenFor(p, h))
    /\ \A c, d \in Clients : c # d => TakenBy(c) \cap TakenBy(d) = {}
    /\ \A c \in Clients : \A p \in Pairs : \A h \in DOMAIN inode[p] :
          Owns(c, p, h) \/ TakenBy(c) \cap TakenFor(p, h) = {}
    /\ \A p, q \in Pairs : \A h \in DOMAIN inode[p], k \in DOMAIN inode[q] :
          p # q \/ h # k => TakenFor(p, h) \cap TakenFor(q, k) = {}

-----------------------------------------------------------------------------
(* What a step of one client does *)

Acts(c) == Start(c) \/ Step(c) \/ DiskError(c)

\* It is the only one that goes on.
Alone(c) ==
    \A d \in Clients \ {c} :
        job'[d] = job[d] /\ my'[d] = my[d] /\ at'[d] = at[d] /\ script'[d] = script[d]

\* A step of its request, or of its call between two requests, or of a data
\* server on its behalf.
InRequest(c) ==
    /\ Serving /\ \A d \in Clients \ {c} : job'[d] = job[d]
    /\ Cmd(c)' = Cmd(c) /\ Pair(c)' = Pair(c)

LEMMA AnswersInRequest ==
    ASSUME Shaped, NEW c \in Clients, Serving, NEW status, NEW rows, Answer(c, status, rows)
    PROVE  InRequest(c)
  BY AnswerTurns DEF InRequest, JobTurned

LEMMA ThenInRequest ==
    ASSUME Shaped, NEW c \in Clients, Serving, NEW next, NEW rows, Then(c, next, rows)
    PROVE  InRequest(c)
  BY ThenTurns DEF InRequest, JobTurned

LEMMA SelectInRequest ==
    ASSUME Shaped, NEW c \in Clients, Serving, NEW where, NEW rows, NEW next,
           Select(c, where, rows, next)
    PROVE  InRequest(c)
<1>1. Then(c, next, rows)
  BY DEF Select, Then
<1> QED BY <1>1, ThenInRequest

LEMMA WorkInRequest ==
    ASSUME Shaped, NEW c \in Clients, Serving, MetaStep(c)
    PROVE  InRequest(c)
<1>1. CASE LookUp(c) \/ ReadDir(c) \/ GetAttr(c) \/ GetHandles(c) \/ CheckHandles(c)
      \/ SelectFree(c) \/ SelectMax(c)
  BY <1>1, SelectInRequest DEF LookUp, ReadDir, GetAttr, GetHandles, CheckHandles, SelectFree,
     SelectMax
<1>2. CASE LookUpStored(c) \/ ReadDirStored(c) \/ GetAttrStored(c) \/ GetHandlesStored(c)
  BY <1>2, AnswersInRequest, ThenInRequest DEF LookUpStored, ReadDirStored, GetAttrStored,
     GetHandlesStored
<1>3. CASE CheckHandlesStored(c) \/ FreeStored(c) \/ MaxStored(c) \/ SetAttr(c)
      \/ InsertHandle(c) \/ LockUpdates(c)
  BY <1>3, AnswersInRequest, ThenInRequest DEF CheckHandlesStored, FreeStored, MaxStored,
     SetAttr, InsertHandle, LockUpdates
<1>4. CASE InsertInode(c) \/ AddDirent(c) \/ OutOfSync(c)
  BY <1>4, AnswersInRequest DEF InsertInode, AddDirent, OutOfSync
<1> QED BY <1>1, <1>2, <1>3, <1>4 DEF MetaStep

LEMMA RequestStep ==
    ASSUME Shaped, NEW c \in Clients, Retry(c) \/ TransmissionFails(c) \/ Work(c)
    PROVE  InRequest(c)
<1>1. CASE Retry(c)
  <2>1. Serve(c, <<Pair(c), "backup">>, Cmd(c)) /\ Serving
    BY <1>1 DEF Retry
  <2>2. /\ JobTurned(c)
        /\ job'[c] = [at |-> FirstStep(Cmd(c).op), srv |-> <<Pair(c), "backup">>, cmd |-> Cmd(c),
                      rows |-> <<>>, status |-> "none"]
    BY <2>1, ServeTurns
  <2>3. Cmd(c)' = job'[c].cmd /\ Pair(c)' = job'[c].srv[1]
    BY DEF Cmd, Pair
  <2> QED BY <2>1, <2>2, <2>3 DEF InRequest, JobTurned
<1>2. CASE TransmissionFails(c)
  BY <1>2, AnswersInRequest DEF TransmissionFails
<1>3. CASE Work(c)
  BY <1>3, WorkInRequest DEF Work
<1> QED BY <1>1, <1>2, <1>3

LEMMA InRequestAlone ==
    ASSUME NEW c \in Clients, InRequest(c)
    PROVE  Alone(c) /\ UNCHANGED <<dataVars, client, dlock, faults, history>>
  BY DEF InRequest, Alone, Serving, client

LEMMA ServeAlone ==
    ASSUME Shaped, NEW c \in Clients, NEW srv, NEW cmd, Serve(c, srv, cmd)
    PROVE  \A d \in Clients \ {c} : job'[d] = job[d]
  BY ServeTurns DEF JobTurned

LEMMA ReturnAlone ==
    ASSUME Shaped, NEW c \in Clients, NEW what, Return(c, what)
    PROVE  Alone(c) /\ at'[c] = "idle" /\ script'[c] = Tail(script[c]) /\ my'[c] = Fresh
           /\ job'[c] = NoJob
  BY DEF Shaped, Return, Go, Alone

LEMMA VisitAlone ==
    ASSUME Shaped, NEW c \in Clients, NEW pair, NEW handle, Visit(c, pair, handle)
    PROVE  Alone(c) /\ script' = script /\ my' = my
           /\ at'[c] = IF Call(c).op = "list" THEN "list" ELSE "attributes of"
<1>1. \A d \in Clients \ {c} : job'[d] = job[d]
  BY ServeAlone DEF Visit, Ask
<1> QED BY <1>1 DEF Shaped, Visit, Go, Alone

LEMMA AskInodeAlone ==
    ASSUME Shaped, NEW c \in Clients, AskInode(c), script' = script,
           \A d \in Clients \ {c} : my'[d] = my[d]
    PROVE  Alone(c) /\ at'[c] = "inode"
<1>1. \A d \in Clients \ {c} : job'[d] = job[d]
  BY ServeAlone DEF AskInode, Ask
<1> QED BY <1>1 DEF Shaped, AskInode, Go, Alone

LEMMA LocatedAlone ==
    ASSUME Shaped, NEW c \in Clients, NEW dir, Located(c, dir), script' = script
    PROVE  /\ Alone(c) /\ at'[c] = IF Call(c).op = "mkdir" THEN "inode" ELSE "extents"
           /\ my'[c].rows = <<>> /\ my'[c].dir = dir
<1>1. CASE Call(c).op = "mkdir"
  <2>1. AskInode(c) /\ my' = [my EXCEPT ![c] = [Fresh EXCEPT !.dir = dir]]
    BY <1>1 DEF Located
  <2>2. my'[c].rows = <<>> /\ my'[c].dir = dir /\ \A d \in Clients \ {c} : my'[d] = my[d]
    BY <2>1 DEF Shaped, Fresh
  <2> QED BY <1>1, <2>1, <2>2, AskInodeAlone
<1>2. CASE Call(c).op # "mkdir"
  <2>1. /\ Go(c, "extents") /\ job' = [job EXCEPT ![c] = NoJob]
        /\ \E f \in Given.firsts : my' = [my EXCEPT ![c] = [Fresh EXCEPT !.dir = dir, !.first = f]]
    BY <1>2 DEF Located
  <2>2. my'[c].rows = <<>> /\ my'[c].dir = dir /\ \A d \in Clients \ {c} : my'[d] = my[d]
    BY <2>1 DEF Shaped, Fresh
  <2> QED BY <1>2, <2>1, <2>2 DEF Shaped, Go, Alone
<1> QED BY <1>1, <1>2

\* The steps of a call between two requests.
LEMMA StartAlone ==
    ASSUME Shaped, NEW c \in Clients, Start(c)
    PROVE  Alone(c) /\ Local /\ script' = script /\ my'[c].rows = my[c].rows
           /\ at'[c] \in {"walk", "list", "attributes of"}
<1>1. CASE Path(c) = <<>>
  BY <1>1, VisitAlone DEF Start
<1>2. CASE Path(c) # <<>>
  <2>1. /\ Go(c, "walk") /\ my' = [my EXCEPT ![c].pos = 1] /\ script' = script
        /\ Look(c, RootPair, Root, Path(c)[1])
    BY <1>2 DEF Start
  <2>2. \A d \in Clients \ {c} : job'[d] = job[d]
    BY <2>1, ServeAlone DEF Look, Ask
  <2>3. MyShaped(my[c])
    BY DEF Shaped
  <2> QED BY <2>1, <2>2, <2>3 DEF Shaped, Go, Alone, Start, MyShaped
<1>3. Local
  BY DEF Start
<1> QED BY <1>1, <1>2, <1>3

LEMMA WalkAlone ==
    ASSUME Shaped, NEW c \in Clients, WalkOn(c) \/ Found(c) \/ NotThere(c) \/ ParentFound(c)
    PROVE  Alone(c) /\ Local /\ at[c] \in {"walk", "parent"}
           /\ (Drawing(c)' => my'[c].rows = <<>>)
<1>1. CASE WalkOn(c)
  <2>1. \A d \in Clients \ {c} : job'[d] = job[d]
    BY <1>1, ServeAlone DEF WalkOn, Look, Ask
  <2> QED BY <1>1, <2>1 DEF Shaped, WalkOn, Alone, Drawing
<1>2. CASE Found(c)
  BY <1>2, ReturnAlone, VisitAlone DEF Found, Drawing
<1>3. CASE NotThere(c)
  <2>1. Local /\ at[c] = "walk"
    BY <1>3 DEF NotThere, Absent
  <2>2. CASE ~Makes(Call(c).op)
    BY <1>3, <2>1, <2>2, ReturnAlone DEF NotThere, Drawing
  <2>3. CASE Makes(Call(c).op) /\ Len(Path(c)) = 1
    BY <1>3, <2>1, <2>3, LocatedAlone DEF NotThere, Drawing
  <2>4. CASE Makes(Call(c).op) /\ Len(Path(c)) # 1
    <3>1. /\ Go(c, "parent") /\ my' = [my EXCEPT ![c] = [Fresh EXCEPT !.pos = 1]]
          /\ Look(c, RootPair, Root, Path(c)[1]) /\ script' = script
      BY <1>3, <2>4 DEF NotThere
    <3>2. \A d \in Clients \ {c} : job'[d] = job[d]
      BY <3>1, ServeAlone DEF Look, Ask
    <3> QED BY <2>1, <3>1, <3>2 DEF Shaped, Go, Alone, Drawing
  <2> QED BY <2>2, <2>3, <2>4
<1>4. CASE ParentFound(c)
  BY <1>4, LocatedAlone DEF ParentFound, Drawing
<1> QED BY <1>1, <1>2, <1>3, <1>4

\* Extents come from the disk, and from the client to the inode it owns.
LEMMA ExtentsStayApart ==
    ASSUME ExtentsApart, NEW c \in Clients,
           \A d \in Clients \ {c} : /\ TakenBy(d)' = TakenBy(d)
                                    /\ \A p, h : Owns(d, p, h)' <=> Owns(d, p, h),
           \A x \in DataServers : DOMAIN file[x] \subseteq DOMAIN file'[x],
           \A e \in TakenBy(c)' :
              \/ e \in TakenBy(c)
              \/ e.srv \in DataServers /\ e.hdl \in DOMAIN file'[e.srv] \ DOMAIN file[e.srv],
           \A p, h : Owns(c, p, h) => Owns(c, p, h)' \/ TakenBy(c)' = {},
           \A p \in Pairs : \A h \in DOMAIN inode'[p] :
              \/ TakenFor(p, h)' = {}
              \/ /\ h \in DOMAIN inode[p]
                 /\ \/ TakenFor(p, h)' = TakenFor(p, h)
                    \/ Owns(c, p, h) /\ TakenFor(p, h)' \subseteq TakenBy(c)
    PROVE  ExtentsApart'
<1>1. ASSUME NEW d \in Clients, NEW e \in TakenBy(d)'
      PROVE  /\ e.srv \in DataServers /\ e.hdl \in DOMAIN file'[e.srv]
             /\ \/ e \in TakenBy(d)
                \/ d = c /\ e.hdl \notin DOMAIN file[e.srv]
  BY <1>1 DEF ExtentsApart, OnDisk
<1>2. ASSUME NEW p \in Pairs, NEW h \in DOMAIN inode'[p], NEW e \in TakenFor(p, h)'
      PROVE  /\ h \in DOMAIN inode[p] /\ e.srv \in DataServers /\ e.hdl \in DOMAIN file'[e.srv]
             /\ e.hdl \in DOMAIN file[e.srv]
             /\ e \in TakenFor(p, h) \/ (Owns(c, p, h) /\ e \in TakenBy(c))
  BY <1>2 DEF ExtentsApart, OnDisk
<1>3. ASSUME NEW p, NEW h, NEW q, NEW k, Owns(c, p, h), Owns(c, q, k) PROVE p = q /\ h = k
  BY <1>3 DEF Owns
<1>4. (\A d \in Clients : OnDisk(TakenBy(d)))'
  BY <1>1 DEF OnDisk
<1>5. (\A p \in Pairs : \A h \in DOMAIN inode[p] : OnDisk(TakenFor(p, h)))'
  BY <1>2 DEF OnDisk
<1>6. ASSUME NEW d \in Clients, NEW f \in Clients, d # f, NEW e \in TakenBy(d)', e \in TakenBy(f)'
      PROVE  FALSE
  BY <1>1, <1>6 DEF ExtentsApart, OnDisk
<1>7. ASSUME NEW d \in Clients, NEW p \in Pairs, NEW h \in DOMAIN inode'[p], ~Owns(d, p, h)',
             NEW e \in TakenBy(d)', e \in TakenFor(p, h)'
      PROVE  FALSE
  <2>1. ~Owns(d, p, h)
    BY <1>7
  <2>2. h \in DOMAIN inode[p] /\ e.hdl \in DOMAIN file[e.srv]
        /\ (e \in TakenFor(p, h) \/ (Owns(c, p, h) /\ e \in TakenBy(c)))
    BY <1>2, <1>7
  <2>3. e \in TakenBy(d)
    BY <1>1, <1>7, <2>2
  <2> QED BY <2>1, <2>2, <2>3 DEF ExtentsApart
<1>8. ASSUME NEW p \in Pairs, NEW q \in Pairs, NEW h \in DOMAIN inode'[p],
             NEW k \in DOMAIN inode'[q],
             p # q \/ h # k, NEW e \in TakenFor(p, h)', e \in TakenFor(q, k)'
      PROVE  FALSE
  <2>1. h \in DOMAIN inode[p] /\ (e \in TakenFor(p, h) \/ (Owns(c, p, h) /\ e \in TakenBy(c)))
    BY <1>2, <1>8
  <2>2. k \in DOMAIN inode[q] /\ (e \in TakenFor(q, k) \/ (Owns(c, q, k) /\ e \in TakenBy(c)))
    BY <1>2, <1>8
  <2>3. ~(Owns(c, p, h) /\ Owns(c, q, k))
    BY <1>3, <1>8
  <2> QED BY <1>8, <2>1, <2>2, <2>3 DEF ExtentsApart
<1>9. (\A d, f \in Clients : d # f => TakenBy(d) \cap TakenBy(f) = {})'
  BY <1>6
<1>10. (\A d \in Clients : \A p \in Pairs : \A h \in DOMAIN inode[p] :
          Owns(d, p, h) \/ TakenBy(d) \cap TakenFor(p, h) = {})'
  BY <1>7
<1>11. (\A p, q \in Pairs : \A h \in DOMAIN inode[p], k \in DOMAIN inode[q] :
          p # q \/ h # k => TakenFor(p, h) \cap TakenFor(q, k) = {})'
  BY <1>8
<1> QED BY <1>4, <1>5, <1>9, <1>10, <1>11 DEF ExtentsApart

\* Between its first extent and the name, a file is not taken from its client.
LEMMA CallAlone ==
    ASSUME Shaped, NEW c \in Clients, Obeys(c),
           \/ ExtentsDone(c) \/ InodeDone(c) \/ AttributesDone(c)
           \/ NameDone(c) \/ StatDone(c) \/ GiveUp(c) \/ ListPage(c)
    PROVE  Alone(c) /\ Local
           /\ (Drawing(c)' => /\ Drawing(c) /\ my'[c].rows = my[c].rows
                              /\ \A p, h : Owns(c, p, h) => Owns(c, p, h)')
<1>1. CASE ExtentsDone(c)
  <2>1. at[c] = "extents" /\ Local
    BY <1>1 DEF ExtentsDone
  <2>2. CASE \E i \in 1..Copies : my[c].rows[i].hdl = Lost
    BY <1>1, <2>1, <2>2, ReturnAlone DEF ExtentsDone, Drawing
  <2>3. CASE ~\E i \in 1..Copies : my[c].rows[i].hdl = Lost
    <3>1. AskInode(c) /\ my' = [my EXCEPT ![c].first = 0] /\ script' = script
      BY <1>1, <2>3 DEF ExtentsDone
    <3>2. my'[c].rows = my[c].rows /\ \A d \in Clients \ {c} : my'[d] = my[d]
      BY <3>1 DEF Shaped, MyShaped
    <3>3. \A p, h : ~Owns(c, p, h)
      BY <2>1 DEF Owns
    <3> QED BY <2>1, <3>1, <3>2, <3>3, AskInodeAlone DEF Drawing
  <2> QED BY <2>2, <2>3
<1>2. CASE InodeDone(c)
  <2>1. /\ at[c] = "inode" /\ Local /\ script' = script
        /\ my' = [my EXCEPT ![c].new = [pair |-> Pair(c), handle |-> job[c].rows[1]]]
        /\ at' = [at EXCEPT ![c] = "attributes"]
    BY <1>2 DEF InodeDone, Go
  <2>2. \A d \in Clients \ {c} : job'[d] = job[d]
    BY <1>2, ServeAlone DEF InodeDone, Ask
  <2>3. /\ my'[c].rows = my[c].rows /\ my'[c].new.pair = Pair(c)
        /\ my'[c].new.handle = job[c].rows[1] /\ \A d \in Clients \ {c} : my'[d] = my[d]
    BY <2>1 DEF Shaped, MyShaped
  <2>4. at'[c] = "attributes"
    BY <2>1 DEF Shaped
  <2>5. \A p, h : Owns(c, p, h) => Owns(c, p, h)'
    BY <2>1, <2>3, <2>4 DEF Owns
  <2> QED BY <2>1, <2>2, <2>3, <2>5 DEF Shaped, Alone, Drawing
<1>3. CASE AttributesDone(c)
  <2>1. \A d \in Clients \ {c} : job'[d] = job[d]
    BY <1>3, ServeAlone DEF AttributesDone, Ask
  <2> QED BY <1>3, <2>1 DEF Shaped, AttributesDone, Go, Alone, Drawing
<1>4. CASE NameDone(c)
  BY <1>4, VisitAlone, ReturnAlone DEF NameDone, Drawing
<1>5. CASE StatDone(c) \/ GiveUp(c)
  BY <1>5, ReturnAlone DEF StatDone, GiveUp, Drawing
<1>6. CASE ListPage(c)
  <2>1. CASE Listed(c) = <<>>
    BY <1>6, <2>1, ReturnAlone DEF ListPage, Drawing
  <2>2. CASE Listed(c) # <<>>
    BY <1>6, <2>2 DEF Shaped, ListPage, Go, Alone, Drawing
  <2> QED BY <2>1, <2>2
<1> QED BY <1>1, <1>2, <1>3, <1>4, <1>5, <1>6

\* A data server adds one row.
LEMMA RowAlone ==
    ASSUME Shaped, NEW c \in Clients, NEW hdl, WithRow(c, hdl)
    PROVE  /\ my'[c].rows = Append(my[c].rows, [srv |-> NextServer(c), hdl |-> hdl])
           /\ my'[c].dir = my[c].dir /\ my'[c].new = my[c].new
           /\ \A d \in Clients \ {c} : my'[d] = my[d]
  BY DEF Shaped, WithRow, MyShaped

LEMMA DrawAlone ==
    ASSUME Shaped, NEW c \in Clients,
           ReadCounter(c) \/ AllocExtent(c) \/ DiskError(c) \/ ExtentLost(c)
    PROVE  /\ Alone(c) /\ job' = job /\ script' = script /\ UNCHANGED <<tables, history, scenario>>
           /\ at[c] \in {"extents", "counted"} /\ at'[c] \in {"extents", "counted"}
           /\ my'[c].dir = my[c].dir
           /\ \/ my'[c].rows = my[c].rows /\ file' = file
              \/ my'[c].rows = Append(my[c].rows, [srv |-> NextServer(c), hdl |-> Lost])
                 /\ file' = file
              \/ my'[c].rows = Append(my[c].rows, [srv |-> NextServer(c), hdl |-> Invalid])
                 /\ file' = file /\ at[c] = "counted"
              \/ /\ my'[c].rows = Append(my[c].rows, [srv |-> NextServer(c),
                                                      hdl |-> NewHandle(NextServer(c), my[c].read)])
                 /\ NewFile(NextServer(c), my[c].read) /\ at[c] = "counted"
<1>1. CASE ReadCounter(c)
  BY <1>1 DEF Shaped, MyShaped, ReadCounter, Go, Alone, metaVars, dataVars, faults
<1>2. ASSUME NEW hdl, Unlocked(c, hdl), at[c] = "counted"
      PROVE  /\ Alone(c) /\ job' = job /\ script' = script
             /\ UNCHANGED <<tables, history, scenario>>
             /\ at[c] = "counted" /\ at'[c] = "extents" /\ my'[c].dir = my[c].dir
             /\ my'[c].rows = Append(my[c].rows, [srv |-> NextServer(c), hdl |-> hdl])
  <2>1. /\ WithRow(c, hdl) /\ at' = [at EXCEPT ![c] = "extents"]
        /\ UNCHANGED <<metaVars, script, scenario, history>>
    BY <1>2 DEF Unlocked, Go
  <2> QED BY <1>2, <2>1, RowAlone DEF Shaped, Alone, metaVars
<1>3. CASE AllocExtent(c)
  <2>1. /\ at[c] = "counted" /\ NewFile(NextServer(c), my[c].read)
        /\ Unlocked(c, NewHandle(NextServer(c), my[c].read))
    BY <1>3 DEF AllocExtent
  <2> QED BY <1>2, <2>1
<1>4. CASE DiskError(c)
  <2>1. at[c] = "counted" /\ file' = file /\ Unlocked(c, Invalid)
    BY <1>4 DEF DiskError, DiskFails
  <2> QED BY <1>2, <2>1
<1>5. CASE ExtentLost(c)
  <2>1. /\ WithRow(c, Lost) /\ at' = at /\ at[c] = "extents" /\ job' = job /\ script' = script
        /\ UNCHANGED <<tables, history, scenario, file>>
    BY <1>5 DEF ExtentLost, Local, dataVars, faults
  <2>2. Alone(c)
    BY <2>1, RowAlone DEF Alone
  <2> QED BY <2>1, <2>2, RowAlone
<1> QED BY <1>1, <1>3, <1>4, <1>5

LEMMA WorkWrites ==
    ASSUME CreateInv, NEW c \in Clients, Serving, MetaStep(c)
    PROVE  WritesOwn(c)
<1>1. CASE UNCHANGED tables
  BY <1>1, TablesStay DEF CreateInv
<1>2. CASE LookUp(c) \/ ReadDir(c) \/ GetAttr(c) \/ GetHandles(c) \/ CheckHandles(c)
      \/ SelectFree(c)
           \/ SelectMax(c)
  BY <1>1, <1>2 DEF LookUp, ReadDir, GetAttr, GetHandles, CheckHandles, SelectFree, SelectMax,
     Select
<1>3. CASE LookUpStored(c) \/ ReadDirStored(c) \/ GetAttrStored(c) \/ GetHandlesStored(c)
           \/ CheckHandlesStored(c) \/ FreeStored(c) \/ MaxStored(c) \/ LockUpdates(c)
           \/ OutOfSync(c)
  BY <1>1, <1>3 DEF LookUpStored, ReadDirStored, GetAttrStored, GetHandlesStored,
     CheckHandlesStored, FreeStored, MaxStored, LockUpdates, OutOfSync, Store
<1> QED BY <1>2, <1>3, SetAttrContinues, InsertHandleContinues, InsertInodeContinues,
           AddDirentContinues DEF MetaStep

\* Whatever a client does, it writes only what it owns.
LEMMA StepWrites ==
    ASSUME CreateInv, NEW c \in Clients, Acts(c)
    PROVE  WritesOwn(c)
<1>1. Shaped /\ Obeys(c) /\ Tables
  BY DEF CreateInv, Sound
<1>2. CASE UNCHANGED tables
  BY <1>1, <1>2, TablesStay
<1>3. CASE Retry(c) \/ TransmissionFails(c)
  BY <1>2, <1>3 DEF Retry, TransmissionFails
<1>4. CASE Work(c)
  BY <1>4, WorkWrites DEF Work
<1>5. CASE Local
  BY <1>2, <1>5 DEF Local
<1>6. CASE Start(c) \/ GoOn(c) \/ WalkOn(c) \/ Found(c) \/ NotThere(c) \/ ParentFound(c)
  BY <1>1, <1>5, <1>6, StartAlone, WalkAlone DEF GoOn
<1>7. CASE \/ ExtentsDone(c) \/ InodeDone(c) \/ AttributesDone(c)
           \/ NameDone(c) \/ StatDone(c) \/ GiveUp(c) \/ ListPage(c)
  BY <1>1, <1>5, <1>7, CallAlone
<1>8. CASE ReadCounter(c) \/ AllocExtent(c) \/ DiskError(c) \/ ExtentLost(c)
  BY <1>1, <1>2, <1>8, DrawAlone
<1> QED BY <1>3, <1>4, <1>6, <1>7, <1>8 DEF Acts, Step

LEMMA StepAlone ==
    ASSUME Shaped, NEW c \in Clients, Obeys(c), Acts(c)
    PROVE  Alone(c)
<1>1. CASE Retry(c) \/ TransmissionFails(c) \/ Work(c)
  BY <1>1, RequestStep, InRequestAlone
<1>2. CASE Start(c) \/ GoOn(c) \/ WalkOn(c) \/ Found(c) \/ NotThere(c) \/ ParentFound(c)
  BY <1>2, StartAlone, WalkAlone DEF GoOn
<1>3. CASE \/ ExtentsDone(c) \/ InodeDone(c) \/ AttributesDone(c)
           \/ NameDone(c) \/ StatDone(c) \/ GiveUp(c) \/ ListPage(c)
  BY <1>3, CallAlone
<1>4. CASE ReadCounter(c) \/ AllocExtent(c) \/ DiskError(c) \/ ExtentLost(c)
  BY <1>4, DrawAlone
<1> QED BY <1>1, <1>2, <1>3, <1>4 DEF Acts, Step

\* A request is over when it has succeeded.
LEMMA RequestUnderWay ==
    ASSUME NEW c \in Clients, Obeys(c), Retry(c) \/ TransmissionFails(c) \/ Work(c)
    PROVE  ~Succeeded(c)
<1>1. CASE Retry(c)
  BY <1>1 DEF Retry, Succeeded
<1>2. CASE TransmissionFails(c)
  <2>1. job[c].at = FirstStep(Cmd(c).op) /\ job[c].at # "none"
    BY <1>2 DEF TransmissionFails
  <2>2. Cmd(c).op \in {"lookup", "readdir", "getattr", "alloc", "setattr", "add"}
    BY <2>1, UnderWay
  <2>3. job[c].at # "answered"
    BY <2>1, <2>2, FirstSteps
  <2> QED BY <2>3 DEF Succeeded, Answered
<1>3. CASE Work(c)
  <2>1. MetaStep(c)
    BY <1>3 DEF Work
  <2>2. job[c].at # "answered"
    BY <2>1 DEF MetaStep, LookUp, ReadDir, GetAttr, GetHandles, CheckHandles, SelectFree, SelectMax,
       Select, LookUpStored, ReadDirStored, GetAttrStored, GetHandlesStored, CheckHandlesStored,
       FreeStored, MaxStored, Store, LockUpdates, OutOfSync, Statements, SetAttr, InsertHandle,
       InsertInode, AddDirent, Statement
  <2> QED BY <2>2 DEF Succeeded, Answered
<1> QED BY <1>1, <1>2, <1>3

\* Where the extents of a client come from.
TakesFresh(c) ==
    /\ \A x \in DataServers : DOMAIN file[x] \subseteq DOMAIN file'[x]
    /\ \A e \in TakenBy(c)' :
          \/ e \in TakenBy(c)
          \/ e.srv \in DataServers /\ e.hdl \in DOMAIN file'[e.srv] \ DOMAIN file[e.srv]
    /\ \A p, h : Owns(c, p, h) => Owns(c, p, h)' \/ TakenBy(c)' = {}

LEMMA SameRowsTaken ==
    ASSUME NEW c \in Clients, file' = file,
           Drawing(c)' => \/ my'[c].rows = <<>>
                          \/ Drawing(c) /\ my'[c].rows = my[c].rows,
           \A p, h : Owns(c, p, h) => Owns(c, p, h)' \/ ~Drawing(c)' \/ my'[c].rows = <<>>
    PROVE  TakesFresh(c)
<1>1. ASSUME my'[c].rows = <<>> PROVE TakenBy(c)' = {}
  BY <1>1 DEF TakenBy, Rows, Tree!Allocated
<1>2. ASSUME ~Drawing(c)' PROVE TakenBy(c)' = {}
  BY <1>2 DEF TakenBy
<1>3. ASSUME Drawing(c), my'[c].rows = my[c].rows PROVE TakenBy(c)' \subseteq TakenBy(c)
  BY <1>3 DEF TakenBy, Rows
<1> QED BY <1>1, <1>2, <1>3 DEF TakesFresh

LEMMA DrawsFresh ==
    ASSUME CreateInv, NEW c \in Clients,
           ReadCounter(c) \/ AllocExtent(c) \/ DiskError(c) \/ ExtentLost(c)
    PROVE  TakesFresh(c)
<1> DEFINE x == NextServer(c)
<1>1. Shaped /\ Draws(c) /\ Disks
  BY DEF CreateInv, Sound
<1>2. at[c] \in {"extents", "counted"} /\ at'[c] \in {"extents", "counted"}
  BY <1>1, DrawAlone
<1>3. \A p, h : ~Owns(c, p, h)
  BY <1>2 DEF Owns
<1>4. Drawing(c) /\ Drawing(c)'
  BY <1>2 DEF Drawing
<1>5. Rows(c) \in Seq(Extent)
  BY <1>1, <1>2 DEF Draws
<1>6. ASSUME NEW row, my'[c].rows = Append(my[c].rows, row), row.srv = x, row \in Extent
      PROVE  \A e \in TakenBy(c)' : e \in TakenBy(c) \/ (e = row /\ e.hdl \notin {Lost, Invalid})
  <2>1. DOMAIN Rows(c)' = 1..Len(Rows(c)) + 1 /\ DOMAIN Rows(c) = 1..Len(Rows(c))
        /\ Len(Rows(c)) \in Nat
        /\ Rows(c)'[Len(Rows(c)) + 1] = row
        /\ \A i \in 1..Len(Rows(c)) : Rows(c)'[i] = Rows(c)[i]
    BY <1>5, <1>6 DEF Rows
  <2> QED BY <1>4, <2>1 DEF TakenBy, Tree!Allocated
<1>7. CASE my'[c].rows = my[c].rows /\ file' = file
  BY <1>3, <1>4, <1>7, SameRowsTaken
<1>8. x \in DataServers \/ at[c] # "counted"
  <2> SUFFICES ASSUME at[c] = "counted" PROVE x \in DataServers
    OBVIOUS
  <2>1. my[c].first \in DataServers /\ Len(my[c].rows) \in 0..Copies - 1
    BY <1>1, CountsOfCopies DEF Draws, Rows
  <2> QED BY <2>1, PlacedOnServer DEF NextServer
<1> HIDE DEF x
<1>9. ASSUME NEW hdl, my'[c].rows = Append(my[c].rows, [srv |-> x, hdl |-> hdl]), file' = file,
             hdl \in {Invalid, Lost}, x \in DataServers
      PROVE  TakesFresh(c)
  <2> DEFINE row == [srv |-> x, hdl |-> hdl]
  <2>1. row \in Extent /\ row.srv = x /\ row.hdl = hdl
    BY <1>9 DEF Extent, Invalid, Lost
  <2> HIDE DEF row
  <2>2. my'[c].rows = Append(my[c].rows, row)
    BY <1>9 DEF row
  <2>3. \A e \in TakenBy(c)' : e \in TakenBy(c)
    BY <1>6, <1>9, <2>1, <2>2
  <2> QED BY <1>3, <1>9, <2>3 DEF TakesFresh
<1>10. CASE AllocExtent(c)
  <2>1. at[c] = "counted" /\ my[c].read = counter[x] /\ NewFile(x, counter[x])
    BY <1>1, <1>10 DEF AllocExtent, Draws, x
  <2>2. my'[c].rows = Append(my[c].rows, [srv |-> x, hdl |-> NewHandle(x, counter[x])])
    BY <1>1, <1>10, <2>1, RowAlone DEF AllocExtent, Unlocked, x
  <2> DEFINE k == counter[x] + 1
  <2>3. x \in DataServers /\ counter[x] \in Nat /\ DOMAIN file[x] \subseteq 1..counter[x]
    BY <1>1, <1>8, <2>1 DEF Disks
  <2>4. k \in Nat /\ k \notin DOMAIN file[x]
    BY <2>3
  <2>5. file' = [file EXCEPT ![x] = [h \in DOMAIN file[x] \cup {k} |->
                                          IF h = k THEN <<>> ELSE file[x][h]]]
    BY <2>1, <2>4 DEF NewFile
  <2>6. NewHandle(x, counter[x]) = k
    BY <2>4 DEF NewHandle
  <2> HIDE DEF k
  <2>7. /\ DOMAIN file'[x] = DOMAIN file[x] \cup {k}
        /\ \A d \in DataServers : d # x => file'[d] = file[d]
    BY <1>1, <2>3, <2>5 DEF Disks
  <2> DEFINE row == [srv |-> x, hdl |-> k]
  <2>8. row \in Extent /\ row.srv = x /\ row.hdl = k
    BY <2>3, <2>4 DEF Extent
  <2>9. my'[c].rows = Append(my[c].rows, row)
    BY <2>2, <2>6
  <2> HIDE DEF row
  <2>10. \A e \in TakenBy(c)' : e \in TakenBy(c) \/ e = row
    BY <1>6, <2>8, <2>9
  <2>11. \A d \in DataServers : DOMAIN file[d] \subseteq DOMAIN file'[d]
    BY <2>7
  <2> QED BY <1>3, <2>3, <2>4, <2>7, <2>8, <2>10, <2>11 DEF TakesFresh
<1>11. CASE ReadCounter(c) \/ DiskError(c)
  <2>1. CASE ReadCounter(c)
    BY <1>1, <1>7, <2>1 DEF ReadCounter, dataVars, Shaped, MyShaped
  <2>2. CASE DiskError(c)
    <3>1. at[c] = "counted" /\ file' = file /\ WithRow(c, Invalid)
      BY <2>2 DEF DiskError, DiskFails, Unlocked
    <3>2. my'[c].rows = Append(my[c].rows, [srv |-> x, hdl |-> Invalid])
      BY <1>1, <3>1, RowAlone DEF x
    <3> QED BY <1>8, <1>9, <3>1, <3>2
  <2> QED BY <1>11, <2>1, <2>2
<1>12. CASE ExtentLost(c)
  <2>1. file' = file /\ WithRow(c, Lost) /\ Len(my[c].rows) < Copies
    BY <1>12 DEF ExtentLost, Local, dataVars
  <2>2. my'[c].rows = Append(my[c].rows, [srv |-> x, hdl |-> Lost])
    BY <1>1, <2>1, RowAlone DEF x
  <2>3. x \in DataServers
    <3>1. my[c].first \in DataServers /\ Len(my[c].rows) \in 0..Copies - 1
      BY <1>1, <1>2, <1>5, <2>1, CountsOfCopies DEF Draws, Rows
    <3> QED BY <3>1, PlacedOnServer DEF NextServer, x
  <2> QED BY <1>9, <2>1, <2>2, <2>3
<1> QED BY <1>10, <1>11, <1>12

LEMMA StepFresh ==
    ASSUME CreateInv, NEW c \in Clients, Acts(c)
    PROVE  TakesFresh(c)
<1>1. Shaped /\ Obeys(c)
  BY DEF CreateInv, Sound
<1>2. CASE Retry(c) \/ TransmissionFails(c) \/ Work(c)
  <2>1. InRequest(c) /\ ~Succeeded(c)
    BY <1>1, <1>2, RequestStep, RequestUnderWay
  <2>2. at' = at /\ my' = my /\ file' = file
    BY <2>1 DEF InRequest, Serving, client, dataVars
  <2>3. \A p, h : Owns(c, p, h) => Owns(c, p, h)'
    BY <2>1, <2>2 DEF Owns
  <2> QED BY <2>2, <2>3, SameRowsTaken DEF Drawing
<1>3. CASE Start(c) \/ GoOn(c)
  <2>1. Local /\ ~Drawing(c)'
    BY <1>1, <1>3, StartAlone DEF GoOn, Drawing
  <2> QED BY <2>1, SameRowsTaken DEF Local, dataVars
<1>4. CASE WalkOn(c) \/ Found(c) \/ NotThere(c) \/ ParentFound(c)
  <2>1. Local /\ at[c] \in {"walk", "parent"} /\ (Drawing(c)' => my'[c].rows = <<>>)
    BY <1>1, <1>4, WalkAlone
  <2>2. \A p, h : ~Owns(c, p, h)
    BY <2>1 DEF Owns
  <2> QED BY <2>1, <2>2, SameRowsTaken DEF Local, dataVars
<1>5. CASE \/ ExtentsDone(c) \/ InodeDone(c) \/ AttributesDone(c)
           \/ NameDone(c) \/ StatDone(c) \/ GiveUp(c) \/ ListPage(c)
  <2>1. Local /\ (Drawing(c)' => /\ Drawing(c) /\ my'[c].rows = my[c].rows
                                 /\ \A p, h : Owns(c, p, h) => Owns(c, p, h)')
    BY <1>1, <1>5, CallAlone
  <2> QED BY <2>1, SameRowsTaken DEF Local, dataVars
<1>6. CASE ReadCounter(c) \/ AllocExtent(c) \/ DiskError(c) \/ ExtentLost(c)
  BY <1>6, DrawsFresh
<1> QED BY <1>2, <1>3, <1>4, <1>5, <1>6 DEF Acts, Step

\* An inode gets its extents from the client that owns it.
LEMMA HandlesFromOwner ==
    ASSUME CreateInv, CreateInv', NEW c \in Clients, WritesOwn(c),
           NEW p \in Pairs, NEW h \in DOMAIN inode'[p]
    PROVE  \/ TakenFor(p, h)' = {}
           \/ /\ h \in DOMAIN inode[p]
              /\ \/ TakenFor(p, h)' = TakenFor(p, h)
                 \/ Owns(c, p, h) /\ TakenFor(p, h)' \subseteq TakenBy(c)
<1>1. CASE h \notin DOMAIN inode[p]
  <2>1. HandlesOf(p, h)' = <<>>
    BY <1>1 DEF WritesOwn
  <2> QED BY <2>1 DEF TakenFor, Tree!Allocated
<1>2. CASE h \in DOMAIN inode[p] /\ Unwritten(p, h)
  BY <1>2 DEF Unwritten, TakenFor, Tree!Allocated
<1>3. CASE h \in DOMAIN inode[p] /\ ~Unwritten(p, h)
  <2>1. Owns(c, p, h) /\ at[c] = "attributes" /\ at'[c] = "attributes" /\ my'[c] = my[c]
    BY <1>3 DEF WritesOwn
  <2>2. p = my[c].new.pair /\ h = my[c].new.handle
    BY <2>1 DEF Owns
  <2>3. Sets(c)' /\ Drawn(c)
    BY DEF CreateInv, Sound
  <2> DEFINE some == HandlesOf(p, h)'
  <2>4. some = HandlesOf(my[c].new.pair, my[c].new.handle)'
    BY <2>1, <2>2 DEF HandlesOf
  <2>5. Begins(some, Rows(c))
    <3>1. Begins(HandlesOf(my[c].new.pair, my[c].new.handle)', Rows(c)')
      BY <2>1, <2>3 DEF Sets, Begins
    <3> QED BY <2>1, <2>4, <3>1 DEF Rows
  <2>6. Rows(c) \in Seq(Extent) /\ \A i \in 1..Len(Rows(c)) : Rows(c)[i].hdl # Lost
    BY <2>1, <2>3 DEF Drawn
  <2> DEFINE n == Len(some)
             all == Rows(c)
  <2> HIDE DEF some, all
  <2>7. n \in 0..Len(all) /\ some = SubSeq(all, 1, n) /\ all \in Seq(Extent)
    BY <2>5, <2>6 DEF Begins, all
  <2>8. DOMAIN some = 1..n /\ \A i \in 1..n : i \in DOMAIN all /\ some[i] = all[i]
    BY <2>7
  <2>9. \A e \in Tree!Allocated(some) : e \in Tree!Allocated(all) /\ e.hdl # Lost
    <3>1. \A i \in DOMAIN all : all[i].hdl # Lost
      BY <2>6 DEF all
    <3> QED BY <2>8, <3>1 DEF Tree!Allocated
  <2>10. TakenFor(p, h)' \subseteq TakenBy(c)
    <3>1. TakenFor(p, h)' = Tree!Allocated(some)
      BY DEF TakenFor, some, Tree!Allocated
    <3>2. Drawing(c)
      BY <2>1 DEF Drawing
    <3> QED BY <2>9, <3>1, <3>2 DEF TakenBy, all
  <2> QED BY <1>3, <2>1, <2>10
<1> QED BY <1>1, <1>2, <1>3

LEMMA ExtentsStep ==
    ASSUME CreateInv, CreateInv', ExtentsApart, NEW c \in Clients, Acts(c)
    PROVE  ExtentsApart'
<1>1. Alone(c) /\ WritesOwn(c) /\ TakesFresh(c)
  BY StepAlone, StepWrites, StepFresh DEF CreateInv, Sound
<1>2. ASSUME NEW d \in Clients \ {c}
      PROVE  TakenBy(d)' = TakenBy(d) /\ \A p, h : Owns(d, p, h)' <=> Owns(d, p, h)
  BY <1>1 DEF Alone, TakenBy, Rows, Drawing, Tree!Allocated, Owns, Succeeded, Answered, Pair
<1> QED BY <1>1, <1>2, HandlesFromOwner, ExtentsStayApart DEF TakesFresh

LEMMA ExtentsSame ==
    ASSUME ExtentsApart, UNCHANGED <<metaVars, dataVars, client>>
    PROVE  ExtentsApart'
<1>1. UNCHANGED <<inode, extents, job, file, at, my>>
  BY DEF metaVars, tables, dataVars, client
<1>2. \A d, p, h : Owns(d, p, h)' <=> Owns(d, p, h)
  BY <1>1 DEF Owns, Succeeded, Answered, Pair
<1>3. \A d : TakenBy(d)' = TakenBy(d)
  BY <1>1 DEF TakenBy, Rows, Drawing, Tree!Allocated
<1>4. \A p, h : TakenFor(p, h)' = TakenFor(p, h)
  BY <1>1 DEF TakenFor, HandlesOf, Tree!Allocated
<1>5. \A S : OnDisk(S)' <=> OnDisk(S)
  BY <1>1 DEF OnDisk
<1> QED BY <1>1, <1>2, <1>3, <1>4, <1>5 DEF ExtentsApart

LEMMA ExtentsFirst == Init => ExtentsApart
<1> SUFFICES ASSUME Init PROVE ExtentsApart
  OBVIOUS
<1>1. at = [c \in Clients |-> "idle"] /\ extents = [p \in Pairs |-> [h \in {} |-> <<>>]]
  BY DEF Init, MetaInit
<1>2. \A c \in Clients : TakenBy(c) = {}
  BY <1>1 DEF TakenBy, Drawing
<1>3. \A p \in Pairs : \A h : HandlesOf(p, h) = <<>>
  BY <1>1 DEF HandlesOf
<1>4. \A p \in Pairs : \A h : TakenFor(p, h) = {}
  BY <1>3 DEF TakenFor, Tree!Allocated
<1> QED BY <1>2, <1>4 DEF ExtentsApart, OnDisk

\* A step of the specification is one of a client, or changes no client; what
\* crosses changes only requests.
LEMMA WhoActs ==
    ASSUME [Next]_vars
    PROVE  \/ \E c \in Clients : Acts(c)
           \/ UNCHANGED <<metaVars, dataVars, client, dlock, scenario, history>>
           \/ crossed' /\ UNCHANGED <<tables, client>>
<1>1. ASSUME NEW c \in Clients, NEW d \in Clients, Collide(c, d)
      PROVE  crossed' /\ UNCHANGED <<tables, client>>
  BY <1>1 DEF Collide, Cross
<1> QED BY <1>1 DEF Next, Acts, Die, vars, faults

LEMMA ExtentsInvariant == Spec => [](crossed \/ ExtentsApart)
<1>1. ASSUME CreateInv, CreateInv', ExtentsApart, [Next]_vars, ~crossed' PROVE ExtentsApart'
  BY <1>1, WhoActs, ExtentsStep, ExtentsSame
<1> QED BY <1>1, ExtentsFirst, CrossedLasts, CreateInvariant, PTL DEF Spec

-----------------------------------------------------------------------------
(* Paths *)

\* A row of a name table leads from a directory to a file, and is what a lookup
\* finds if it is the first of its name.
From(p, i) == [pair |-> p, handle |-> names[p][i].dir]
To(p, i) == [pair |-> names[p][i].home, handle |-> names[p][i].file]
First(p, i) ==
    \A j \in 1..i - 1 : names[p][j].dir = names[p][i].dir => names[p][j].name # names[p][i].name

\* P is the path of every file a lookup can find.
Rooted(P) ==
    /\ RootInode \in DOMAIN P /\ P[RootInode] = <<>>
    /\ \A x \in DOMAIN P : P[x] \in Seq(STRING)
    /\ \A x, y \in DOMAIN P : P[x] = P[y] => x = y
Leads(P) ==
    \A p \in Pairs : \A i \in DOMAIN names[p] :
        /\ From(p, i) \in DOMAIN P /\ names[p][i].name \in STRING
        /\ First(p, i) => To(p, i) \in DOMAIN P
                          /\ P[To(p, i)] = Append(P[From(p, i)], names[p][i].name)
Led(P) ==
    \A x \in DOMAIN P \ {RootInode} :
        \E p \in Pairs : \E i \in DOMAIN names[p] : First(p, i) /\ To(p, i) = x
NamedOnce ==
    \A p, q \in Pairs : \A i \in DOMAIN names[p], j \in DOMAIN names[q] :
        To(p, i) # RootInode /\ (To(p, i) = To(q, j) => p = q /\ i = j)

\* A regular file is where a call makes one.
FilesMade(P) ==
    \A x \in DOMAIN P :
        \/ inode[x.pair][x.handle].mode = "dir"
        \/ \E d \in Clients : \E i \in DOMAIN Given.calls[d] :
              Given.calls[d][i].op \in {"mknod", "creat"} /\ Given.calls[d][i].path = P[x]

\* The calls a client still has to make are some of those it was given.
Scripted(c) ==
    /\ script[c] \in Seq(Range(Given.calls[c]))
    /\ at[c] # "idle" => script[c] # <<>>

\* A walk is at the file that so much of the path leads to.
Here(c) == [pair |-> Pair(c), handle |-> Cmd(c).dir]
LiesAt(P, x, c, n) == x \in DOMAIN P /\ n \in 0..Len(Path(c)) /\ P[x] = SubSeq(Path(c), 1, n)
Looking(c) == job[c].at = "name" \/ Succeeded(c)
Walks(c, P) ==
    at[c] \in {"walk", "parent"} =>
        /\ at[c] = "parent" => Makes(Call(c).op)
        /\ my[c].pos \in 1..Depth(c) /\ Cmd(c).name = Path(c)[my[c].pos]
        /\ LiesAt(P, Here(c), c, my[c].pos - 1)
        /\ Looking(c) /\ job[c].rows # <<>> =>
              \E i \in DOMAIN names[Pair(c)] :
                  /\ First(Pair(c), i) /\ job[c].rows[1] = names[Pair(c)][i]
                  /\ From(Pair(c), i) = Here(c) /\ names[Pair(c)][i].name = Cmd(c).name

\* What is made goes into the parent, and has no name before it is added.
MadeWhole(c) ==
    inode[my[c].new.pair][my[c].new.handle] =
        IF Call(c).op = "mkdir" THEN [mode |-> "dir", stripes |-> 0]
        ELSE [mode |-> "file", stripes |-> Stripes]
Unnamed(x) == \A p \in Pairs : \A i \in DOMAIN names[p] : To(p, i) # x
MakesIn(c, P) ==
    /\ at[c] \in {"extents", "counted", "inode", "attributes", "name"} =>
          Makes(Call(c).op) /\ Path(c) # <<>> /\ LiesAt(P, my[c].dir, c, Len(Path(c)) - 1)
    /\ at[c] \in {"attributes", "name"} =>
          my[c].new = [pair |-> my[c].new.pair, handle |-> my[c].new.handle]
    /\ at[c] = "name" =>
          /\ Here(c) = my[c].dir /\ Cmd(c).name = Path(c)[Len(Path(c))] /\ MadeWhole(c)
          /\ ~Succeeded(c) => Unnamed(my[c].new)

Paths(P) ==
    /\ Rooted(P) /\ Leads(P) /\ Led(P) /\ NamedOnce /\ FilesMade(P)
    /\ \A c \in Clients : Scripted(c) /\ Walks(c, P) /\ MakesIn(c, P)

LEMMA CallGiven ==
    ASSUME Shaped, NEW c \in Clients, Scripted(c), script[c] # <<>>
    PROVE  /\ \E i \in DOMAIN Given.calls[c] : Given.calls[c][i] = Call(c)
           /\ Path(c) \in Seq(STRING) /\ Len(Path(c)) \in Nat
           /\ (Path(c) # <<>> => Len(Path(c)) >= 1)
           /\ (Path(c) = <<>> => Call(c).op \in {"stat", "list"})
           /\ Tail(script[c]) \in Seq(Range(Given.calls[c]))
<1>1. Given \in Range(Scenarios)
  BY DEF Shaped, Given, Range
<1> DEFINE T == [op : {"mknod", "mkdir", "creat", "open", "stat", "list"}, path : Seq(STRING)]
<1>2. /\ Given.calls[c] \in Seq(T)
      /\ \A i \in DOMAIN Given.calls[c] :
            Given.calls[c][i].path = <<>> => Given.calls[c][i].op \in {"stat", "list"}
  BY <1>1, CreateAssumption
<1>3. Call(c) \in Range(Given.calls[c]) /\ Tail(script[c]) \in Seq(Range(Given.calls[c]))
  <2> DEFINE S == Range(Given.calls[c])
             s == script[c]
  <2>1. s \in Seq(S) /\ s # <<>>
    BY DEF Scripted
  <2> HIDE DEF S, s
  <2>2. Head(s) \in S /\ Tail(s) \in Seq(S)
    BY <2>1
  <2> QED BY <2>2 DEF Call, S, s
<1>4. PICK i \in DOMAIN Given.calls[c] : Given.calls[c][i] = Call(c)
  BY <1>3 DEF Range
<1>5. Call(c) \in T
  <2> DEFINE s == Given.calls[c]
  <2>1. s \in Seq(T) /\ i \in DOMAIN s
    BY <1>2
  <2> HIDE DEF s, T
  <2>2. s[i] \in T
    BY <2>1
  <2> QED BY <1>4, <2>2 DEF s
<1>6. Path(c) \in Seq(STRING)
  BY <1>5 DEF Path
<1>7. Len(Path(c)) \in Nat /\ (Path(c) # <<>> => Len(Path(c)) >= 1)
  BY <1>6
<1>8. Path(c) = <<>> => Call(c).op \in {"stat", "list"}
  BY <1>2, <1>4 DEF Path
<1> QED BY <1>3, <1>4, <1>6, <1>7, <1>8

LEMMA PathOneLonger ==
    ASSUME NEW s \in Seq(STRING), NEW n \in 1..Len(s)
    PROVE  /\ Append(SubSeq(s, 1, n - 1), s[n]) = SubSeq(s, 1, n)
           /\ SubSeq(s, 1, 0) = <<>> /\ SubSeq(s, 1, Len(s)) = s
<1> DEFINE u == SubSeq(s, 1, n - 1)
           v == SubSeq(s, 1, n)
           w == Append(u, s[n])
<1>1. u \in Seq(STRING) /\ Len(u) = n - 1 /\ \A i \in 1..n - 1 : u[i] = s[i]
  OBVIOUS
<1>2. v \in Seq(STRING) /\ Len(v) = n /\ \A i \in 1..n : v[i] = s[i]
  OBVIOUS
<1>3. s[n] \in STRING
  OBVIOUS
<1> HIDE DEF u, v
<1>4. w \in Seq(STRING) /\ Len(w) = n /\ w[n] = s[n] /\ \A i \in 1..n - 1 : w[i] = u[i]
  BY <1>1, <1>3
<1> HIDE DEF w
<1>5. \A i \in 1..n : w[i] = v[i]
  BY <1>1, <1>2, <1>4
<1>6. w = v
  BY <1>2, <1>4, <1>5
<1> QED BY <1>6 DEF u, v, w

\* What has a path is settled.
LEMMA FoundSettled ==
    ASSUME CreateInv, NEW P, Led(P), NEW x \in DOMAIN P
    PROVE  Settled(x.pair, x.handle)
<1>1. CASE x = RootInode
  BY <1>1 DEF CreateInv, NamesSettled, RootInode
<1>2. CASE x # RootInode
  <2>1. PICK p \in Pairs : \E i \in DOMAIN names[p] : First(p, i) /\ To(p, i) = x
    BY <1>2 DEF Led
  <2>2. PICK i \in DOMAIN names[p] : To(p, i) = x
    BY <2>1
  <2>3. x.pair = names[p][i].home /\ x.handle = names[p][i].file
    BY <2>2 DEF To
  <2>4. Settled(names[p][i].home, names[p][i].file)
    BY DEF CreateInv, NamesSettled
  <2> QED BY <2>3, <2>4
<1> QED BY <1>1, <1>2

LEMMA SettledUnwritten ==
    ASSUME NEW c \in Clients, WritesOwn(c), NEW p, NEW h, Settled(p, h)
    PROVE  Unwritten(p, h) /\ p \in Pairs /\ h \in DOMAIN inode[p]
  BY DEF WritesOwn, Settled, Complete

LEMMA CompleteUnwritten ==
    ASSUME NEW c \in Clients, WritesOwn(c), NEW p, NEW h, Complete(p, h), at[c] # "attributes"
    PROVE  Unwritten(p, h)
  BY DEF WritesOwn, Complete


\* Names are only added, and paths with them.
Grows ==
    \A p \in Pairs : \A i \in DOMAIN names[p] :
        i \in DOMAIN names'[p] /\ names'[p][i] = names[p][i]
Extends(Q, P) == \A x \in DOMAIN P : x \in DOMAIN Q /\ Q[x] = P[x]

LEMMA RowsStay ==
    ASSUME Tables, Grows, NEW p \in Pairs, NEW i \in DOMAIN names[p]
    PROVE  /\ i \in DOMAIN names'[p] /\ names'[p][i] = names[p][i]
           /\ From(p, i)' = From(p, i) /\ To(p, i)' = To(p, i) /\ (First(p, i)' <=> First(p, i))
<1>1. \A j \in DOMAIN names[p] : j \in DOMAIN names'[p] /\ names'[p][j] = names[p][j]
  BY DEF Grows
<1>2. 1..i - 1 \subseteq DOMAIN names[p]
  <2>1. names[p] \in Seq(Range(names[p]))
    BY DEF Tables
  <2>2. DOMAIN names[p] = 1..Len(names[p]) /\ Len(names[p]) \in Nat
    BY <2>1
  <2> QED BY <2>2
<1> QED BY <1>1, <1>2 DEF From, To, First

LEMMA CallStays ==
    ASSUME NEW d \in Clients, script'[d] = script[d]
    PROVE  Call(d)' = Call(d) /\ Path(d)' = Path(d)
  BY DEF Call, Path

\* The walk of another client.
LEMMA WalksKept ==
    ASSUME Tables, Grows, NEW d \in Clients, NEW P, NEW Q, Extends(Q, P), Obeys(d),
           job'[d] = job[d], my'[d] = my[d], at'[d] = at[d], script'[d] = script[d], Walks(d, P)
    PROVE  Walks(d, Q)'
<1> SUFFICES ASSUME at[d] \in {"walk", "parent"} PROVE Walks(d, Q)'
  BY DEF Walks
<1>1. Call(d)' = Call(d) /\ Path(d)' = Path(d)
  BY CallStays
<1>2. Here(d)' = Here(d) /\ Cmd(d)' = Cmd(d) /\ Pair(d)' = Pair(d) /\ (Looking(d)' <=> Looking(d))
      /\ Depth(d)' = Depth(d)
  BY <1>1 DEF Here, Cmd, Pair, Looking, Succeeded, Answered, Depth
<1>3. Pair(d) \in Pairs
  BY DEF Obeys
<1>4. LiesAt(P, Here(d), d, my[d].pos - 1) => LiesAt(Q, Here(d), d, my[d].pos - 1)'
  BY <1>1, <1>2 DEF LiesAt, Extends
<1>5. ASSUME NEW i \in DOMAIN names[Pair(d)]
      PROVE  /\ i \in DOMAIN names'[Pair(d)] /\ names'[Pair(d)][i] = names[Pair(d)][i]
             /\ From(Pair(d), i)' = From(Pair(d), i) /\ (First(Pair(d), i)' <=> First(Pair(d), i))
  BY <1>2, <1>3, RowsStay DEF From, First
<1> QED BY <1>1, <1>2, <1>4, <1>5 DEF Walks

\* What another client makes.
LEMMA MakesInKept ==
    ASSUME OneOwner, NEW c \in Clients, NEW d \in Clients \ {c}, WritesOwn(c), OwnsFresh(d),
           NEW P, NEW Q, Extends(Q, P), MakesIn(d, P),
           job'[d] = job[d], my'[d] = my[d], at'[d] = at[d], script'[d] = script[d]
    PROVE  MakesIn(d, Q)'
<1>1. Call(d)' = Call(d) /\ Path(d)' = Path(d)
  BY CallStays
<1>2. Here(d)' = Here(d) /\ Cmd(d)' = Cmd(d) /\ (Succeeded(d)' <=> Succeeded(d))
  BY DEF Here, Cmd, Pair, Succeeded, Answered
<1>3. LiesAt(P, my[d].dir, d, Len(Path(d)) - 1) => LiesAt(Q, my[d].dir, d, Len(Path(d)) - 1)'
  BY <1>1 DEF LiesAt, Extends
<1>4. ASSUME at[d] = "name" PROVE MadeWhole(d) => MadeWhole(d)'
  <2>1. Owns(d, my[d].new.pair, my[d].new.handle)
    BY <1>4 DEF Owns
  <2>2. Unwritten(my[d].new.pair, my[d].new.handle)
    BY <2>1, OwnedUnwritten
  <2> QED BY <1>1, <2>2 DEF MadeWhole, Unwritten
<1>5. ASSUME at[d] = "name", Unnamed(my[d].new),
             my[d].new = [pair |-> my[d].new.pair, handle |-> my[d].new.handle]
      PROVE  Unnamed(my[d].new)'
  <2> SUFFICES ASSUME NEW p \in Pairs, NEW i \in DOMAIN names'[p], To(p, i)' = my[d].new
               PROVE  FALSE
    BY DEF Unnamed
  <2>1. CASE i \in DOMAIN names[p] /\ names'[p][i] = names[p][i]
    BY <1>5, <2>1 DEF Unnamed, To
  <2>2. CASE /\ at[c] = "name" /\ names'[p][i].home = my[c].new.pair
             /\ names'[p][i].file = my[c].new.handle
    <3>1. my[d].new.pair = my[c].new.pair /\ my[d].new.handle = my[c].new.handle
      BY <1>5, <2>2 DEF To
    <3>2. Owns(c, my[d].new.pair, my[d].new.handle) /\ Owns(d, my[d].new.pair, my[d].new.handle)
      BY <1>5, <2>2, <3>1 DEF Owns
    <3> QED BY <3>2 DEF OneOwner
  <2> QED BY <2>1, <2>2 DEF WritesOwn
<1>6. Path(d) # <<>> => Path(d)' # <<>>
  BY <1>1
<1> QED BY <1>1, <1>2, <1>3, <1>4, <1>5, <1>6 DEF MakesIn

LEMMA OthersKeepPaths ==
    ASSUME CreateInv, NEW c \in Clients, Alone(c), WritesOwn(c), Grows, scenario' = scenario,
           NEW P, NEW Q, Extends(Q, P), NEW d \in Clients \ {c},
           Scripted(d), Walks(d, P), MakesIn(d, P)
    PROVE  (Scripted(d) /\ Walks(d, Q) /\ MakesIn(d, Q))'
<1>1. job'[d] = job[d] /\ my'[d] = my[d] /\ at'[d] = at[d] /\ script'[d] = script[d]
  BY DEF Alone
<1>2. Tables /\ OneOwner /\ Obeys(d) /\ OwnsFresh(d)
  BY DEF CreateInv, Sound
<1>3. Scripted(d)'
  BY <1>1 DEF Scripted, Given
<1> QED BY <1>1, <1>2, <1>3, WalksKept, MakesInKept

\* What a lookup can find stays what it is.
LEMMA FilesStayMade ==
    ASSUME CreateInv, NEW c \in Clients, WritesOwn(c), scenario' = scenario,
           NEW P, Led(P), FilesMade(P)
    PROVE  FilesMade(P)'
<1>1. ASSUME NEW x \in DOMAIN P PROVE inode'[x.pair][x.handle] = inode[x.pair][x.handle]
  BY FoundSettled, SettledUnwritten DEF Unwritten
<1>2. Given' = Given
  BY DEF Given
<1> QED BY <1>1, <1>2 DEF FilesMade

\* A step that names nothing.
LEMMA PathsStay ==
    ASSUME CreateInv, NEW c \in Clients, Alone(c), WritesOwn(c), names' = names,
           scenario' = scenario, NEW P, Paths(P), (Scripted(c) /\ Walks(c, P) /\ MakesIn(c, P))'
    PROVE  Paths(P)'
<1>1. Grows
  BY DEF Grows
<1>2. Extends(P, P)
  BY DEF Extends
<1>3. \A d \in Clients : (Scripted(d) /\ Walks(d, P) /\ MakesIn(d, P))'
  BY <1>1, <1>2, OthersKeepPaths DEF Paths
<1>4. FilesMade(P)'
  BY FilesStayMade DEF Paths
<1>5. \A p, i : From(p, i)' = From(p, i) /\ To(p, i)' = To(p, i) /\ (First(p, i)' <=> First(p, i))
  BY DEF From, To, First
<1>6. Rooted(P)' /\ Leads(P)' /\ Led(P)' /\ NamedOnce'
  BY <1>5 DEF Paths, Rooted, Leads, Led, NamedOnce
<1> QED BY <1>3, <1>4, <1>6 DEF Paths

LEMMA PathsSame ==
    ASSUME NEW P, Paths(P), UNCHANGED <<metaVars, dataVars, client, dlock, scenario, history>>
    PROVE  Paths(P)'
<1>1. inode' = inode /\ names' = names /\ job' = job /\ my' = my /\ at' = at /\ script' = script
      /\ scenario' = scenario
  BY DEF metaVars, tables, client
<1>2. \A p, i : From(p, i)' = From(p, i) /\ To(p, i)' = To(p, i) /\ (First(p, i)' <=> First(p, i))
  BY <1>1 DEF From, To, First
<1>3. Given' = Given
  BY <1>1 DEF Given
<1>4. (Rooted(P) /\ Leads(P) /\ Led(P) /\ NamedOnce /\ FilesMade(P))'
  BY <1>1, <1>2, <1>3 DEF Paths, Rooted, Leads, Led, NamedOnce, FilesMade
<1>5. ASSUME NEW d \in Clients
      PROVE  (Scripted(d) /\ Walks(d, P) /\ MakesIn(d, P))'
  <2>1. Call(d)' = Call(d) /\ Path(d)' = Path(d)
    BY <1>1, CallStays
  <2>2. /\ Here(d)' = Here(d) /\ Cmd(d)' = Cmd(d) /\ Pair(d)' = Pair(d)
        /\ (Succeeded(d)' <=> Succeeded(d)) /\ (Looking(d)' <=> Looking(d)) /\ Depth(d)' = Depth(d)
    BY <1>1, <2>1 DEF Here, Cmd, Pair, Looking, Succeeded, Answered, Depth
  <2>3. Scripted(d)'
    BY <1>1, <1>3 DEF Paths, Scripted
  <2>4. \A x, n : LiesAt(P, x, d, n)' <=> LiesAt(P, x, d, n)
    BY <2>1 DEF LiesAt
  <2>5. Walks(d, P)'
    BY <1>1, <1>2, <2>1, <2>2, <2>4 DEF Paths, Walks
  <2>6. MakesIn(d, P)'
    BY <1>1, <1>2, <2>1, <2>2, <2>4 DEF Paths, MakesIn, MadeWhole, Unnamed
  <2> QED BY <2>3, <2>5, <2>6
<1> QED BY <1>4, <1>5 DEF Paths

-----------------------------------------------------------------------------
(* Requests and paths *)

\* dbLookUp: it finds the first row of the name.
LEMMA FirstRowIsFirst ==
    ASSUME Tables, NEW p \in Pairs, NEW dir, NEW name, EntriesNamed(p, dir, name) # {}
    PROVE  \E i \in DOMAIN names[p] :
              /\ FirstRow(p, EntriesNamed(p, dir, name)) = names[p][i] /\ First(p, i)
              /\ names[p][i].dir = dir /\ names[p][i].name = name
<1> DEFINE T == EntriesNamed(p, dir, name)
           k == CHOOSE i \in T : \A j \in T : i <= j
<1>1. DOMAIN names[p] = 1..Len(names[p]) /\ Len(names[p]) \in Nat
  <2>1. names[p] \in Seq(Range(names[p]))
    BY DEF Tables
  <2> QED BY <2>1
<1>2. T \in SUBSET Nat
  BY <1>1 DEF EntriesNamed
<1>3. \E i \in T : \A j \in T : i <= j
  BY <1>2, LeastIsThere
<1> HIDE DEF T
<1>4. k \in T /\ \A j \in T : k <= j
  BY <1>3
<1> HIDE DEF k
<1>5. k \in 1..Len(names[p]) /\ names[p][k].dir = dir /\ names[p][k].name = name
  BY <1>4 DEF T, EntriesNamed
<1>6. First(p, k)
  <2> SUFFICES ASSUME NEW j \in 1..k - 1, names[p][j].dir = dir, names[p][j].name = name
               PROVE  FALSE
    BY <1>5 DEF First
  <2>1. j \in 1..Len(names[p])
    BY <1>1, <1>5
  <2>2. j \in T
    BY <2>1 DEF T, EntriesNamed
  <2>3. k <= j
    BY <1>4, <2>2
  <2> QED BY <1>1, <1>5, <2>3
<1>7. FirstRow(p, T) = names[p][k]
  BY DEF FirstRow, k
<1> QED BY <1>1, <1>5, <1>6, <1>7 DEF T

\* What is not a lookup, or ends one with nothing.
LEMMA WalkingServed ==
    ASSUME NEW c \in Clients, Obeys(c), at[c] \in {"walk", "parent"}, MetaStep(c)
    PROVE  LookUp(c) \/ LookUpStored(c) \/ OutOfSync(c)
<1>1. job[c].at \in {"select name", "name", "answered"}
  BY DEF Obeys, Serves
<1> QED BY <1>1 DEF MetaStep, ReadDir, ReadDirStored, GetAttr, GetAttrStored, GetHandles,
     GetHandlesStored, SetAttr, CheckHandles, CheckHandlesStored, InsertHandle, LockUpdates,
     SelectFree, FreeStored, SelectMax, MaxStored, InsertInode, AddDirent, Select, Store, Statement

LEMMA RequestKeepsWalk ==
    ASSUME CreateInv, NEW c \in Clients, NEW P, Walks(c, P), names' = names,
           Retry(c) \/ TransmissionFails(c) \/ Work(c)
    PROVE  Walks(c, P)'
<1> SUFFICES ASSUME at[c] \in {"walk", "parent"} PROVE Walks(c, P)'
  <2>1. at' = at
    BY DEF Retry, TransmissionFails, Work, Serving, client
  <2> QED BY <2>1 DEF Walks
<1>1. Shaped /\ Obeys(c) /\ Tables
  BY DEF CreateInv, Sound
<1>2. InRequest(c) /\ at' = at /\ my' = my /\ script' = script
  BY <1>1, RequestStep DEF InRequest, Serving, client
<1>3. Call(c)' = Call(c) /\ Path(c)' = Path(c) /\ Here(c)' = Here(c) /\ Depth(c)' = Depth(c)
      /\ Cmd(c)' = Cmd(c) /\ Pair(c)' = Pair(c)
  BY <1>2, CallStays DEF Here, InRequest, Depth
<1> DEFINE Sees(row) == \E i \in DOMAIN names[Pair(c)] :
                  /\ First(Pair(c), i) /\ row = names[Pair(c)][i]
                  /\ From(Pair(c), i) = Here(c) /\ names[Pair(c)][i].name = Cmd(c).name
<1>4. \/ job'[c].rows = <<>>
      \/ Sees(job'[c].rows[1])
  <2>1. CASE Retry(c)
    <3>1. Serve(c, <<Pair(c), "backup">>, Cmd(c))
      BY <2>1 DEF Retry
    <3>2. job'[c] = [at |-> FirstStep(Cmd(c).op), srv |-> <<Pair(c), "backup">>, cmd |-> Cmd(c),
                     rows |-> <<>>, status |-> "none"]
      BY <1>1, <3>1, ServeTurns
    <3> QED BY <3>2
  <2>2. CASE TransmissionFails(c)
    BY <1>1, <2>2, AnswerTurns DEF TransmissionFails
  <2>3. CASE OutOfSync(c)
    BY <1>1, <2>3, AnswerTurns DEF OutOfSync
  <2>4. CASE LookUpStored(c)
    <3>1. job[c].at = "name"
      BY <2>4 DEF LookUpStored, Store
    <3>2. job'[c].rows = <<>> \/ (job[c].rows # <<>> /\ job'[c].rows = job[c].rows)
      BY <1>1, <2>4, AnswerTurns DEF LookUpStored
    <3> QED BY <3>1, <3>2 DEF Walks, Looking
  <2>5. CASE LookUp(c)
    <3> DEFINE found == EntriesNamed(Pair(c), Cmd(c).dir, Cmd(c).name)
               rows == IF found = {} THEN <<>> ELSE <<FirstRow(Pair(c), found)>>
    <3>1. Then(c, "name", rows)
      BY <2>5 DEF LookUp, NameRows, Select, Then
    <3> HIDE DEF rows
    <3>2. job'[c].rows = rows
      BY <1>1, <3>1, ThenTurns
    <3>3. Pair(c) \in Pairs
      BY <1>1 DEF Obeys
    <3>4. CASE found # {}
      <4>1. rows[1] = FirstRow(Pair(c), found)
        BY <3>4 DEF rows
      <4>2. PICK i \in DOMAIN names[Pair(c)] :
              /\ FirstRow(Pair(c), found) = names[Pair(c)][i] /\ First(Pair(c), i)
              /\ names[Pair(c)][i].dir = Cmd(c).dir /\ names[Pair(c)][i].name = Cmd(c).name
        BY <1>1, <3>3, <3>4, FirstRowIsFirst
      <4>3. From(Pair(c), i) = Here(c)
        BY <4>2 DEF From, Here
      <4> QED BY <3>2, <4>1, <4>2, <4>3
    <3>5. CASE found = {}
      BY <3>2, <3>5 DEF rows
    <3> QED BY <3>4, <3>5
  <2>6. CASE Work(c)
    BY <1>1, <2>3, <2>4, <2>5, <2>6, WalkingServed DEF Work
  <2> QED BY <2>1, <2>2, <2>6
<1>5. (job[c].rows # <<>> => Sees(job[c].rows[1]))'
  <2>1. \A i : From(Pair(c), i)' = From(Pair(c), i) /\ (First(Pair(c), i)' <=> First(Pair(c), i))
    BY <1>3 DEF From, First
  <2> QED BY <1>3, <1>4, <2>1
<1>6. \A n : LiesAt(P, Here(c), c, n)' <=> LiesAt(P, Here(c), c, n)
  BY <1>3 DEF LiesAt
<1> QED BY <1>2, <1>3, <1>5, <1>6 DEF Walks

LEMMA RequestKeepsMaking ==
    ASSUME CreateInv, NEW c \in Clients, NEW P, NEW Q, Extends(Q, P), MakesIn(c, P),
           Retry(c) \/ TransmissionFails(c) \/ Work(c),
           names' = names \/ Succeeded(c)'
    PROVE  MakesIn(c, Q)'
<1>1. Shaped /\ Obeys(c) /\ Names(c)
  BY DEF CreateInv, Sound
<1>2. InRequest(c) /\ ~Succeeded(c) /\ at' = at /\ my' = my /\ script' = script
  BY <1>1, RequestStep, RequestUnderWay DEF InRequest, Serving, client
<1>3. Call(c)' = Call(c) /\ Path(c)' = Path(c) /\ Here(c)' = Here(c) /\ Cmd(c)' = Cmd(c)
  BY <1>2, CallStays DEF Here, InRequest
<1>4. ASSUME at[c] = "name" PROVE MadeWhole(c) => MadeWhole(c)'
  <2>1. WritesOwn(c) /\ Complete(my[c].new.pair, my[c].new.handle)
    BY <1>1, <1>4, StepWrites DEF Names, Acts, Step
  <2>2. Unwritten(my[c].new.pair, my[c].new.handle)
    BY <1>4, <2>1, CompleteUnwritten
  <2> QED BY <1>2, <1>3, <2>2 DEF MadeWhole, Unwritten
<1>5. ~Succeeded(c)' => (Unnamed(my[c].new) => Unnamed(my[c].new)')
  BY <1>2 DEF Unnamed, To
<1>6. LiesAt(P, my[c].dir, c, Len(Path(c)) - 1) => LiesAt(Q, my[c].dir, c, Len(Path(c)) - 1)'
  BY <1>2, <1>3 DEF LiesAt, Extends
<1>7. my' = my /\ at' = at
  BY <1>2
<1> QED BY <1>2, <1>3, <1>4, <1>5, <1>6, <1>7 DEF MakesIn

-----------------------------------------------------------------------------
(* A name is added *)

LEMMA AppendGives ==
    ASSUME NEW S, NEW s \in Seq(S), NEW a \in S
    PROVE  /\ Len(Append(s, a)) = Len(s) + 1 /\ Append(s, a)[Len(s) + 1] = a /\ Len(s) \in Nat
           /\ \A i \in 1..Len(s) : Append(s, a)[i] = s[i]
           /\ Append(s, a) # <<>>
  OBVIOUS

LEMMA AppendOnce ==
    ASSUME NEW S, NEW s \in Seq(S), NEW t \in Seq(S), NEW a \in S, NEW b \in S,
           Append(s, a) = Append(t, b)
    PROVE  s = t /\ a = b
<1> DEFINE u == Append(s, a)
           w == Append(t, b)
<1>1. /\ Len(u) = Len(s) + 1 /\ u[Len(s) + 1] = a /\ Len(s) \in Nat
      /\ \A i \in 1..Len(s) : u[i] = s[i]
  BY AppendGives
<1>2. /\ Len(w) = Len(t) + 1 /\ w[Len(t) + 1] = b /\ Len(t) \in Nat
      /\ \A i \in 1..Len(t) : w[i] = t[i]
  BY AppendGives
<1>3. u = w
  OBVIOUS
<1> HIDE DEF u, w
<1>4. Len(s) = Len(t) /\ a = b
  BY <1>1, <1>2, <1>3
<1>5. \A i \in 1..Len(s) : s[i] = t[i]
  BY <1>1, <1>2, <1>3, <1>4
<1> QED BY <1>4, <1>5

\* dbAddDirent: one row is added, and leads to the inode of the call.
Added(c, p, n) ==
    /\ p \in Pairs /\ p = Pair(c) /\ n \in Nat \ {0} /\ DOMAIN names[p] = 1..n - 1
    /\ DOMAIN names'[p] = 1..n /\ names'[p][n] = Dirent(Cmd(c))
    /\ Grows /\ \A q \in Pairs : q # p => names'[q] = names[q]

LEMMA NameAdded ==
    ASSUME CreateInv, NEW c \in Clients, NEW P, Paths(P), AddDirent(c)
    PROVE  at[c] = "name" /\ Added(c, Pair(c), Len(names[Pair(c)]) + 1)
<1> DEFINE p == Pair(c)
           e == Dirent(Cmd(c))
           n == Len(names[p]) + 1
<1>1. Obeys(c) /\ Tables
  BY DEF CreateInv, Sound
<1>2. job[c].at = "insert name" /\ names' = [names EXCEPT ![p] = Append(names[p], e)]
  BY DEF AddDirent, Statement
<1>3. at[c] = "name"
  BY <1>1, <1>2, WhereServed
<1>4. p \in Pairs
  <2>1. Here(c) \in DOMAIN P
    BY <1>3 DEF Paths, MakesIn, LiesAt
  <2>2. Settled(Here(c).pair, Here(c).handle)
    BY <2>1, FoundSettled DEF Paths
  <2>3. Here(c).pair = p
    BY DEF Here
  <2> QED BY <2>2, <2>3 DEF Settled, Complete
<1> HIDE DEF p, e
<1>5. names'[p] = Append(names[p], e) /\ \A q \in Pairs : q # p => names'[q] = names[q]
  BY <1>1, <1>2, <1>4 DEF Tables
<1>6. names[p] \in Seq(Range(names[p]))
  BY <1>1, <1>4 DEF Tables
<1> DEFINE t == Append(names[p], e)
<1>7. /\ t[n] = e /\ \A i \in 1..Len(names[p]) : t[i] = names[p][i]
      /\ DOMAIN t = 1..n /\ DOMAIN names[p] = 1..Len(names[p]) /\ Len(names[p]) \in Nat
  BY <1>6, AppendedSeq
<1>8. names'[p] = t
  BY <1>5
<1> HIDE DEF t
<1>9. DOMAIN names[p] = 1..n - 1 /\ n \in Nat \ {0}
  BY <1>7
<1>10. \A i \in DOMAIN names[p] : i \in DOMAIN names'[p] /\ names'[p][i] = names[p][i]
  BY <1>7, <1>8
<1>11. Grows
  BY <1>5, <1>10 DEF Grows
<1> QED BY <1>3, <1>4, <1>5, <1>7, <1>8, <1>9, <1>11 DEF Added, p, e

\* What becomes of the paths: the new file has one if the row is the first.
Longer(c, P, p, n) ==
    IF First(p, n)'
    THEN [x \in DOMAIN P \cup {my[c].new} |->
             IF x = my[c].new THEN Path(c) ELSE P[x]]
    ELSE P

LEMMA NameLeads ==
    ASSUME CreateInv, NEW c \in Clients, NEW P, Paths(P), at[c] = "name", ~Succeeded(c),
           NEW p, NEW n, Added(c, p, n)
    PROVE  /\ my[c].dir \in DOMAIN P /\ From(p, n)' = my[c].dir /\ my[c].dir = Here(c)
           /\ To(p, n)' = my[c].new /\ my[c].new \notin DOMAIN P /\ my[c].new # RootInode
           /\ Unnamed(my[c].new) /\ names'[p][n].name = Cmd(c).name /\ Cmd(c).name \in STRING
           /\ Path(c) \in Seq(STRING) /\ Path(c) # <<>>
           /\ Path(c) = Append(P[my[c].dir], Cmd(c).name)
           /\ \E i \in DOMAIN Given.calls[c] : Given.calls[c][i] = Call(c)
<1>1. /\ Makes(Call(c).op) /\ Path(c) # <<>> /\ LiesAt(P, my[c].dir, c, Len(Path(c)) - 1)
      /\ my[c].new = [pair |-> my[c].new.pair, handle |-> my[c].new.handle]
      /\ Here(c) = my[c].dir /\ Cmd(c).name = Path(c)[Len(Path(c))] /\ Unnamed(my[c].new)
  BY DEF Paths, MakesIn
<1>2. Cmd(c).file = my[c].new.handle /\ Cmd(c).home = my[c].new.pair
  BY DEF CreateInv, Sound, Names
<1>3. names'[p][n] = Dirent(Cmd(c)) /\ p = Pair(c)
  BY DEF Added
<1>4. From(p, n)' = my[c].dir
  <2>1. From(p, n)' = [pair |-> p, handle |-> names'[p][n].dir]
    BY DEF From
  <2> QED BY <1>1, <1>3, <2>1 DEF Here, Dirent
<1>5. To(p, n)' = my[c].new
  <2>1. To(p, n)' = [pair |-> names'[p][n].home, handle |-> names'[p][n].file]
    BY DEF To
  <2> QED BY <1>1, <1>2, <1>3, <2>1 DEF Dirent
<1>6. my[c].new # RootInode
  <2>1. Owns(c, my[c].new.pair, my[c].new.handle)
    BY DEF Owns
  <2>2. my[c].new.handle # Root
    BY <2>1 DEF CreateInv, Sound, OwnsFresh
  <2> QED BY <2>2 DEF RootInode
<1>7. my[c].new \notin DOMAIN P
  BY <1>1, <1>6 DEF Paths, Led, Unnamed
<1>8. names'[p][n].name = Cmd(c).name
  BY <1>3 DEF Dirent
<1>9. Path(c) \in Seq(STRING) /\ \E i \in DOMAIN Given.calls[c] : Given.calls[c][i] = Call(c)
  BY CallGiven DEF CreateInv, Paths, Scripted
<1>10. Cmd(c).name \in STRING /\ Path(c) = Append(P[my[c].dir], Cmd(c).name)
  <2> DEFINE s == Path(c)
             n_ == Len(s)
  <2>1. s \in Seq(STRING) /\ s # <<>>
    BY <1>1, <1>9
  <2>2. P[my[c].dir] = SubSeq(s, 1, n_ - 1) /\ Cmd(c).name = s[n_]
    BY <1>1 DEF LiesAt
  <2> HIDE DEF s
  <2>3. n_ \in 1..Len(s)
    BY <2>1
  <2>4. Append(SubSeq(s, 1, n_ - 1), s[n_]) = s
    BY <2>1, <2>3, PathOneLonger
  <2>5. s[n_] \in STRING
    BY <2>1, <2>3
  <2> QED BY <2>2, <2>4, <2>5 DEF s
<1>11. my[c].dir \in DOMAIN P
  BY <1>1 DEF LiesAt
<1> QED BY <1>1, <1>4, <1>5, <1>6, <1>7, <1>8, <1>9, <1>10, <1>11

\* No other file has the path.
LEMMA PathIsNew ==
    ASSUME Tables, NEW P, Rooted(P), Leads(P), Led(P), NEW p \in Pairs, NEW n,
           NEW d \in DOMAIN P, NEW a \in STRING,
           d.pair = p, Grows,
           \A j \in DOMAIN names[p] : names'[p][j].dir = d.handle => names'[p][j].name # a,
           NEW y \in DOMAIN P
    PROVE  P[y] # Append(P[d], a)
<1> SUFFICES ASSUME P[y] = Append(P[d], a) PROVE FALSE
  OBVIOUS
<1>1. P[d] \in Seq(STRING)
  BY DEF Rooted
<1>2. y # RootInode
  <2>1. Append(P[d], a) # <<>>
    BY <1>1
  <2> QED BY <2>1 DEF Rooted
<1>3. PICK q \in Pairs : \E i \in DOMAIN names[q] : First(q, i) /\ To(q, i) = y
  BY <1>2 DEF Led
<1>4. PICK j \in DOMAIN names[q] : First(q, j) /\ To(q, j) = y
  BY <1>3
<1>5. /\ From(q, j) \in DOMAIN P /\ names[q][j].name \in STRING
      /\ P[y] = Append(P[From(q, j)], names[q][j].name)
  BY <1>4 DEF Leads
<1>6. P[From(q, j)] \in Seq(STRING)
  BY <1>5 DEF Rooted
<1>7. P[From(q, j)] = P[d] /\ names[q][j].name = a
  <2> DEFINE s == P[From(q, j)]
             t == P[d]
             b == names[q][j].name
  <2>1. s \in Seq(STRING) /\ t \in Seq(STRING) /\ b \in STRING /\ Append(s, b) = Append(t, a)
    BY <1>1, <1>5, <1>6
  <2> HIDE DEF s, t, b
  <2>2. s = t /\ b = a
    BY <2>1, AppendOnce
  <2> QED BY <2>2 DEF s, t, b
<1>8. From(q, j) = d
  BY <1>5, <1>7 DEF Rooted
<1>9. q = p /\ names[q][j].dir = d.handle
  BY <1>8 DEF From
<1>10. names'[q][j] = names[q][j]
  BY DEF Grows
<1> QED BY <1>7, <1>9, <1>10

LEMMA NamingKeepsRoots ==
    ASSUME CreateInv, NEW c \in Clients, NEW P, Paths(P), at[c] = "name", ~Succeeded(c),
           NEW p, NEW n, Added(c, p, n), NEW Q, Q = Longer(c, P, p, n)
    PROVE  Extends(Q, P) /\ Rooted(Q)'
<1> DEFINE new == my[c].new
<1>1. Rooted(P) /\ Leads(P) /\ Led(P)
  BY DEF Paths
<1>2. CASE ~First(p, n)'
  <2>1. Q = P
    BY <1>2 DEF Longer
  <2> QED BY <1>1, <2>1 DEF Extends, Rooted
<1>3. CASE First(p, n)'
  <2>1. Q = [x \in DOMAIN P \cup {new} |-> IF x = new THEN Path(c) ELSE P[x]]
    BY <1>3 DEF Longer
  <2> HIDE DEF new
  <2>2. /\ new \notin DOMAIN P /\ new # RootInode /\ Path(c) \in Seq(STRING)
        /\ my[c].dir \in DOMAIN P /\ Path(c) = Append(P[my[c].dir], Cmd(c).name)
        /\ Cmd(c).name \in STRING /\ From(p, n)' = my[c].dir /\ names'[p][n].name = Cmd(c).name
    BY NameLeads DEF new
  <2>3. /\ DOMAIN Q = DOMAIN P \cup {new} /\ Q[new] = Path(c)
        /\ \A x \in DOMAIN P : Q[x] = P[x]
    BY <2>1, <2>2
  <2>4. ASSUME NEW y \in DOMAIN P PROVE P[y] # Path(c)
    <3>1. my[c].dir.pair = p /\ names'[p][n].dir = my[c].dir.handle
      BY <2>2 DEF From
    <3>2. ASSUME NEW j \in DOMAIN names[p], names'[p][j].dir = my[c].dir.handle
          PROVE  names'[p][j].name # Cmd(c).name
      <4>1. j \in 1..n - 1
        BY DEF Added
      <4> QED BY <1>3, <2>2, <3>1, <3>2, <4>1 DEF First
    <3>3. Tables /\ Grows /\ p \in Pairs
      BY DEF CreateInv, Added
    <3>4. P[y] # Append(P[my[c].dir], Cmd(c).name)
      BY <1>1, <2>2, <3>1, <3>2, <3>3, PathIsNew
    <3> QED BY <2>2, <3>4
  <2>5. Extends(Q, P)
    BY <2>3 DEF Extends
  <2>6. Rooted(Q)
    <3>1. RootInode \in DOMAIN P /\ P[RootInode] = <<>>
      BY <1>1 DEF Rooted
    <3>2. ASSUME NEW x \in DOMAIN Q PROVE Q[x] \in Seq(STRING)
      <4>1. \A y \in DOMAIN P : P[y] \in Seq(STRING)
        BY <1>1 DEF Rooted
      <4> QED BY <2>2, <2>3, <4>1
    <3>3. ASSUME NEW x \in DOMAIN Q, NEW y \in DOMAIN Q, Q[x] = Q[y] PROVE x = y
      <4>1. \A u, v \in DOMAIN P : P[u] = P[v] => u = v
        BY <1>1 DEF Rooted
      <4> QED BY <2>3, <2>4, <3>3, <4>1
    <3> QED BY <2>3, <3>1, <3>2, <3>3 DEF Rooted
  <2> QED BY <2>5, <2>6 DEF Rooted
<1> QED BY <1>2, <1>3

LEMMA NamingKeepsRows ==
    ASSUME CreateInv, NEW c \in Clients, NEW P, Paths(P), at[c] = "name", ~Succeeded(c),
           NEW p, NEW n, Added(c, p, n), NEW Q, Q = Longer(c, P, p, n), Extends(Q, P)
    PROVE  (Leads(Q) /\ Led(Q) /\ NamedOnce)'
<1> DEFINE new == my[c].new
<1>1. Leads(P) /\ Led(P) /\ NamedOnce /\ Tables /\ Grows
  BY DEF Paths, CreateInv, Added
<1>2. /\ new \notin DOMAIN P /\ new # RootInode /\ Unnamed(new)
      /\ my[c].dir \in DOMAIN P /\ Path(c) = Append(P[my[c].dir], Cmd(c).name)
      /\ Cmd(c).name \in STRING /\ From(p, n)' = my[c].dir /\ names'[p][n].name = Cmd(c).name
      /\ To(p, n)' = new
  BY NameLeads
<1>3. /\ p \in Pairs /\ n \in DOMAIN names'[p] /\ n \notin DOMAIN names[p]
      /\ \A q \in Pairs : \A i \in DOMAIN names'[q] : i \in DOMAIN names[q] \/ (q = p /\ i = n)
  BY DEF Added
<1>4. \A q \in Pairs : \A i \in DOMAIN names[q] :
         /\ i \in DOMAIN names'[q] /\ names'[q][i] = names[q][i]
         /\ From(q, i)' = From(q, i) /\ To(q, i)' = To(q, i) /\ (First(q, i)' <=> First(q, i))
  BY <1>1, RowsStay
<1>5. /\ \A x \in DOMAIN P : x \in DOMAIN Q /\ Q[x] = P[x]
      /\ \A x \in DOMAIN Q : x \in DOMAIN P \/ (x = new /\ First(p, n)')
      /\ First(p, n)' => new \in DOMAIN Q /\ Q[new] = Path(c)
  BY DEF Extends, Longer
<1> HIDE DEF new
<1>6. Leads(Q)'
  <2> SUFFICES ASSUME NEW q \in Pairs, NEW i \in DOMAIN names'[q]
               PROVE  /\ From(q, i)' \in DOMAIN Q /\ names'[q][i].name \in STRING
                      /\ First(q, i)' => To(q, i)' \in DOMAIN Q
                            /\ Q[To(q, i)'] = Append(Q[From(q, i)'], names'[q][i].name)
    BY DEF Leads
  <2>1. CASE i \in DOMAIN names[q]
    <3>1. /\ From(q, i) \in DOMAIN P /\ names[q][i].name \in STRING
          /\ First(q, i) => To(q, i) \in DOMAIN P
                            /\ P[To(q, i)] = Append(P[From(q, i)], names[q][i].name)
      BY <1>1, <2>1 DEF Leads
    <3> QED BY <1>4, <1>5, <2>1, <3>1
  <2>2. CASE q = p /\ i = n
    BY <1>2, <1>5, <2>2
  <2> QED BY <1>3, <2>1, <2>2
<1>7. Led(Q)'
  <2> SUFFICES ASSUME NEW x \in DOMAIN Q \ {RootInode}
               PROVE  \E q \in Pairs : \E i \in DOMAIN names'[q] : First(q, i)' /\ To(q, i)' = x
    BY DEF Led
  <2>1. CASE x \in DOMAIN P
    <3>1. PICK q \in Pairs : \E i \in DOMAIN names[q] : First(q, i) /\ To(q, i) = x
      BY <1>1, <2>1 DEF Led
    <3>2. PICK i \in DOMAIN names[q] : First(q, i) /\ To(q, i) = x
      BY <3>1
    <3> QED BY <1>4, <3>2
  <2>2. CASE x = new /\ First(p, n)'
    BY <1>2, <1>3, <2>2
  <2> QED BY <1>5, <2>1, <2>2
<1>8. NamedOnce'
  <2> SUFFICES ASSUME NEW q \in Pairs, NEW r \in Pairs, NEW i \in DOMAIN names'[q],
                      NEW j \in DOMAIN names'[r]
               PROVE  To(q, i)' # RootInode /\ (To(q, i)' = To(r, j)' => q = r /\ i = j)
    BY DEF NamedOnce
  <2>1. \A s \in Pairs : \A k \in DOMAIN names[s] : To(s, k)' # new /\ To(s, k)' # RootInode
    BY <1>1, <1>2, <1>4 DEF Unnamed, NamedOnce
  <2>2. CASE i \in DOMAIN names[q] /\ j \in DOMAIN names[r]
    BY <1>1, <1>4, <2>2 DEF NamedOnce
  <2>3. CASE i \in DOMAIN names[q] /\ r = p /\ j = n
    BY <1>2, <2>1, <2>3
  <2>4. CASE q = p /\ i = n /\ j \in DOMAIN names[r]
    BY <1>2, <2>1, <2>4
  <2>5. CASE q = p /\ i = n /\ r = p /\ j = n
    BY <1>2, <2>5
  <2> QED BY <1>3, <2>2, <2>3, <2>4, <2>5
<1> QED BY <1>6, <1>7, <1>8

LEMMA NamingKeepsFiles ==
    ASSUME CreateInv, NEW c \in Clients, NEW P, Paths(P), at[c] = "name", ~Succeeded(c),
           WritesOwn(c), scenario' = scenario,
           NEW p, NEW n, Added(c, p, n), NEW Q, Q = Longer(c, P, p, n), Extends(Q, P)
    PROVE  FilesMade(Q)'
<1>1. FilesMade(P)'
  BY FilesStayMade DEF Paths
<1>2. ASSUME NEW x \in DOMAIN Q, x \notin DOMAIN P
      PROVE  \/ inode'[x.pair][x.handle].mode = "dir"
             \/ \E d \in Clients : \E i \in DOMAIN Given.calls[d] :
                   Given.calls[d][i].op \in {"mknod", "creat"} /\ Given.calls[d][i].path = Q[x]
  <2>1. x = my[c].new /\ Q[x] = Path(c)
    BY <1>2 DEF Longer
  <2>2. MadeWhole(c) /\ Makes(Call(c).op)
    BY DEF Paths, MakesIn
  <2>3. Complete(my[c].new.pair, my[c].new.handle)
    BY DEF CreateInv, Sound, Names
  <2>4. inode'[x.pair][x.handle] = inode[my[c].new.pair][my[c].new.handle]
    BY <2>1, <2>3, CompleteUnwritten DEF Unwritten
  <2>5. PICK i \in DOMAIN Given.calls[c] : Given.calls[c][i] = Call(c)
    BY NameLeads
  <2>6. CASE Call(c).op = "mkdir"
    BY <2>2, <2>4, <2>6 DEF MadeWhole
  <2>7. CASE Call(c).op # "mkdir"
    BY <2>1, <2>2, <2>5, <2>7 DEF Makes, Path
  <2> QED BY <2>6, <2>7
<1>3. Given' = Given
  BY DEF Given
<1> QED BY <1>1, <1>2, <1>3 DEF FilesMade, Extends

LEMMA NamingKeepsPaths ==
    ASSUME CreateInv, NEW c \in Clients, Work(c), AddDirent(c), NEW P, Paths(P)
    PROVE  \E Q : Extends(Q, P) /\ Paths(Q)'
<1>p. PICK p : p = Pair(c)
  OBVIOUS
<1>n. PICK n : n = Len(names[p]) + 1
  OBVIOUS
<1>1. Added(c, p, n) /\ at[c] = "name" /\ Grows
  BY <1>p, <1>n, NameAdded DEF Added
<1>2. ~Succeeded(c) /\ WritesOwn(c) /\ Alone(c)
  BY RequestUnderWay, StepWrites, StepAlone DEF CreateInv, Sound, Acts, Step
<1>3. scenario' = scenario /\ at' = at /\ script' = script
  BY DEF Work, Serving, faults, client
<1>q. PICK Q : Q = Longer(c, P, p, n)
  OBVIOUS
<1>4. Extends(Q, P) /\ Rooted(Q)'
  BY <1>1, <1>2, <1>q, NamingKeepsRoots
<1>5. (Leads(Q) /\ Led(Q) /\ NamedOnce)'
  BY <1>1, <1>2, <1>4, <1>q, NamingKeepsRows
<1>6. FilesMade(Q)'
  BY <1>1, <1>2, <1>3, <1>4, <1>q, NamingKeepsFiles
<1> SUFFICES Paths(Q)'
  BY <1>4
<1>7. \A d \in Clients \ {c} : (Scripted(d) /\ Walks(d, Q) /\ MakesIn(d, Q))'
  BY <1>1, <1>2, <1>3, <1>4, OthersKeepPaths DEF Paths
<1>8. Scripted(c)' /\ Walks(c, Q)'
  BY <1>1, <1>3 DEF Paths, Scripted, Walks, Given
<1>9. MakesIn(c, Q)'
  <2>1. Succeeded(c)'
    <3>1. Answer(c, "ok", <<>>) /\ Shaped
      BY DEF AddDirent, CreateInv
    <3> QED BY <3>1, AnswerTurns DEF Succeeded
  <2> QED BY <1>4, <2>1, RequestKeepsMaking DEF Paths
<1> QED BY <1>4, <1>5, <1>6, <1>7, <1>8, <1>9 DEF Paths

-----------------------------------------------------------------------------
(* The steps of a call between two requests, and paths *)

KeepsOwn(c, P) == Scripted(c)' /\ Walks(c, P)' /\ MakesIn(c, P)'

LEMMA ReturnKeeps ==
    ASSUME Shaped, NEW c \in Clients, NEW P, Scripted(c), script[c] # <<>>, scenario' = scenario,
           NEW what, Return(c, what)
    PROVE  KeepsOwn(c, P)
<1>1. Tail(script[c]) \in Seq(Range(Given.calls[c])) /\ Given' = Given
  BY CallGiven DEF Given
<1>2. script'[c] = Tail(script[c]) /\ at'[c] = "idle"
  BY ReturnAlone
<1>3. Scripted(c)'
  <2>1. script'[c] \in Seq(Range(Given'.calls[c]))
    BY <1>1, <1>2
  <2> QED BY <1>2, <2>1 DEF Scripted
<1>4. Walks(c, P)'
  BY <1>2 DEF Walks
<1>5. MakesIn(c, P)'
  BY <1>2 DEF MakesIn
<1> QED BY <1>3, <1>4, <1>5 DEF KeepsOwn

\* The script goes on.
LEMMA SameScript ==
    ASSUME NEW c \in Clients, Scripted(c), script[c] # <<>>, scenario' = scenario, script' = script
    PROVE  Scripted(c)' /\ Call(c)' = Call(c) /\ Path(c)' = Path(c)
  BY CallStays DEF Scripted, Given

LEMMA ElsewhereKeeps ==
    ASSUME NEW c \in Clients, NEW P, Scripted(c), script[c] # <<>>, scenario' = scenario,
           script' = script, at'[c] \in {"list", "attributes of", "next page"}
    PROVE  KeepsOwn(c, P)
<1>1. Scripted(c)'
  BY SameScript
<1>2. Walks(c, P)'
  BY DEF Walks
<1>3. MakesIn(c, P)'
  BY DEF MakesIn
<1> QED BY <1>1, <1>2, <1>3 DEF KeepsOwn

LEMMA LookKeeps ==
    ASSUME Shaped, NEW c \in Clients, NEW P, Scripted(c), script[c] # <<>>, scenario' = scenario,
           script' = script, at'[c] \in {"walk", "parent"}, at'[c] = "parent" => Makes(Call(c).op),
           NEW n, my'[c].pos = n, n \in 1..Depth(c)',
           NEW pair, NEW handle, Look(c, pair, handle, Path(c)[n]),
           LiesAt(P, [pair |-> pair, handle |-> handle], c, n - 1)
    PROVE  KeepsOwn(c, P)
<1> DEFINE cmd == [op |-> "lookup", dir |-> handle, name |-> Path(c)[n]]
<1>1. Scripted(c)' /\ Call(c)' = Call(c) /\ Path(c)' = Path(c)
  BY SameScript
<1>2. Serve(c, <<pair, "primary">>, cmd)
  BY DEF Look, Ask
<1>3. cmd.op = "lookup" /\ cmd.dir = handle /\ cmd.name = Path(c)[n]
  OBVIOUS
<1> HIDE DEF cmd
<1>4. job'[c].at = "select name" /\ Cmd(c)' = cmd /\ Pair(c)' = pair
  BY <1>2, <1>3, AskTurns, FirstSteps
<1>5. ~Looking(c)'
  BY <1>4 DEF Looking, Succeeded, Answered
<1>6. Here(c)' = [pair |-> pair, handle |-> handle]
  <2>1. Here(c)' = [pair |-> Pair(c)', handle |-> Cmd(c)'.dir]
    BY DEF Here
  <2> QED BY <1>3, <1>4, <2>1
<1>7. LiesAt(P, Here(c), c, my[c].pos - 1)'
  BY <1>1, <1>6 DEF LiesAt
<1>8. Walks(c, P)'
  BY <1>1, <1>3, <1>4, <1>5, <1>7 DEF Walks
<1>9. MakesIn(c, P)'
  BY DEF MakesIn
<1> QED BY <1>1, <1>8, <1>9 DEF KeepsOwn

\* The parent is known.
LEMMA LocatedKeeps ==
    ASSUME Shaped, NEW c \in Clients, NEW P, Scripted(c), script[c] # <<>>, scenario' = scenario,
           script' = script, NEW dir, Located(c, dir), Makes(Call(c).op), Path(c) # <<>>,
           LiesAt(P, dir, c, Len(Path(c)) - 1)
    PROVE  KeepsOwn(c, P)
<1>1. Scripted(c)' /\ Call(c)' = Call(c) /\ Path(c)' = Path(c)
  BY SameScript
<1>2. at'[c] \in {"inode", "extents"} /\ my'[c].dir = dir
  BY LocatedAlone
<1>3. Walks(c, P)'
  BY <1>2 DEF Walks
<1>4. LiesAt(P, my[c].dir, c, Len(Path(c)) - 1)'
  BY <1>1, <1>2 DEF LiesAt
<1>5. Makes(Call(c).op)' /\ Path(c)' # <<>>
  BY <1>1
<1>6. MakesIn(c, P)'
  BY <1>2, <1>4, <1>5 DEF MakesIn
<1> QED BY <1>1, <1>3, <1>6 DEF KeepsOwn

\* The root is where a path begins.
LEMMA RootLies ==
    ASSUME Shaped, NEW P, Rooted(P), NEW c \in Clients, Scripted(c), script[c] # <<>>
    PROVE  LiesAt(P, RootInode, c, 0)
<1>1. Path(c) \in Seq(STRING) /\ Len(Path(c)) \in Nat
  BY CallGiven
<1>2. SubSeq(Path(c), 1, 0) = <<>>
  BY <1>1
<1> QED BY <1>1, <1>2 DEF LiesAt, Rooted

\* A lookup leads one name further.
LEMMA ChildLies ==
    ASSUME CreateInv, NEW P, Paths(P), NEW c \in Clients, at[c] \in {"walk", "parent"}, Succeeded(c)
    PROVE  LiesAt(P, Child(c), c, my[c].pos) /\ my[c].pos \in 1..Len(Path(c))
           /\ my[c].pos \in 1..Depth(c) /\ Len(Path(c)) \in Nat
<1>1. Path(c) \in Seq(STRING) /\ Len(Path(c)) \in Nat
  BY CallGiven DEF CreateInv, Paths, Scripted
<1>2. my[c].pos \in 1..Depth(c) /\ Cmd(c).name = Path(c)[my[c].pos]
      /\ LiesAt(P, Here(c), c, my[c].pos - 1)
  BY DEF Paths, Walks
<1>3. job[c].rows # <<>> /\ Pair(c) \in Pairs
  BY DEF CreateInv, Sound, LooksUp, Obeys
<1>4. PICK i \in DOMAIN names[Pair(c)] :
                  /\ First(Pair(c), i) /\ job[c].rows[1] = names[Pair(c)][i]
                  /\ From(Pair(c), i) = Here(c) /\ names[Pair(c)][i].name = Cmd(c).name
  BY <1>3 DEF Paths, Walks, Looking
<1>5. Child(c) = To(Pair(c), i)
  BY <1>4 DEF Child, To
<1>6. Child(c) \in DOMAIN P /\ P[Child(c)] = Append(P[Here(c)], Cmd(c).name)
  BY <1>3, <1>4, <1>5 DEF Paths, Leads
<1>7. my[c].pos \in 1..Len(Path(c))
  BY <1>1, <1>2 DEF Depth
<1>8. Append(SubSeq(Path(c), 1, my[c].pos - 1), Path(c)[my[c].pos]) = SubSeq(Path(c), 1, my[c].pos)
  BY <1>1, <1>7, PathOneLonger
<1>9. P[Child(c)] = SubSeq(Path(c), 1, my[c].pos)
  BY <1>2, <1>6, <1>8 DEF LiesAt
<1>10. LiesAt(P, Child(c), c, my[c].pos)
  <2>1. my[c].pos \in 0..Len(Path(c))
    BY <1>1, <1>7
  <2> QED BY <1>6, <1>9, <2>1 DEF LiesAt
<1> QED BY <1>1, <1>2, <1>7, <1>10

LEMMA StartKeeps ==
    ASSUME CreateInv, NEW c \in Clients, NEW P, Paths(P), Start(c)
    PROVE  KeepsOwn(c, P)
<1>1. Shaped /\ Scripted(c) /\ Rooted(P)
  BY DEF CreateInv, Paths
<1>2. script[c] # <<>> /\ scenario' = scenario /\ script' = script
      /\ at'[c] \in {"walk", "list", "attributes of"}
  BY <1>1, StartAlone DEF Start, Scripted, Local, faults
<1>3. CASE Path(c) = <<>>
  <2>1. at'[c] # "walk"
    BY <1>1, <1>3, VisitAlone DEF Start
  <2> QED BY <1>1, <1>2, <2>1, ElsewhereKeeps
<1>4. CASE Path(c) # <<>>
  <2>1. /\ at' = [at EXCEPT ![c] = "walk"] /\ my' = [my EXCEPT ![c].pos = 1]
        /\ Look(c, RootPair, Root, Path(c)[1])
    BY <1>4 DEF Start, Go
  <2>2. at'[c] = "walk" /\ my'[c].pos = 1
    BY <1>1, <2>1 DEF Shaped, MyShaped
  <2>3. 1 \in 1..Depth(c)'
    <3>1. Path(c)' = Path(c) /\ Len(Path(c)) \in Nat /\ Len(Path(c)) >= 1
      BY <1>1, <1>2, <1>4, SameScript, CallGiven
    <3> QED BY <2>2, <3>1 DEF Depth
  <2>4. LiesAt(P, [pair |-> RootPair, handle |-> Root], c, 1 - 1)
    <3>1. [pair |-> RootPair, handle |-> Root] = RootInode /\ 1 - 1 = 0
      BY DEF RootInode
    <3>2. LiesAt(P, RootInode, c, 0)
      BY <1>1, <1>2, RootLies
    <3> QED BY <3>1, <3>2
  <2> QED BY <1>1, <1>2, <2>1, <2>2, <2>3, <2>4, LookKeeps
<1> QED BY <1>3, <1>4

LEMMA WalkOnKeeps ==
    ASSUME CreateInv, NEW c \in Clients, NEW P, Paths(P), WalkOn(c)
    PROVE  KeepsOwn(c, P)
<1>1. Shaped /\ Scripted(c)
  BY DEF CreateInv, Paths
<1>2. /\ at[c] \in {"walk", "parent"} /\ Succeeded(c) /\ my[c].pos < Depth(c)
      /\ my' = [my EXCEPT ![c].pos = @ + 1, ![c].dir = Child(c)]
      /\ Look(c, Child(c).pair, Child(c).handle, Path(c)[my[c].pos + 1])
      /\ script' = script /\ at' = at /\ scenario' = scenario
  BY DEF WalkOn, Local, faults
<1>3. script[c] # <<>>
  BY <1>1, <1>2 DEF Scripted
<1>4. LiesAt(P, Child(c), c, my[c].pos) /\ my[c].pos \in 1..Len(Path(c)) /\ Len(Path(c)) \in Nat
  BY <1>2, ChildLies
<1> DEFINE n == my[c].pos + 1
<1>5. my'[c].pos = n
  BY <1>1, <1>2 DEF Shaped, MyShaped
<1>6. n \in 1..Depth(c)'
  <2>1. Path(c)' = Path(c)
    BY <1>1, <1>2, <1>3, SameScript
  <2>2. Depth(c)' = Depth(c)
    BY <1>2, <2>1 DEF Depth
  <2> QED BY <1>2, <1>4, <2>2 DEF Depth
<1>7. LiesAt(P, [pair |-> Child(c).pair, handle |-> Child(c).handle], c, n - 1)
  <2>1. [pair |-> Child(c).pair, handle |-> Child(c).handle] = Child(c) /\ n - 1 = my[c].pos
    BY <1>4 DEF Child
  <2> QED BY <1>4, <2>1
<1>8. at'[c] = "parent" => Makes(Call(c).op)
  BY <1>2 DEF Paths, Walks
<1>m. PICK m : m = n
  OBVIOUS
<1>9. /\ my'[c].pos = m /\ m \in 1..Depth(c)' /\ Look(c, Child(c).pair, Child(c).handle, Path(c)[m])
      /\ LiesAt(P, [pair |-> Child(c).pair, handle |-> Child(c).handle], c, m - 1)
  BY <1>2, <1>5, <1>6, <1>7, <1>m
<1> QED BY <1>1, <1>2, <1>3, <1>8, <1>9, LookKeeps

LEMMA FoundKeeps ==
    ASSUME CreateInv, NEW c \in Clients, NEW P, Paths(P), Found(c)
    PROVE  KeepsOwn(c, P)
<1>1. Shaped /\ Scripted(c)
  BY DEF CreateInv, Paths
<1>2. script[c] # <<>> /\ scenario' = scenario
  BY <1>1 DEF Found, Scripted, Local, faults
<1>3. CASE Call(c).op \in {"mknod", "mkdir"}
  BY <1>1, <1>2, <1>3, ReturnKeeps DEF Found
<1>4. CASE Call(c).op \notin {"mknod", "mkdir"}
  <2>1. Visit(c, Child(c).pair, Child(c).handle)
    BY <1>4 DEF Found
  <2>2. script' = script /\ at'[c] \in {"list", "attributes of"}
    BY <1>1, <2>1, VisitAlone
  <2> QED BY <1>1, <1>2, <2>2, ElsewhereKeeps
<1> QED BY <1>3, <1>4

LEMMA NotThereKeeps ==
    ASSUME CreateInv, NEW c \in Clients, NEW P, Paths(P), NotThere(c)
    PROVE  KeepsOwn(c, P)
<1>1. Shaped /\ Scripted(c) /\ Rooted(P)
  BY DEF CreateInv, Paths
<1>2. at[c] = "walk" /\ script[c] # <<>> /\ scenario' = scenario
  BY <1>1 DEF NotThere, Absent, Scripted, Local, faults
<1>3. Path(c) \in Seq(STRING) /\ Len(Path(c)) \in Nat /\ (Path(c) # <<>> => Len(Path(c)) >= 1)
      /\ (Path(c) = <<>> => Call(c).op \in {"stat", "list"})
  BY <1>1, <1>2, CallGiven
<1>4. CASE ~Makes(Call(c).op)
  BY <1>1, <1>2, <1>4, ReturnKeeps DEF NotThere
<1>5. ASSUME Makes(Call(c).op)
      PROVE  Path(c) # <<>> /\ Len(Path(c)) >= 1 /\ LiesAt(P, RootInode, c, 0)
  BY <1>1, <1>2, <1>3, <1>5, RootLies DEF Makes
<1>6. CASE Makes(Call(c).op) /\ Len(Path(c)) = 1
  <2>1. Located(c, RootInode) /\ script' = script
    BY <1>6 DEF NotThere
  <2>2. Path(c) # <<>> /\ LiesAt(P, RootInode, c, Len(Path(c)) - 1)
    <3>1. Len(Path(c)) - 1 = 0
      BY <1>6
    <3> QED BY <1>5, <1>6, <3>1
  <2> QED BY <1>1, <1>2, <1>6, <2>1, <2>2, LocatedKeeps
<1>7. CASE Makes(Call(c).op) /\ Len(Path(c)) # 1
  <2>1. /\ at' = [at EXCEPT ![c] = "parent"] /\ my' = [my EXCEPT ![c] = [Fresh EXCEPT !.pos = 1]]
        /\ Look(c, RootPair, Root, Path(c)[1]) /\ script' = script
    BY <1>7 DEF NotThere, Go
  <2>2. at'[c] = "parent" /\ my'[c].pos = 1
    BY <1>1, <2>1 DEF Shaped, Fresh
  <2>3. 1 \in 1..Depth(c)'
    <3>1. Path(c)' = Path(c)
      BY <1>1, <1>2, <2>1, SameScript
    <3>2. Depth(c)' = Len(Path(c)) - 1
      BY <2>2, <3>1 DEF Depth
    <3>3. Len(Path(c)) >= 1 /\ Len(Path(c)) # 1 /\ Len(Path(c)) \in Nat
      BY <1>3, <1>5, <1>7
    <3>4. PICK n \in Nat : n = Len(Path(c))
      BY <3>3
    <3>5. n - 1 >= 1 /\ Depth(c)' = n - 1
      BY <3>2, <3>3, <3>4
    <3> QED BY <3>5
  <2>4. LiesAt(P, [pair |-> RootPair, handle |-> Root], c, 1 - 1)
    <3>1. [pair |-> RootPair, handle |-> Root] = RootInode /\ 1 - 1 = 0
      BY DEF RootInode
    <3> QED BY <1>5, <1>7, <3>1
  <2> QED BY <1>1, <1>2, <1>7, <2>1, <2>2, <2>3, <2>4, LookKeeps
<1> QED BY <1>4, <1>6, <1>7

LEMMA ParentFoundKeeps ==
    ASSUME CreateInv, NEW c \in Clients, NEW P, Paths(P), ParentFound(c)
    PROVE  KeepsOwn(c, P)
<1>1. Shaped /\ Scripted(c)
  BY DEF CreateInv, Paths
<1>2. /\ at[c] = "parent" /\ Succeeded(c) /\ my[c].pos = Depth(c) /\ Located(c, Child(c))
      /\ script' = script /\ scenario' = scenario
  BY DEF ParentFound, Local, faults
<1>3. script[c] # <<>> /\ Makes(Call(c).op)
  BY <1>1, <1>2 DEF Scripted, Paths, Walks
<1>4. LiesAt(P, Child(c), c, my[c].pos) /\ my[c].pos \in 1..Len(Path(c)) /\ Len(Path(c)) \in Nat
  BY <1>2, ChildLies
<1>5. LiesAt(P, Child(c), c, Len(Path(c)) - 1)
  BY <1>2, <1>4 DEF Depth
<1>6. Path(c) # <<>>
  BY <1>4
<1> QED BY <1>1, <1>2, <1>3, <1>5, <1>6, LocatedKeeps

\* What is made goes on.
LEMMA MakingKeeps ==
    ASSUME NEW c \in Clients, NEW P, Scripted(c), script[c] # <<>>, scenario' = scenario,
           script' = script, MakesIn(c, P), my'[c].dir = my[c].dir,
           at[c] \in {"extents", "counted", "inode", "attributes"},
           at'[c] \in {"extents", "counted", "inode", "attributes"},
           at'[c] = "attributes" =>
               my'[c].new = [pair |-> my'[c].new.pair, handle |-> my'[c].new.handle]
    PROVE  KeepsOwn(c, P)
<1>1. Scripted(c)' /\ Call(c)' = Call(c) /\ Path(c)' = Path(c)
  BY SameScript
<1>2. Makes(Call(c).op) /\ Path(c) # <<>> /\ LiesAt(P, my[c].dir, c, Len(Path(c)) - 1)
  BY DEF MakesIn
<1>3. LiesAt(P, my[c].dir, c, Len(Path(c)) - 1)'
  BY <1>1, <1>2 DEF LiesAt
<1>4. Makes(Call(c).op)' /\ Path(c)' # <<>>
  BY <1>1, <1>2
<1>5. MakesIn(c, P)'
  BY <1>3, <1>4 DEF MakesIn
<1>6. Walks(c, P)'
  BY DEF Walks
<1> QED BY <1>1, <1>5, <1>6 DEF KeepsOwn

LEMMA ExtentsDoneKeeps ==
    ASSUME CreateInv, NEW c \in Clients, NEW P, Paths(P), ExtentsDone(c)
    PROVE  KeepsOwn(c, P)
<1>1. Shaped /\ Scripted(c) /\ MakesIn(c, P)
  BY DEF CreateInv, Paths
<1>2. at[c] = "extents" /\ script[c] # <<>> /\ scenario' = scenario
  BY <1>1 DEF ExtentsDone, Scripted, Local, faults
<1>3. CASE \E i \in 1..Copies : my[c].rows[i].hdl = Lost
  BY <1>1, <1>2, <1>3, ReturnKeeps DEF ExtentsDone
<1>4. CASE ~\E i \in 1..Copies : my[c].rows[i].hdl = Lost
  <2>1. AskInode(c) /\ my' = [my EXCEPT ![c].first = 0] /\ script' = script
    BY <1>4 DEF ExtentsDone
  <2>2. my'[c].dir = my[c].dir /\ \A d \in Clients \ {c} : my'[d] = my[d]
    BY <1>1, <2>1 DEF Shaped, MyShaped
  <2>3. at'[c] = "inode"
    BY <1>1, <2>1, <2>2, AskInodeAlone
  <2> QED BY <1>1, <1>2, <2>1, <2>2, <2>3, MakingKeeps
<1> QED BY <1>3, <1>4

LEMMA InodeDoneKeeps ==
    ASSUME CreateInv, NEW c \in Clients, NEW P, Paths(P), InodeDone(c)
    PROVE  KeepsOwn(c, P)
<1>1. Shaped /\ Scripted(c) /\ MakesIn(c, P)
  BY DEF CreateInv, Paths
<1> DEFINE new == [pair |-> Pair(c), handle |-> job[c].rows[1]]
<1>2. /\ at[c] = "inode" /\ script[c] # <<>> /\ scenario' = scenario /\ script' = script
      /\ my' = [my EXCEPT ![c].new = new] /\ at' = [at EXCEPT ![c] = "attributes"]
  BY <1>1 DEF InodeDone, Scripted, Local, faults, Go
<1>3. new = [pair |-> new.pair, handle |-> new.handle]
  OBVIOUS
<1> HIDE DEF new
<1>4. my'[c].dir = my[c].dir /\ my'[c].new = new /\ at'[c] = "attributes"
  BY <1>1, <1>2 DEF Shaped, MyShaped
<1> QED BY <1>1, <1>2, <1>3, <1>4, MakingKeeps

LEMMA PathsOfInodes ==
    ASSUME NEW P, Rooted(P), Led(P), NEW x \in DOMAIN P
    PROVE  x = [pair |-> x.pair, handle |-> x.handle]
<1>1. CASE x = RootInode
  BY <1>1 DEF RootInode
<1>2. CASE x # RootInode
  <2>1. \E p \in Pairs : \E i \in DOMAIN names[p] : To(p, i) = x
    BY <1>2 DEF Led
  <2> QED BY <2>1 DEF To
<1> QED BY <1>1, <1>2

LEMMA AttributesDoneKeeps ==
    ASSUME CreateInv, NEW c \in Clients, NEW P, Paths(P), AttributesDone(c)
    PROVE  KeepsOwn(c, P)
<1>1. Shaped /\ Scripted(c) /\ MakesIn(c, P) /\ Rooted(P) /\ Led(P) /\ Sets(c) /\ Drawn(c)
  BY DEF CreateInv, Paths, Sound
<1> DEFINE cmd == [op |-> "add", dir |-> my[c].dir.handle, name |-> Last(Path(c)),
                   file |-> my[c].new.handle, home |-> my[c].new.pair]
<1>2. /\ at[c] = "attributes" /\ Succeeded(c) /\ script[c] # <<>> /\ scenario' = scenario
      /\ script' = script /\ my' = my /\ at' = [at EXCEPT ![c] = "name"]
      /\ Serve(c, <<my[c].dir.pair, "primary">>, cmd) /\ inode' = inode /\ names' = names
  BY <1>1 DEF AttributesDone, AttributesSet, Scripted, Local, faults, Go, Ask, tables
<1>3. cmd.op = "add" /\ cmd.dir = my[c].dir.handle /\ cmd.name = Path(c)[Len(Path(c))]
  BY DEF Last
<1> HIDE DEF cmd
<1>4. Cmd(c)' = cmd /\ Pair(c)' = my[c].dir.pair
  BY <1>1, <1>2, AskTurns
<1>5. Scripted(c)' /\ Call(c)' = Call(c) /\ Path(c)' = Path(c)
  BY <1>1, <1>2, SameScript
<1>6. /\ Makes(Call(c).op) /\ Path(c) # <<>> /\ LiesAt(P, my[c].dir, c, Len(Path(c)) - 1)
      /\ my[c].new = [pair |-> my[c].new.pair, handle |-> my[c].new.handle]
  BY <1>1, <1>2 DEF MakesIn
<1>7. Here(c)' = my[c].dir
  <2>1. Here(c)' = [pair |-> Pair(c)', handle |-> Cmd(c)'.dir]
    BY DEF Here
  <2>2. my[c].dir = [pair |-> my[c].dir.pair, handle |-> my[c].dir.handle]
    BY <1>1, <1>6, PathsOfInodes DEF LiesAt
  <2> QED BY <1>3, <1>4, <2>1, <2>2
<1>8. MadeWhole(c)'
  <2>1. /\ inode[my[c].new.pair][my[c].new.handle] =
               [mode |-> Cmd(c).mode, stripes |-> Cmd(c).stripes]
        /\ Cmd(c).mode = IF Call(c).op = "mkdir" THEN "dir" ELSE "file"
        /\ Cmd(c).stripes = Len(Rows(c)) \div 2
    BY <1>1, <1>2 DEF Sets
  <2>2. Len(Rows(c)) = IF Call(c).op = "mkdir" THEN 0 ELSE Copies
    BY <1>1, <1>2 DEF Drawn
  <2>3. 0 \div 2 = 0 /\ Copies \div 2 = Stripes
    BY CountsOfCopies
  <2>4. MadeWhole(c)
    BY <2>1, <2>2, <2>3 DEF MadeWhole
  <2> QED BY <1>2, <1>5, <2>4 DEF MadeWhole
<1>9. Unnamed(my[c].new)
  <2> SUFFICES ASSUME NEW p \in Pairs, NEW i \in DOMAIN names[p], To(p, i) = my[c].new PROVE FALSE
    BY DEF Unnamed
  <2>1. Settled(names[p][i].home, names[p][i].file)
    BY DEF CreateInv, NamesSettled
  <2>2. names[p][i].home = my[c].new.pair /\ names[p][i].file = my[c].new.handle
    BY DEF To
  <2>3. Owns(c, my[c].new.pair, my[c].new.handle)
    BY <1>2 DEF Owns
  <2> QED BY <1>2, <2>1, <2>2, <2>3 DEF Settled
<1>10. Unnamed(my[c].new)'
  BY <1>2, <1>9 DEF Unnamed, To
<1>11. LiesAt(P, my[c].dir, c, Len(Path(c)) - 1)'
  BY <1>2, <1>5, <1>6 DEF LiesAt
<1>12. at'[c] = "name"
  BY <1>1, <1>2 DEF Shaped
<1>13. Cmd(c)'.name = (Path(c)[Len(Path(c))])'
  BY <1>3, <1>4, <1>5
<1>14. Makes(Call(c).op)' /\ Path(c)' # <<>> /\ my' = my
  BY <1>2, <1>5, <1>6
<1>15. MakesIn(c, P)'
  BY <1>6, <1>7, <1>8, <1>10, <1>11, <1>12, <1>13, <1>14 DEF MakesIn
<1>16. Walks(c, P)'
  BY <1>12 DEF Walks
<1> QED BY <1>5, <1>15, <1>16 DEF KeepsOwn

LEMMA EndKeeps ==
    ASSUME CreateInv, NEW c \in Clients, NEW P, Paths(P),
           NameDone(c) \/ StatDone(c) \/ GiveUp(c) \/ ListPage(c)
    PROVE  KeepsOwn(c, P)
<1>1. Shaped /\ Scripted(c) /\ scenario' = scenario
  BY DEF CreateInv, Paths, NameDone, StatDone, GiveUp, ListPage, Local, faults
<1>2. script[c] # <<>>
  BY <1>1 DEF Scripted, NameDone, StatDone, GiveUp, ListPage
<1>3. CASE NameDone(c)
  <2>1. CASE Call(c).op = "creat"
    <3>1. Visit(c, my[c].new.pair, my[c].new.handle)
      BY <1>3, <2>1 DEF NameDone
    <3>2. script' = script /\ at'[c] \in {"list", "attributes of"}
      BY <1>1, <3>1, VisitAlone
    <3> QED BY <1>1, <1>2, <3>2, ElsewhereKeeps
  <2>2. CASE Call(c).op # "creat"
    BY <1>1, <1>2, <1>3, <2>2, ReturnKeeps DEF NameDone
  <2> QED BY <2>1, <2>2
<1>4. CASE StatDone(c) \/ GiveUp(c)
  BY <1>1, <1>2, <1>4, ReturnKeeps DEF StatDone, GiveUp
<1>5. CASE ListPage(c)
  <2>1. CASE Listed(c) = <<>>
    BY <1>1, <1>2, <1>5, <2>1, ReturnKeeps DEF ListPage
  <2>2. CASE Listed(c) # <<>>
    <3>1. script' = script /\ at'[c] = "next page"
      BY <1>1, <1>5, <2>2 DEF ListPage, Go, Shaped
    <3> QED BY <1>1, <1>2, <3>1, ElsewhereKeeps
  <2> QED BY <2>1, <2>2
<1> QED BY <1>3, <1>4, <1>5

LEMMA DrawKeeps ==
    ASSUME CreateInv, NEW c \in Clients, NEW P, Paths(P),
           ReadCounter(c) \/ AllocExtent(c) \/ DiskError(c) \/ ExtentLost(c)
    PROVE  KeepsOwn(c, P)
<1>1. Shaped /\ Scripted(c) /\ MakesIn(c, P)
  BY DEF CreateInv, Paths
<1>2. /\ script' = script /\ scenario' = scenario /\ my'[c].dir = my[c].dir
      /\ at[c] \in {"extents", "counted"} /\ at'[c] \in {"extents", "counted"}
  BY <1>1, DrawAlone
<1>3. script[c] # <<>>
  BY <1>1, <1>2 DEF Scripted
<1> QED BY <1>1, <1>2, <1>3, MakingKeeps

LEMMA RequestKeeps ==
    ASSUME CreateInv, NEW c \in Clients, NEW P, Paths(P),
           Retry(c) \/ TransmissionFails(c) \/ Work(c),
           names' = names
    PROVE  KeepsOwn(c, P)
<1>1. script' = script /\ at' = at /\ scenario' = scenario
  BY DEF Retry, TransmissionFails, Work, Serving, client, faults
<1>2. Scripted(c)'
  BY <1>1 DEF Paths, Scripted, Given
<1>3. Extends(P, P)
  BY DEF Extends
<1>4. Walks(c, P)'
  BY RequestKeepsWalk DEF Paths
<1>5. MakesIn(c, P)'
  BY <1>3, RequestKeepsMaking DEF Paths
<1> QED BY <1>2, <1>4, <1>5 DEF KeepsOwn

\* Only dbAddDirent adds a name.
LEMMA WhoNames ==
    ASSUME NEW c \in Clients, MetaStep(c)
    PROVE  names' = names \/ AddDirent(c)
  BY DEF MetaStep, LookUp, ReadDir, GetAttr, GetHandles, CheckHandles, SelectFree, SelectMax,
     Select, LookUpStored, ReadDirStored, GetAttrStored, GetHandlesStored, CheckHandlesStored,
     FreeStored, MaxStored, Store, LockUpdates, OutOfSync, SetAttr, InsertHandle, InsertInode,
     tables

LEMMA StepKeeps ==
    ASSUME CreateInv, NEW c \in Clients, NEW P, Paths(P), Acts(c)
    PROVE  \/ KeepsOwn(c, P) /\ names' = names /\ scenario' = scenario
           \/ Work(c) /\ AddDirent(c)
<1>1. Shaped /\ Obeys(c)
  BY DEF CreateInv, Sound
<1>2. CASE Retry(c) \/ TransmissionFails(c) \/ Work(c)
  <2>1. names' = names \/ (Work(c) /\ AddDirent(c))
    BY <1>2, WhoNames DEF Retry, TransmissionFails, Work, tables
  <2>2. scenario' = scenario
    BY <1>2 DEF Retry, TransmissionFails, Work, Serving, faults
  <2> QED BY <1>2, <2>1, <2>2, RequestKeeps
<1>4. CASE Start(c) \/ GoOn(c)
  <2>1. Start(c)
    BY <1>4 DEF GoOn
  <2>2. names' = names /\ scenario' = scenario
    BY <2>1 DEF Start, Local, tables, faults
  <2> QED BY <2>1, <2>2, StartKeeps
<1>5. CASE WalkOn(c) \/ Found(c) \/ NotThere(c) \/ ParentFound(c)
  <2>1. names' = names /\ scenario' = scenario
    BY <1>1, <1>5, WalkAlone DEF Local, tables, faults
  <2> QED BY <1>5, <2>1, WalkOnKeeps, FoundKeeps, NotThereKeeps, ParentFoundKeeps
<1>6. CASE \/ ExtentsDone(c) \/ InodeDone(c) \/ AttributesDone(c)
           \/ NameDone(c) \/ StatDone(c) \/ GiveUp(c) \/ ListPage(c)
  <2>1. names' = names /\ scenario' = scenario
    BY <1>1, <1>6, CallAlone DEF Local, tables, faults
  <2> QED BY <1>6, <2>1, ExtentsDoneKeeps, InodeDoneKeeps, AttributesDoneKeeps, EndKeeps
<1>7. CASE ReadCounter(c) \/ AllocExtent(c) \/ DiskError(c) \/ ExtentLost(c)
  <2>1. names' = names /\ scenario' = scenario
    BY <1>1, <1>7, DrawAlone DEF tables
  <2> QED BY <1>7, <2>1, DrawKeeps
<1> QED BY <1>2, <1>4, <1>5, <1>6, <1>7 DEF Acts, Step

\* Every file a lookup can find has a path.
PathsInv == \E P : Paths(P)

LEMMA PathsGoOn ==
    ASSUME CreateInv, NEW P, Paths(P), [Next]_vars, ~crossed'
    PROVE  \E Q : Extends(Q, P) /\ Paths(Q)'
<1>1. Extends(P, P)
  BY DEF Extends
<1>2. CASE UNCHANGED <<metaVars, dataVars, client, dlock, scenario, history>>
  BY <1>1, <1>2, PathsSame
<1>3. ASSUME NEW c \in Clients, Acts(c) PROVE \E Q : Extends(Q, P) /\ Paths(Q)'
  <2>1. Alone(c) /\ WritesOwn(c)
    BY <1>3, StepAlone, StepWrites DEF CreateInv, Sound
  <2>2. CASE KeepsOwn(c, P) /\ names' = names /\ scenario' = scenario
    <3>1. (Scripted(c) /\ Walks(c, P) /\ MakesIn(c, P))'
      BY <2>2 DEF KeepsOwn
    <3>2. Paths(P)'
      BY <2>1, <2>2, <3>1, PathsStay
    <3> QED BY <1>1, <3>2
  <2>3. CASE Work(c) /\ AddDirent(c)
    BY <2>3, NamingKeepsPaths
  <2> QED BY <1>3, <2>2, <2>3, StepKeeps
<1> QED BY <1>2, <1>3, WhoActs

LEMMA PathsFirst == Init => PathsInv
<1> SUFFICES ASSUME Init PROVE PathsInv
  OBVIOUS
<1> DEFINE P == [x \in {RootInode} |-> <<>>]
<1>1. /\ names = [p \in Pairs |-> <<>>] /\ at = [c \in Clients |-> "idle"] /\ script = Given.calls
      /\ scenario \in DOMAIN Scenarios
      /\ inode = [p \in Pairs |-> [h \in {Root} |-> [mode |-> "dir", stripes |-> 0]]]
  BY DEF Init, MetaInit
<1>2. DOMAIN P = {RootInode} /\ P[RootInode] = <<>> /\ <<>> \in Seq(STRING)
  OBVIOUS
<1> HIDE DEF P
<1>3. \A p \in Pairs : \A i : i \notin DOMAIN names[p]
  <2>1. \A i : i \notin DOMAIN <<>>
    OBVIOUS
  <2> QED BY <1>1, <2>1
<1>4. Rooted(P) /\ Leads(P) /\ Led(P) /\ NamedOnce
  BY <1>2, <1>3 DEF Rooted, Leads, Led, NamedOnce
<1>5. FilesMade(P)
  <2>1. inode[RootInode.pair][RootInode.handle].mode = "dir"
    BY <1>1, MetaAssumption DEF RootInode
  <2> QED BY <1>2, <2>1 DEF FilesMade
<1>6. ASSUME NEW c \in Clients PROVE Scripted(c) /\ Walks(c, P) /\ MakesIn(c, P)
  <2>1. Given \in Range(Scenarios)
    BY <1>1 DEF Given, Range
  <2> DEFINE T == [op : {"mknod", "mkdir", "creat", "open", "stat", "list"}, path : Seq(STRING)]
  <2>2. Given.calls[c] \in Seq(T)
    BY <2>1, CreateAssumption
  <2>3. script[c] \in Seq(Range(Given.calls[c]))
    <3> DEFINE s == Given.calls[c]
    <3>1. s \in Seq(T)
      BY <2>2
    <3> HIDE DEF s, T
    <3>2. s \in Seq(Range(s))
      <4>1. DOMAIN s = 1..Len(s) /\ Len(s) \in Nat /\ s = [i \in DOMAIN s |-> s[i]]
        BY <3>1
      <4>2. s \in [1..Len(s) -> Range(s)]
        BY <4>1 DEF Range
      <4> QED BY <4>1, <4>2
    <3> QED BY <1>1, <3>2 DEF s
  <2> QED BY <1>1, <2>3 DEF Scripted, Walks, MakesIn
<1> QED BY <1>4, <1>5, <1>6 DEF PathsInv, Paths

LEMMA PathsInvariant == Spec => [](crossed \/ PathsInv)
<1>1. ASSUME CreateInv, PathsInv, [Next]_vars, ~crossed' PROVE PathsInv'
  <2>1. PICK P : Paths(P)
    BY <1>1 DEF PathsInv
  <2>2. PICK Q : Paths(Q)'
    BY <1>1, <2>1, PathsGoOn
  <2> QED BY <2>2 DEF PathsInv
<1> QED BY <1>1, PathsFirst, CrossedLasts, CreateInvariant, PTL DEF Spec

-----------------------------------------------------------------------------
(* What is visible *)

EntryOf(p, i) == [dir |-> From(p, i), name |-> names[p][i].name, file |-> To(p, i)]

EntriesRight ==
    /\ \A p \in Pairs : Entries(p) = {EntryOf(p, i) : i \in DOMAIN names[p]}
    /\ \A f : f \in Visible <=> \/ f = RootInode
                                \/ \E p \in Pairs : \E i \in DOMAIN names[p] : f = To(p, i)

LEMMA EntriesAre == Tables => EntriesRight
<1> SUFFICES ASSUME Tables PROVE EntriesRight
  OBVIOUS
<1>1. ASSUME NEW p \in Pairs PROVE DOMAIN names[p] = 1..Len(names[p])
  <2>1. names[p] \in Seq(Range(names[p]))
    BY DEF Tables
  <2> QED BY <2>1
<1>2. ASSUME NEW p \in Pairs PROVE Entries(p) = {EntryOf(p, i) : i \in DOMAIN names[p]}
  BY <1>1 DEF Entries, EntryOf, From, To
<1>3. ASSUME NEW f
      PROVE  f \in Visible <=>
                f = RootInode \/ \E p \in Pairs : \E i \in DOMAIN names[p] : f = To(p, i)
  <2>1. ASSUME NEW p \in Pairs
        PROVE  f \in {e.file : e \in Entries(p)} <=> \E i \in DOMAIN names[p] : f = To(p, i)
    <3>1. \A i : EntryOf(p, i).file = To(p, i)
      BY DEF EntryOf
    <3>2. f \in {e.file : e \in Entries(p)} <=> \E i \in DOMAIN names[p] : f = EntryOf(p, i).file
      BY <1>2
    <3> QED BY <3>1, <3>2
  <2> QED BY <2>1 DEF Visible
<1> QED BY <1>2, <1>3 DEF EntriesRight

LEMMA VisibleSettled ==
    ASSUME CreateInv, NEW f \in Visible
    PROVE  Settled(f.pair, f.handle) /\ f = [pair |-> f.pair, handle |-> f.handle]
<1>1. CASE f = RootInode
  BY <1>1 DEF CreateInv, NamesSettled, RootInode
<1>2. CASE f # RootInode
  <2>1. PICK p \in Pairs : \E i \in DOMAIN names[p] : f = To(p, i)
    BY <1>2, EntriesAre DEF CreateInv, EntriesRight
  <2>2. PICK i \in DOMAIN names[p] : f = To(p, i)
    BY <2>1
  <2>3. Settled(names[p][i].home, names[p][i].file)
    BY DEF CreateInv, NamesSettled
  <2> QED BY <2>2, <2>3 DEF To
<1> QED BY <1>1, <1>2

LEMMA ContentsStay ==
    ASSUME CreateInv, NEW c \in Clients, WritesOwn(c), NEW f \in Visible
    PROVE  Contents(f)' = Contents(f)
<1>1. Unwritten(f.pair, f.handle)
  BY VisibleSettled, SettledUnwritten
<1> QED BY <1>1 DEF Contents, Unwritten

\* A step that names nothing shows nothing.
LEMMA TreeStays ==
    ASSUME CreateInv, NEW c \in Clients, WritesOwn(c), names' = names
    PROVE  AllEntries' = AllEntries /\ AllPlaces' = AllPlaces
<1>1. \A p : Entries(p)' = Entries(p)
  BY DEF Entries
<1>2. AllEntries' = AllEntries /\ Visible' = Visible
  BY <1>1 DEF AllEntries, Visible
<1>3. \A f \in Visible : Contents(f)' = Contents(f)
  BY ContentsStay
<1> QED BY <1>2, <1>3 DEF AllPlaces

LEMMA FirstPart ==
    ASSUME NEW S, NEW s \in Seq(S), NEW n \in Nat, n < Len(s)
    PROVE  /\ Len(SubSeq(s, 1, n)) = n /\ SubSeq(s, 1, n) # s
           /\ SubSeq(s, 1, n) = SubSeq(s, 1, Len(SubSeq(s, 1, n)))
<1>1. Len(SubSeq(s, 1, n)) = n
  OBVIOUS
<1> QED BY <1>1

\* The kernel makes nothing below a regular file.
LEMMA ParentIsDirectory ==
    ASSUME CreateInv, NEW P, Paths(P), NEW c \in Clients, at[c] = "name"
    PROVE  inode[my[c].dir.pair][my[c].dir.handle].mode = "dir"
<1> DEFINE dir == my[c].dir
<1>1. Makes(Call(c).op) /\ Path(c) # <<>> /\ LiesAt(P, dir, c, Len(Path(c)) - 1)
  BY DEF Paths, MakesIn
<1>2. PICK j \in DOMAIN Given.calls[c] : Given.calls[c][j] = Call(c)
  BY CallGiven DEF CreateInv, Paths, Scripted
<1>3. Path(c) \in Seq(STRING) /\ Len(Path(c)) \in Nat /\ Len(Path(c)) >= 1
  BY <1>1, CallGiven DEF CreateInv, Paths, Scripted
<1>4. dir \in DOMAIN P /\ P[dir] = SubSeq(Path(c), 1, Len(Path(c)) - 1)
  BY <1>1 DEF LiesAt
<1> SUFFICES ASSUME NEW d \in Clients, NEW i \in DOMAIN Given.calls[d],
                    Given.calls[d][i].op \in {"mknod", "creat"}, Given.calls[d][i].path = P[dir]
             PROVE  FALSE
  BY <1>4 DEF Paths, FilesMade
<1>5. IsStrictPrefix(P[dir], Path(c))
  <2> DEFINE s == Path(c)
             n == Len(s) - 1
             t == SubSeq(s, 1, n)
  <2>1. s \in Seq(STRING) /\ n \in Nat /\ n < Len(s)
    BY <1>3
  <2> HIDE DEF s
  <2>2. Len(t) = n /\ t = SubSeq(s, 1, Len(t)) /\ t # s
    BY <2>1, FirstPart
  <2> QED BY <1>4, <2>1, <2>2 DEF IsStrictPrefix, IsPrefix, s
<1>6. Given \in Range(Scenarios)
  BY DEF CreateInv, Shaped, Given, Range
<1>7. Given.calls[c][j].op \in {"mknod", "mkdir", "creat"} /\ Given.calls[c][j].path = Path(c)
  BY <1>1, <1>2 DEF Makes, Path
<1> QED BY <1>5, <1>6, <1>7, KernelAssumption

\* What is named is whole, and shares nothing with what is visible.
LEMMA NamedWhole ==
    ASSUME CreateInv, ExtentsApart, NEW P, Paths(P), NEW c \in Clients, at[c] = "name"
    PROVE  /\ Tree!Whole(Contents(my[c].new))
           /\ \A f \in Visible :
                 f # my[c].new =>
                    Tree!Allocated(Contents(f).rows) \cap Tree!Allocated(Contents(my[c].new).rows) = {}
<1> DEFINE new == my[c].new
           p == new.pair
           h == new.handle
<1>1. Complete(p, h)
  BY DEF CreateInv, Sound, Names
<1>2. MadeWhole(c) /\ new = [pair |-> p, handle |-> h]
  BY DEF Paths, MakesIn
<1>3. Contents(new).mode = inode[p][h].mode /\ Contents(new).rows = HandlesOf(p, h)
  BY DEF Contents
<1>4. Len(HandlesOf(p, h)) = 2 * inode[p][h].stripes /\ p \in Pairs /\ h \in DOMAIN inode[p]
  BY <1>1 DEF Complete
<1>5. Tree!Whole(Contents(new))
  <2>1. CASE Call(c).op = "mkdir"
    <3>1. inode[p][h].mode = "dir" /\ inode[p][h].stripes = 0
      BY <1>2, <2>1 DEF MadeWhole
    <3> QED BY <1>3, <1>4, <3>1 DEF Tree!Whole
  <2>2. CASE Call(c).op # "mkdir"
    <3>1. inode[p][h].mode = "file" /\ inode[p][h].stripes = Stripes
      BY <1>2, <2>2 DEF MadeWhole
    <3> QED BY <1>3, <1>4, <3>1, CountsOfCopies DEF Tree!Whole
  <2> QED BY <2>1, <2>2
<1>6. ASSUME NEW f \in Visible, f # new
      PROVE  Tree!Allocated(Contents(f).rows) \cap Tree!Allocated(Contents(new).rows) = {}
  <2>1. /\ f = [pair |-> f.pair, handle |-> f.handle] /\ f.pair \in Pairs
        /\ f.handle \in DOMAIN inode[f.pair]
    BY VisibleSettled DEF Settled, Complete
  <2>2. f.pair # p \/ f.handle # h
    BY <1>2, <1>6, <2>1
  <2>3. TakenFor(f.pair, f.handle) \cap TakenFor(p, h) = {}
    BY <1>4, <2>1, <2>2 DEF ExtentsApart
  <2>4. Contents(f).rows = HandlesOf(f.pair, f.handle)
    BY DEF Contents
  <2> QED BY <1>3, <2>3, <2>4 DEF TakenFor
<1> QED BY <1>5, <1>6

LEMMA TreeGrows ==
    ASSUME CreateInv, NEW c \in Clients, NEW P, Paths(P), Work(c), AddDirent(c),
           CreateInv'
    PROVE  LET e == [dir |-> my[c].dir, name |-> Cmd(c).name, file |-> my[c].new]
           IN /\ AllEntries' = AllEntries \cup {e}
              /\ my[c].dir \in Visible /\ my[c].new \notin Visible
              /\ AllPlaces' = [f \in Visible \cup {e.file} |->
                                  IF f = e.file THEN Contents(e.file) ELSE Contents(f)]
<1>p. PICK p : p = Pair(c)
  OBVIOUS
<1>n. PICK n : n = Len(names[p]) + 1
  OBVIOUS
<1>1. Added(c, p, n) /\ at[c] = "name" /\ Grows /\ p \in Pairs
  BY <1>p, <1>n, NameAdded DEF Added
<1>2. ~Succeeded(c) /\ WritesOwn(c)
  BY RequestUnderWay, StepWrites DEF CreateInv, Sound, Acts, Step
<1>3. /\ my[c].dir \in DOMAIN P /\ From(p, n)' = my[c].dir
      /\ To(p, n)' = my[c].new /\ my[c].new # RootInode
      /\ Unnamed(my[c].new) /\ names'[p][n].name = Cmd(c).name
  BY <1>1, <1>2, NameLeads
<1> DEFINE dir == my[c].dir
           new == my[c].new
           e == [dir |-> dir, name |-> Cmd(c).name, file |-> new]
<1>4. Tables /\ Tables'
  BY DEF CreateInv
<1>5. /\ n \in DOMAIN names'[p] /\ n \notin DOMAIN names[p]
      /\ \A q \in Pairs : \A i \in DOMAIN names'[q] : i \in DOMAIN names[q] \/ (q = p /\ i = n)
  BY <1>1 DEF Added
<1>6. \A q \in Pairs : \A i \in DOMAIN names[q] :
         i \in DOMAIN names'[q] /\ EntryOf(q, i)' = EntryOf(q, i) /\ To(q, i)' = To(q, i)
  BY <1>1, <1>4, RowsStay DEF EntryOf
<1>7. EntryOf(p, n)' = e
  BY <1>3 DEF EntryOf
<1>8. EntriesRight
  BY <1>4, EntriesAre
<1>9. EntriesRight'
  BY <1>4, EntriesAre, PTL
<1>10. \A f : f \in Visible' <=> \/ f = RootInode
                               \/ \E q \in Pairs : \E i \in DOMAIN names'[q] : f = To(q, i)'
  BY <1>9 DEF EntriesRight, RootInode
<1>11. \A f : f \in Visible <=> \/ f = RootInode
                              \/ \E q \in Pairs : \E i \in DOMAIN names[q] : f = To(q, i)
  BY <1>8 DEF EntriesRight
<1>12. dir \in Visible
  BY <1>3, <1>11 DEF Paths, Led
<1>13. new \notin Visible
  BY <1>3, <1>11 DEF Unnamed
<1> HIDE DEF e, new, dir
<1>14. Visible' = Visible \cup {new}
  <2>1. \A f \in Visible : f \in Visible'
    BY <1>6, <1>10, <1>11
  <2>2. new \in Visible'
    BY <1>1, <1>3, <1>5, <1>10 DEF new
  <2>3. \A f \in Visible' : f \in Visible \/ f = new
    BY <1>3, <1>5, <1>6, <1>10, <1>11 DEF new
  <2> QED BY <2>1, <2>2, <2>3
<1>15. \A q \in Pairs : Entries(q)' = IF q = p THEN Entries(q) \cup {e} ELSE Entries(q)
  <2> SUFFICES ASSUME NEW q \in Pairs
               PROVE  Entries(q)' = IF q = p THEN Entries(q) \cup {e} ELSE Entries(q)
    OBVIOUS
  <2>1. \A x : x \in Entries(q)' <=> \E i \in DOMAIN names'[q] : x = EntryOf(q, i)'
    BY <1>9 DEF EntriesRight
  <2>2. \A x : x \in Entries(q) <=> \E i \in DOMAIN names[q] : x = EntryOf(q, i)
    BY <1>8 DEF EntriesRight
  <2>3. CASE q = p
    <3>1. \A x \in Entries(q) : x \in Entries(q)'
      BY <1>6, <2>1, <2>2
    <3>2. e \in Entries(q)'
      BY <1>5, <1>7, <2>1, <2>3
    <3>3. \A x \in Entries(q)' : x \in Entries(q) \/ x = e
      BY <1>5, <1>6, <1>7, <2>1, <2>2, <2>3
    <3> QED BY <2>3, <3>1, <3>2, <3>3
  <2>4. CASE q # p
    <3>1. \A x \in Entries(q) : x \in Entries(q)'
      BY <1>6, <2>1, <2>2
    <3>2. \A x \in Entries(q)' : x \in Entries(q)
      BY <1>5, <1>6, <2>1, <2>2, <2>4
    <3> QED BY <2>4, <3>1, <3>2
  <2> QED BY <2>3, <2>4
<1>16. AllEntries' = AllEntries \cup {e}
  BY <1>1, <1>15 DEF AllEntries
<1>18. \A f : Contents(f)' = Contents(f)
  <2>1. inode' = inode /\ extents' = extents
    BY DEF AddDirent
  <2> QED BY <2>1 DEF Contents, HandlesOf
<1>19. AllPlaces' = [f \in Visible \cup {new} |-> IF f = new THEN Contents(new) ELSE Contents(f)]
  <2>1. /\ DOMAIN AllPlaces' = Visible' /\ \A f \in Visible' : AllPlaces'[f] = Contents(f)'
        /\ AllPlaces' = [f \in DOMAIN AllPlaces' |-> AllPlaces'[f]]
    BY DEF AllPlaces
  <2>2. \A f \in Visible' : AllPlaces'[f] = IF f = new THEN Contents(new) ELSE Contents(f)
    BY <1>14, <1>18, <2>1
  <2> QED BY <1>14, <2>1, <2>2
<1> QED BY <1>12, <1>13, <1>16, <1>19 DEF e, new, dir

\* What is visible grows by whole files that share nothing, put into directories.
LEMMA TreeStep ==
    ASSUME CreateInv, CreateInv', ExtentsApart, PathsInv, [Next]_vars, ~crossed'
    PROVE  Tree!FileTreeNext \/ UNCHANGED <<AllEntries, AllPlaces, crossed>>
<1>0. crossed' = crossed /\ ~crossed
  <2>1. crossed' \in {crossed, TRUE}
    BY CrossedStays
  <2>2. crossed' = crossed
    BY <2>1
  <2> QED BY <2>2
<1>1. PICK P : Paths(P)
  BY DEF PathsInv
<1>2. CASE UNCHANGED <<metaVars, dataVars, client, dlock, scenario, history>>
  <2>1. inode' = inode /\ extents' = extents /\ names' = names
    BY <1>2 DEF metaVars, tables
  <2>2. \A p : Entries(p)' = Entries(p)
    BY <2>1 DEF Entries
  <2>3. AllEntries' = AllEntries /\ Visible' = Visible
    BY <2>2 DEF AllEntries, Visible
  <2>4. \A f : Contents(f)' = Contents(f)
    BY <2>1 DEF Contents, HandlesOf
  <2> QED BY <1>0, <2>3, <2>4 DEF AllPlaces
<1>3. ASSUME NEW c \in Clients, Acts(c)
      PROVE  Tree!FileTreeNext \/ UNCHANGED <<AllEntries, AllPlaces, crossed>>
  <2>1. CASE names' = names
    BY <1>0, <1>3, <2>1, StepWrites, TreeStays
  <2>2. CASE Work(c) /\ AddDirent(c)
    <3> DEFINE dir == my[c].dir
               new == my[c].new
               e == [dir |-> dir, name |-> Cmd(c).name, file |-> new]
    <3>1. /\ AllEntries' = AllEntries \cup {e} /\ dir \in Visible /\ new \notin Visible
          /\ AllPlaces' = [f \in Visible \cup {new} |->
                              IF f = new THEN Contents(new) ELSE Contents(f)]
      BY <1>1, <2>2, TreeGrows
    <3>2. at[c] = "name"
      BY <1>1, <2>2, NameAdded
    <3>3. /\ Tree!Whole(Contents(new))
          /\ \A f \in Visible :
                 f # new =>
                    Tree!Allocated(Contents(f).rows) \cap Tree!Allocated(Contents(new).rows) = {}
      BY <1>1, <3>2, NamedWhole
    <3>4. Contents(dir).mode = "dir"
      BY <1>1, <3>2, ParentIsDirectory DEF Contents
    <3>5. DOMAIN AllPlaces = Visible /\ \A f \in Visible : AllPlaces[f] = Contents(f)
      BY DEF AllPlaces
    <3> HIDE DEF dir, new
    <3>6. AllPlaces'[new] = Contents(new)
      BY <3>1
    <3>7. AllPlaces' = [f \in DOMAIN AllPlaces \cup {new} |->
                          IF f = new THEN Contents(new) ELSE AllPlaces[f]]
      BY <3>1, <3>5
    <3>8. Tree!Publish(dir, Cmd(c).name, new, Contents(new))
      BY <3>1, <3>3, <3>4, <3>5, <3>7 DEF Tree!Publish
    <3>9. e \in AllEntries' /\ e.dir = dir /\ e.name = Cmd(c).name /\ e.file = new
      BY <3>1
    <3>10. Tree!Publish(e.dir, e.name, e.file, AllPlaces'[e.file])
      BY <3>6, <3>8, <3>9
    <3> QED BY <1>0, <3>9, <3>10 DEF Tree!FileTreeNext
  <2> QED BY <1>1, <1>3, <2>1, <2>2, StepKeeps
<1> QED BY <1>2, <1>3, WhoActs

LEMMA TreeFirst == Init => Tree!FileTreeInit
<1> SUFFICES ASSUME Init PROVE Tree!FileTreeInit
  OBVIOUS
<1>1. /\ names = [p \in Pairs |-> <<>>] /\ extents = [p \in Pairs |-> [h \in {} |-> <<>>]]
      /\ inode = [p \in Pairs |-> [h \in {Root} |-> [mode |-> "dir", stripes |-> 0]]]
  BY DEF Init, MetaInit
<1>2. EntriesRight
  BY InitSound, EntriesAre DEF CreateInv
<1>3. \A p \in Pairs : \A i : i \notin DOMAIN names[p]
  <2>1. \A i : i \notin DOMAIN <<>>
    OBVIOUS
  <2> QED BY <1>1, <2>1
<1>4. Visible = {RootInode}
  BY <1>2, <1>3 DEF EntriesRight
<1>5. \A p \in Pairs : Entries(p) = {}
  BY <1>2, <1>3 DEF EntriesRight
<1>6. AllEntries = {}
  BY <1>5 DEF AllEntries
<1>7. Contents(RootInode) = [mode |-> "dir", rows |-> <<>>]
  BY <1>1, MetaAssumption DEF Contents, HandlesOf, RootInode
<1>8. AllPlaces = [f \in {RootInode} |-> [mode |-> "dir", rows |-> <<>>]]
  BY <1>4, <1>7 DEF AllPlaces
<1>9. crossed = FALSE
  BY DEF Init
<1> QED BY <1>6, <1>8, <1>9 DEF Tree!FileTreeInit

\* However the requests of several creations interleave, fail and are made
\* again, a name appears together with the file it names, whole, in a
\* directory that is there, and its extents belong to no other, until statements
\* of two workers cross.
THEOREM CreationShowsWholeFiles == Spec => ImplementsFileTree
<1>1. CreateInv /\ CreateInv' /\ ExtentsApart /\ PathsInv /\ [Next]_vars /\ ~crossed'
         => [Tree!FileTreeNext]_<<AllEntries, AllPlaces, crossed>>
  BY TreeStep
<1>2. crossed' => Tree!FileTreeNext
  BY DEF Tree!FileTreeNext
<1> QED BY <1>1, <1>2, CrossedLasts, TreeFirst, CreateInvariant, ExtentsInvariant, PathsInvariant, PTL
        DEF Spec, ImplementsFileTree, Tree!FileTreeSpec

-----------------------------------------------------------------------------
(* Names that were there before *)

\* When a call that makes something began to look, so much of its path led
\* nowhere.
Missing(c, P, k) ==
    \A p \in Pairs : \A i \in 1..before[c][p] : First(p, i) => P[To(p, i)] # SubSeq(Path(c), 1, k)
\* What it remembers of the tables is as much as there was, with every
\* directory a name is in.
Snapshot(c) ==
    \A p \in Pairs :
        /\ before[c][p] \in Nat /\ 1..before[c][p] \subseteq DOMAIN names[p]
        /\ \A i \in 1..before[c][p] :
              From(p, i) # RootInode =>
                  \E q \in Pairs : \E j \in 1..before[c][q] : To(q, j) = From(p, i)
Unfound(c) ==
    \/ job[c].at = "name" /\ job[c].rows = <<>>
    \/ Answered(c) /\ job[c].status = "no_such_record"
Making == {"parent", "extents", "counted", "inode", "attributes", "name"}
MissesAny(c, P) == \E k \in 1..Len(Path(c)) : Missing(c, P, k)
Misses(c, P) ==
    /\ at[c] = "walk" /\ Unfound(c) => Missing(c, P, my[c].pos)
    /\ at[c] \in Making /\ ~trouble[c] => MissesAny(c, P)
Historic == trouble \in [Clients -> BOOLEAN] /\ DOMAIN before = Clients
Before(P) == Historic /\ \A c \in Clients : Snapshot(c) /\ Misses(c, P)

LEMMA SnapshotKept ==
    ASSUME Tables, Grows, NEW d \in Clients, before'[d] = before[d], Snapshot(d)
    PROVE  Snapshot(d)'
<1>1. \A p \in Pairs : \A i \in DOMAIN names[p] :
         i \in DOMAIN names'[p] /\ From(p, i)' = From(p, i) /\ To(p, i)' = To(p, i)
  BY RowsStay
<1>2. \A p \in Pairs : \A i \in 1..before[d][p] : i \in DOMAIN names[p]
  BY DEF Snapshot
<1>3. RootInode' = RootInode
  BY DEF RootInode
<1> SUFFICES ASSUME NEW p \in Pairs
             PROVE  /\ before'[d][p] \in Nat /\ 1..before'[d][p] \subseteq DOMAIN names'[p]
                    /\ \A i \in 1..before'[d][p] :
                          From(p, i)' # RootInode =>
                             \E q \in Pairs : \E j \in 1..before'[d][q] : To(q, j)' = From(p, i)'
  BY <1>3 DEF Snapshot
<1>4. before'[d][p] \in Nat /\ 1..before'[d][p] \subseteq DOMAIN names'[p]
  BY <1>1, <1>2 DEF Snapshot
<1>5. ASSUME NEW i \in 1..before[d][p], From(p, i)' # RootInode
      PROVE  \E q \in Pairs : \E j \in 1..before'[d][q] : To(q, j)' = From(p, i)'
  <2>1. From(p, i)' = From(p, i)
    BY <1>1, <1>2
  <2>2. PICK q \in Pairs : \E j \in 1..before[d][q] : To(q, j) = From(p, i)
    BY <1>5, <2>1 DEF Snapshot
  <2> QED BY <1>1, <1>2, <2>1, <2>2
<1> QED BY <1>4, <1>5

LEMMA MissingKept ==
    ASSUME Tables, Grows, NEW P, NEW Q, Leads(P), Extends(Q, P), NEW d \in Clients,
           before'[d] = before[d], script'[d] = script[d], Snapshot(d), NEW k, Missing(d, P, k)
    PROVE  Missing(d, Q, k)'
<1>1. Path(d)' = Path(d)
  BY CallStays
<1> SUFFICES ASSUME NEW p \in Pairs, NEW i \in 1..before[d][p], First(p, i)'
             PROVE  Q[To(p, i)'] # SubSeq(Path(d), 1, k)
  BY <1>1 DEF Missing
<1>2. i \in DOMAIN names[p]
  BY DEF Snapshot
<1>3. To(p, i)' = To(p, i) /\ First(p, i)
  BY <1>2, RowsStay
<1>4. Q[To(p, i)] = P[To(p, i)]
  BY <1>2, <1>3 DEF Leads, Extends
<1> QED BY <1>3, <1>4 DEF Missing

LEMMA MissesAnyKept ==
    ASSUME Tables, Grows, NEW P, NEW Q, Leads(P), Extends(Q, P), NEW d \in Clients,
           before'[d] = before[d], script'[d] = script[d], Snapshot(d), MissesAny(d, P)
    PROVE  MissesAny(d, Q)'
<1>1. PICK k \in 1..Len(Path(d)) : Missing(d, P, k)
  BY DEF MissesAny
<1>2. Missing(d, Q, k)' /\ Path(d)' = Path(d)
  BY <1>1, MissingKept, CallStays
<1> QED BY <1>2 DEF MissesAny

LEMMA MissesKept ==
    ASSUME Tables, Grows, NEW P, NEW Q, Leads(P), Extends(Q, P), NEW d \in Clients,
           before'[d] = before[d], trouble'[d] = trouble[d], script'[d] = script[d],
           job'[d] = job[d], my'[d] = my[d], at'[d] = at[d], Snapshot(d), Misses(d, P)
    PROVE  Misses(d, Q)'
<1>1. Unfound(d)' <=> Unfound(d)
  BY DEF Unfound, Answered
<1>2. ASSUME Missing(d, P, my[d].pos) PROVE Missing(d, Q, my[d].pos)'
  <2>1. PICK k : k = my[d].pos
    OBVIOUS
  <2>2. Missing(d, Q, k)'
    BY <1>2, <2>1, MissingKept
  <2> QED BY <2>1, <2>2 DEF Missing
<1>3. MissesAny(d, P) => MissesAny(d, Q)'
  BY MissesAnyKept
<1> QED BY <1>1, <1>2, <1>3 DEF Misses

\* What is remembered at first is all there is.
LEMMA SnapshotTaken ==
    ASSUME Tables, NEW P, Leads(P), Led(P), names' = names, NEW c \in Clients,
           \/ before'[c] = NothingSeen
           \/ before'[c] = [p \in Pairs |-> Len(names[p])]
    PROVE  Snapshot(c)'
<1>1. \A p \in Pairs : DOMAIN names[p] = 1..Len(names[p]) /\ Len(names[p]) \in Nat
  <2> SUFFICES ASSUME NEW p \in Pairs
               PROVE  DOMAIN names[p] = 1..Len(names[p]) /\ Len(names[p]) \in Nat
    OBVIOUS
  <2>1. names[p] \in Seq(Range(names[p]))
    BY DEF Tables
  <2> QED BY <2>1
<1>2. \A p, i : From(p, i)' = From(p, i) /\ To(p, i)' = To(p, i)
  BY DEF From, To
<1>3. RootInode' = RootInode
  BY DEF RootInode
<1>4. CASE before'[c] = NothingSeen
  <2>1. \A p \in Pairs : before'[c][p] = 0
    BY <1>4 DEF NothingSeen
  <2> QED BY <2>1 DEF Snapshot
<1>5. CASE before'[c] = [p \in Pairs |-> Len(names[p])]
  <2>1. \A p \in Pairs : before'[c][p] = Len(names[p]) /\ 1..before'[c][p] = DOMAIN names'[p]
    BY <1>1, <1>5
  <2>2. ASSUME NEW p \in Pairs, NEW i \in DOMAIN names[p], From(p, i) # RootInode
        PROVE  \E q \in Pairs : \E j \in DOMAIN names[q] : To(q, j) = From(p, i)
    <3>1. From(p, i) \in DOMAIN P
      BY DEF Leads
    <3> QED BY <2>2, <3>1 DEF Led
  <2>3. \A p \in Pairs : 1..before'[c][p] = DOMAIN names[p] /\ before'[c][p] \in Nat
    BY <1>1, <2>1
  <2> QED BY <1>2, <1>3, <2>2, <2>3 DEF Snapshot
<1> QED BY <1>4, <1>5

-----------------------------------------------------------------------------
(* What a step remembers, and what it looks for *)

\* Only what this client remembers changes: nothing, or all there is.
Noted(c) ==
    /\ Historic'
    /\ \A d \in Clients \ {c} : before'[d] = before[d] /\ trouble'[d] = trouble[d]
    /\ \/ before'[c] = before[c]
       \/ before'[c] = NothingSeen
       \/ before'[c] = [p \in Pairs |-> Len(names[p])]
\* It is not about a name that was not there, or makes what was not.
GoesOn(c) ==
    /\ script'[c] = script[c] /\ before'[c] = before[c]
    /\ \/ at[c] \in Making /\ trouble'[c] = trouble[c]
       \/ at[c] = "walk" /\ Failed(c) /\ (trouble'[c] \/ job[c].status = "no_such_record")
Turns(c) ==
    \/ at'[c] \notin Making \cup {"walk"}
    \/ at'[c] = "walk" /\ ~Unfound(c)'
    \/ at'[c] \in Making /\ GoesOn(c)

LEMMA SameNoted ==
    ASSUME NEW c \in Clients, Historic, history' = history
    PROVE  Noted(c) /\ before'[c] = before[c] /\ trouble'[c] = trouble[c]
  BY DEF Historic, Noted, history

LEMMA RememberNoted ==
    ASSUME NEW c \in Clients, Historic, RememberNames(c) \/ before' = before, trouble' = trouble
    PROVE  Noted(c)
<1>1. CASE before' = before
  BY <1>1 DEF Historic, Noted
<1>2. CASE RememberNames(c)
  BY <1>2 DEF Historic, Noted, RememberNames
<1> QED BY <1>1, <1>2

LEMMA TroubleNoted ==
    ASSUME NEW c \in Clients, Historic, NoteTrouble(c), before' = before
    PROVE  /\ Noted(c) /\ before'[c] = before[c]
           /\ trouble'[c] \/ job[c].status \in {"ok", "no_such_record"}
<1>1. \A d \in Clients \ {c} : trouble'[d] = trouble[d]
  BY DEF Historic, NoteTrouble
<1>2. trouble'[c] = (trouble[c] \/ job[c].status \notin {"ok", "no_such_record"})
  BY DEF Historic, NoteTrouble
<1>3. trouble' \in [Clients -> BOOLEAN]
  BY DEF Historic, NoteTrouble
<1> QED BY <1>1, <1>2, <1>3 DEF Historic, Noted

LEMMA ReturnNoted ==
    ASSUME Shaped, NEW c \in Clients, Historic, NEW what, Return(c, what)
    PROVE  Noted(c) /\ Turns(c)
<1>1. Noted(c)
  BY DEF Return, Historic, Noted
<1>2. at'[c] = "idle"
  BY ReturnAlone
<1> QED BY <1>1, <1>2 DEF Turns, Making

LEMMA VisitNoted ==
    ASSUME Shaped, NEW c \in Clients, Historic, NEW pair, NEW handle, Visit(c, pair, handle)
    PROVE  Noted(c) /\ Turns(c)
<1>1. Noted(c)
  BY RememberNoted DEF Visit
<1>2. at'[c] \in {"list", "attributes of"}
  BY VisitAlone
<1> QED BY <1>1, <1>2 DEF Turns, Making

LEMMA LookTurns ==
    ASSUME Shaped, NEW c \in Clients, NEW pair, NEW handle, NEW name, Look(c, pair, handle, name)
    PROVE  ~Unfound(c)'
<1> DEFINE cmd == [op |-> "lookup", dir |-> handle, name |-> name]
<1>1. Serve(c, <<pair, "primary">>, cmd) /\ cmd.op = "lookup"
  BY DEF Look, Ask
<1> HIDE DEF cmd
<1>2. job'[c].at = "select name"
  BY <1>1, AskTurns, FirstSteps
<1> QED BY <1>2 DEF Unfound, Answered

LEMMA WalkNoted ==
    ASSUME Shaped, NEW c \in Clients, Historic,
           Start(c) \/ WalkOn(c) \/ Found(c) \/ NotThere(c) \/ ParentFound(c)
    PROVE  Noted(c) /\ Turns(c)
<1>1. CASE Start(c)
  <2>1. CASE Path(c) = <<>>
    BY <1>1, <2>1, VisitNoted DEF Start
  <2>2. CASE Path(c) # <<>>
    <3>1. Noted(c)
      BY <1>1, <2>2, RememberNoted DEF Start
    <3>2. at'[c] = "walk" /\ ~Unfound(c)'
      BY <1>1, <2>2, LookTurns DEF Start, Go, Shaped
    <3> QED BY <3>1, <3>2 DEF Turns
  <2> QED BY <2>1, <2>2
<1>2. CASE WalkOn(c)
  <2>1. Noted(c)
    BY <1>2, RememberNoted DEF WalkOn
  <2>2. at' = at /\ script' = script /\ trouble' = trouble /\ ~Unfound(c)'
    BY <1>2, LookTurns DEF WalkOn
  <2>3. CASE at[c] = "walk"
    BY <2>1, <2>2, <2>3 DEF Turns
  <2>4. CASE at[c] = "parent"
    <3>1. before' = before
      BY <1>2, <2>4 DEF WalkOn
    <3> QED BY <2>1, <2>2, <2>4, <3>1 DEF Turns, GoesOn, Making
  <2> QED BY <1>2, <2>3, <2>4 DEF WalkOn
<1>3. CASE Found(c)
  BY <1>3, ReturnNoted, VisitNoted DEF Found
<1>4. CASE NotThere(c)
  <2>1. CASE ~Makes(Call(c).op)
    BY <1>4, <2>1, ReturnNoted DEF NotThere
  <2>2. CASE Makes(Call(c).op)
    <3>1. NoteTrouble(c) /\ before' = before /\ script' = script /\ at[c] = "walk" /\ Failed(c)
      BY <1>4, <2>2 DEF NotThere, Absent
    <3>2. Noted(c) /\ before'[c] = before[c] /\ (trouble'[c] \/ job[c].status = "no_such_record")
      BY <3>1, TroubleNoted DEF Failed
    <3>3. at'[c] \in Making
      <4>1. CASE Len(Path(c)) = 1
        BY <1>4, <2>2, <3>1, <4>1, LocatedAlone DEF NotThere, Making
      <4>2. CASE Len(Path(c)) # 1
        BY <1>4, <2>2, <4>2 DEF NotThere, Making, Go, Shaped
      <4> QED BY <4>1, <4>2
    <3> QED BY <3>1, <3>2, <3>3 DEF Turns, GoesOn
  <2> QED BY <2>1, <2>2
<1>5. CASE ParentFound(c)
  <2>1. history' = history /\ script' = script /\ at[c] = "parent"
    BY <1>5 DEF ParentFound
  <2>2. at'[c] \in Making
    BY <1>5, <2>1, LocatedAlone DEF ParentFound, Making
  <2> QED BY <2>1, <2>2, SameNoted DEF Turns, GoesOn, Making
<1> QED BY <1>1, <1>2, <1>3, <1>4, <1>5

LEMMA CallNoted ==
    ASSUME Shaped, NEW c \in Clients, Historic,
           \/ ExtentsDone(c) \/ InodeDone(c) \/ AttributesDone(c)
           \/ NameDone(c) \/ StatDone(c) \/ GiveUp(c) \/ ListPage(c)
    PROVE  Noted(c) /\ Turns(c)
<1>1. CASE ExtentsDone(c)
  <2>1. CASE \E i \in 1..Copies : my[c].rows[i].hdl = Lost
    BY <1>1, <2>1, ReturnNoted DEF ExtentsDone
  <2>2. CASE ~ \E i \in 1..Copies : my[c].rows[i].hdl = Lost
    BY <1>1, <2>2, SameNoted DEF ExtentsDone, AskInode, Go, Shaped, Turns, GoesOn, Making
  <2> QED BY <2>1, <2>2
<1>2. CASE InodeDone(c) \/ AttributesDone(c)
  BY <1>2, SameNoted DEF InodeDone, AttributesDone, Go, Shaped, Turns, GoesOn, Making
<1>3. CASE NameDone(c)
  BY <1>3, ReturnNoted, VisitNoted DEF NameDone
<1>4. CASE StatDone(c) \/ GiveUp(c)
  BY <1>4, ReturnNoted DEF StatDone, GiveUp
<1>5. CASE ListPage(c)
  <2>1. CASE Listed(c) = <<>>
    BY <1>5, <2>1, ReturnNoted DEF ListPage
  <2>2. CASE Listed(c) # <<>>
    <3>1. NoteTrouble(c) /\ before' = before /\ at'[c] = "next page"
      BY <1>5, <2>2 DEF ListPage, Go, Shaped
    <3> QED BY <3>1, TroubleNoted DEF Turns, Making
  <2> QED BY <2>1, <2>2
<1> QED BY <1>1, <1>2, <1>3, <1>4, <1>5

LEMMA DrawNoted ==
    ASSUME Shaped, NEW c \in Clients, Historic,
           ReadCounter(c) \/ AllocExtent(c) \/ DiskError(c) \/ ExtentLost(c)
    PROVE  Noted(c) /\ Turns(c)
<1>1. /\ script' = script /\ history' = history
      /\ at[c] \in {"extents", "counted"} /\ at'[c] \in {"extents", "counted"}
  BY DrawAlone
<1> QED BY <1>1, SameNoted DEF Turns, GoesOn, Making

-----------------------------------------------------------------------------
(* Lookups that find nothing *)

\* dbLookUp: what it does not find was not there before.
LEMMA NothingThere ==
    ASSUME CreateInv, NEW P, Paths(P), NEW c \in Clients, Snapshot(c), at[c] = "walk",
           EntriesNamed(Pair(c), Cmd(c).dir, Cmd(c).name) = {}
    PROVE  Missing(c, P, my[c].pos)
<1> SUFFICES ASSUME NEW p \in Pairs, NEW i \in 1..before[c][p], First(p, i),
                    P[To(p, i)] = SubSeq(Path(c), 1, my[c].pos)
             PROVE  FALSE
  BY DEF Missing
<1>1. Path(c) \in Seq(STRING) /\ Len(Path(c)) \in Nat
  BY CallGiven DEF CreateInv, Paths, Scripted
<1>2. my[c].pos \in 1..Len(Path(c)) /\ Cmd(c).name = Path(c)[my[c].pos]
      /\ Here(c) \in DOMAIN P /\ P[Here(c)] = SubSeq(Path(c), 1, my[c].pos - 1)
  <2>1. Walks(c, P) /\ Depth(c) = Len(Path(c))
    BY DEF Paths, Depth
  <2> QED BY <2>1 DEF Walks, LiesAt
<1>3. Append(P[Here(c)], Cmd(c).name) = SubSeq(Path(c), 1, my[c].pos)
  <2> DEFINE s == Path(c)
             n == my[c].pos
  <2>1. /\ s \in Seq(STRING) /\ n \in 1..Len(s)
        /\ P[Here(c)] = SubSeq(s, 1, n - 1) /\ Cmd(c).name = s[n]
    BY <1>1, <1>2
  <2> HIDE DEF s, n
  <2>2. Append(SubSeq(s, 1, n - 1), s[n]) = SubSeq(s, 1, n)
    BY <2>1, PathOneLonger
  <2> QED BY <2>1, <2>2 DEF s, n
<1>4. i \in DOMAIN names[p] /\ names[p] \in Seq(Range(names[p]))
  BY DEF Snapshot, CreateInv, Tables
<1>5. /\ From(p, i) \in DOMAIN P /\ names[p][i].name \in STRING
      /\ P[To(p, i)] = Append(P[From(p, i)], names[p][i].name)
  BY <1>4 DEF Paths, Leads
<1>6. /\ P[From(p, i)] \in Seq(STRING) /\ P[Here(c)] \in Seq(STRING)
      /\ P[From(p, i)] = P[Here(c)] => From(p, i) = Here(c)
  BY <1>2, <1>5 DEF Paths, Rooted
<1>7. Cmd(c).name \in STRING
  <2> DEFINE s == Path(c)
  <2>1. s \in Seq(STRING) /\ my[c].pos \in 1..Len(s)
    BY <1>1, <1>2
  <2> HIDE DEF s
  <2>2. s[my[c].pos] \in STRING
    BY <2>1
  <2> QED BY <1>2, <2>2 DEF s
<1>8. P[From(p, i)] = P[Here(c)] /\ names[p][i].name = Cmd(c).name
  <2> DEFINE s == P[From(p, i)]
             t == P[Here(c)]
  <2>1. /\ s \in Seq(STRING) /\ t \in Seq(STRING)
        /\ Append(s, names[p][i].name) = Append(t, Cmd(c).name)
    BY <1>3, <1>5, <1>6
  <2> HIDE DEF s, t
  <2>2. s = t /\ names[p][i].name = Cmd(c).name
    BY <1>5, <1>7, <2>1, AppendOnce
  <2> QED BY <2>2 DEF s, t
<1>9. p = Pair(c) /\ names[p][i].dir = Cmd(c).dir
  <2>1. From(p, i) = Here(c)
    BY <1>6, <1>8
  <2> QED BY <2>1 DEF From, Here
<1>10. i \in 1..Len(names[p])
  BY <1>4
<1>11. i \in EntriesNamed(Pair(c), Cmd(c).dir, Cmd(c).name)
  BY <1>8, <1>9, <1>10 DEF EntriesNamed
<1> QED BY <1>11

LEMMA RequestMisses ==
    ASSUME CreateInv, NEW P, Paths(P), NEW c \in Clients, Snapshot(c), Misses(c, P), at[c] = "walk",
           Retry(c) \/ TransmissionFails(c) \/ Work(c), Unfound(c)'
    PROVE  Missing(c, P, my[c].pos)
<1>1. Shaped /\ Obeys(c)
  BY DEF CreateInv, Sound
<1>2. CASE Retry(c)
  <2>1. Serve(c, <<Pair(c), "backup">>, Cmd(c)) /\ Cmd(c).op = "lookup"
    BY <1>1, <1>2 DEF Retry, Obeys, Serves
  <2>2. PICK cmd, srv : cmd = Cmd(c) /\ srv = <<Pair(c), "backup">>
    OBVIOUS
  <2>3. job'[c].at = FirstStep(cmd.op)
    <3>1. Serve(c, srv, cmd)
      BY <2>1, <2>2
    <3>2. job'[c] = [at |-> FirstStep(cmd.op), srv |-> srv, cmd |-> cmd, rows |-> <<>>,
                     status |-> "none"]
      BY <1>1, <3>1, ServeTurns
    <3> QED BY <3>2
  <2>4. job'[c].at = "select name"
    BY <2>1, <2>2, <2>3, FirstSteps
  <2> QED BY <2>4 DEF Unfound, Answered
<1>3. CASE TransmissionFails(c)
  <2>1. Answered(c)' /\ job'[c].status = "transmission_failed"
    BY <1>1, <1>3, AnswerTurns DEF TransmissionFails
  <2> QED BY <2>1 DEF Unfound, Answered
<1>4. CASE OutOfSync(c)
  <2>1. Answered(c)' /\ job'[c].status = "db_error"
    BY <1>1, <1>4, AnswerTurns DEF OutOfSync
  <2> QED BY <2>1 DEF Unfound, Answered
<1>5. CASE LookUpStored(c)
  <2>1. job[c].at = "name"
    BY <1>5 DEF LookUpStored, Store
  <2>2. CASE job[c].rows = <<>>
    BY <2>1, <2>2 DEF Misses, Unfound
  <2>3. CASE job[c].rows # <<>>
    <3>1. Answered(c)' /\ job'[c].status = "ok"
      BY <1>1, <1>5, <2>3, AnswerTurns DEF LookUpStored
    <3> QED BY <3>1 DEF Unfound, Answered
  <2> QED BY <2>2, <2>3
<1>6. CASE LookUp(c)
  <2> DEFINE found == EntriesNamed(Pair(c), Cmd(c).dir, Cmd(c).name)
             rows == IF found = {} THEN <<>> ELSE <<FirstRow(Pair(c), found)>>
  <2>1. Then(c, "name", rows)
    BY <1>6 DEF LookUp, NameRows, Select, Then
  <2>2. found # {} => rows # <<>>
    OBVIOUS
  <2> HIDE DEF rows
  <2>3. job'[c].at = "name" /\ job'[c].rows = rows
    BY <1>1, <2>1, ThenTurns
  <2>4. found = {}
    BY <2>2, <2>3 DEF Unfound, Answered
  <2> QED BY <2>4, NothingThere
<1> QED BY <1>1, <1>2, <1>3, <1>4, <1>5, <1>6, WalkingServed DEF Work

\* A step that names nothing.
LEMMA StepMisses ==
    ASSUME CreateInv, NEW P, Paths(P), Before(P), NEW c \in Clients, Acts(c), names' = names
    PROVE  Noted(c) /\ Misses(c, P)'
<1>1. Shaped /\ Obeys(c) /\ Tables /\ Historic /\ Snapshot(c) /\ Misses(c, P) /\ Leads(P)
  BY DEF CreateInv, Sound, Before, Paths
<1>2. Grows /\ Extends(P, P)
  BY DEF Grows, Extends
<1>3. CASE Retry(c) \/ TransmissionFails(c) \/ Work(c)
  <2>1. history' = history /\ at' = at /\ my' = my /\ script' = script
    BY <1>3 DEF Retry, TransmissionFails, Work, Serving, client
  <2>2. Noted(c) /\ before'[c] = before[c] /\ trouble'[c] = trouble[c]
    BY <1>1, <2>1, SameNoted
  <2>3. ASSUME at[c] = "walk", Unfound(c)' PROVE Missing(c, P, my[c].pos)'
    <3>1. PICK k : k = my[c].pos
      OBVIOUS
    <3>2. Missing(c, P, k)
      BY <1>1, <1>3, <2>3, <3>1, RequestMisses
    <3>3. Missing(c, P, k)'
      BY <1>1, <1>2, <2>1, <2>2, <3>2, MissingKept
    <3>4. my[c].pos' = k
      BY <2>1, <3>1
    <3> QED BY <3>3, <3>4 DEF Missing
  <2>4. MissesAny(c, P) => MissesAny(c, P)'
    BY <1>1, <1>2, <2>1, <2>2, MissesAnyKept
  <2> QED BY <1>1, <2>1, <2>2, <2>3, <2>4 DEF Misses
<1>4. CASE Noted(c) /\ Turns(c)
  <2>1. CASE at'[c] \notin Making \cup {"walk"}
    BY <1>4, <2>1 DEF Misses
  <2>2. CASE at'[c] = "walk" /\ ~Unfound(c)'
    BY <1>4, <2>2 DEF Misses, Making
  <2>3. CASE at'[c] \in Making /\ GoesOn(c)
    <3>1. MissesAny(c, P) => MissesAny(c, P)'
      BY <1>1, <1>2, <2>3, MissesAnyKept DEF GoesOn
    <3>2. ~trouble'[c] => MissesAny(c, P)
      <4>1. CASE at[c] \in Making /\ trouble'[c] = trouble[c]
        BY <1>1, <4>1 DEF Misses
      <4>2. CASE at[c] = "walk" /\ Failed(c) /\ job[c].status = "no_such_record"
        <5>1. Missing(c, P, my[c].pos)
          BY <1>1, <4>2 DEF Misses, Unfound, Failed
        <5>2. my[c].pos \in 1..Len(Path(c))
          BY <4>2 DEF Paths, Walks, Depth
        <5> QED BY <5>1, <5>2 DEF MissesAny
      <4> QED BY <2>3, <4>1, <4>2 DEF GoesOn
    <3> QED BY <1>4, <2>3, <3>1, <3>2 DEF Misses, Making
  <2> QED BY <1>4, <2>1, <2>2, <2>3 DEF Turns
<1>5. CASE Start(c) \/ GoOn(c) \/ WalkOn(c) \/ Found(c) \/ NotThere(c) \/ ParentFound(c)
  BY <1>1, <1>4, <1>5, WalkNoted DEF GoOn
<1>6. CASE \/ ExtentsDone(c) \/ InodeDone(c) \/ AttributesDone(c)
           \/ NameDone(c) \/ StatDone(c) \/ GiveUp(c) \/ ListPage(c)
  BY <1>1, <1>4, <1>6, CallNoted
<1>7. CASE ReadCounter(c) \/ AllocExtent(c) \/ DiskError(c) \/ ExtentLost(c)
  BY <1>1, <1>4, <1>7, DrawNoted
<1> QED BY <1>3, <1>5, <1>6, <1>7 DEF Acts, Step

-----------------------------------------------------------------------------
(* What was there before stays missing until the name is made *)

LEMMA BeforeKept ==
    ASSUME CreateInv, NEW P, NEW Q, Paths(P), Before(P), Extends(Q, P), NEW c \in Clients, Alone(c),
           Grows, Noted(c), Snapshot(c)', Misses(c, Q)'
    PROVE  Before(Q)'
<1>1. Tables /\ Leads(P)
  BY DEF CreateInv, Paths
<1>2. ASSUME NEW d \in Clients \ {c} PROVE Snapshot(d)' /\ Misses(d, Q)'
  <2>1. /\ before'[d] = before[d] /\ trouble'[d] = trouble[d] /\ script'[d] = script[d]
        /\ job'[d] = job[d] /\ my'[d] = my[d] /\ at'[d] = at[d] /\ Snapshot(d) /\ Misses(d, P)
    BY DEF Noted, Alone, Before
  <2> QED BY <1>1, <2>1, SnapshotKept, MissesKept
<1> QED BY <1>2 DEF Before, Noted

LEMMA BeforeGoesOn ==
    ASSUME CreateInv, NEW P, Paths(P), Before(P), [Next]_vars, ~crossed'
    PROVE  \E Q : Extends(Q, P) /\ Paths(Q)' /\ Before(Q)'
<1>1. Tables /\ Leads(P) /\ Led(P) /\ Historic /\ \A d \in Clients : Snapshot(d) /\ Misses(d, P)
  BY DEF CreateInv, Paths, Before
<1>2. PICK Q : Extends(Q, P) /\ Paths(Q)'
  BY PathsGoOn
<1>3. CASE UNCHANGED <<metaVars, dataVars, client, dlock, scenario, history>>
  <2>1. /\ names' = names /\ job' = job /\ my' = my /\ at' = at /\ script' = script
        /\ before' = before /\ trouble' = trouble
    BY <1>3 DEF metaVars, tables, client, history
  <2>2. Grows
    BY <2>1 DEF Grows
  <2>3. \A d \in Clients : Snapshot(d)' /\ Misses(d, Q)'
    BY <1>1, <1>2, <2>1, <2>2, SnapshotKept, MissesKept
  <2> QED BY <1>1, <1>2, <2>1, <2>3 DEF Before, Historic
<1>4. ASSUME NEW c \in Clients, Acts(c) PROVE \E R : Extends(R, P) /\ Paths(R)' /\ Before(R)'
  <2>1. Alone(c)
    BY <1>4, StepAlone DEF CreateInv, Sound
  <2>2. CASE KeepsOwn(c, P) /\ names' = names /\ scenario' = scenario
    <3>1. Grows /\ Extends(P, P)
      BY <2>2 DEF Grows, Extends
    <3>2. WritesOwn(c)
      BY <1>4, StepWrites DEF CreateInv, Sound
    <3>3. (Scripted(c) /\ Walks(c, P) /\ MakesIn(c, P))'
      BY <2>2 DEF KeepsOwn
    <3>4. Paths(P)'
      BY <2>1, <2>2, <3>2, <3>3, PathsStay
    <3>5. Noted(c) /\ Misses(c, P)'
      BY <1>4, <2>2, StepMisses
    <3>6. Snapshot(c)'
      BY <1>1, <2>2, <3>1, <3>5, SnapshotKept, SnapshotTaken DEF Noted
    <3>7. Before(P)'
      BY <2>1, <3>1, <3>5, <3>6, BeforeKept
    <3> QED BY <3>1, <3>4, <3>7
  <2>3. CASE Work(c) /\ AddDirent(c)
    <3>1. Grows /\ at[c] = "name"
      BY <2>3, NameAdded DEF Added
    <3>2. history' = history /\ at' = at /\ my' = my /\ script' = script
      BY <2>3 DEF Work, Serving, client
    <3>3. Noted(c) /\ before'[c] = before[c] /\ trouble'[c] = trouble[c]
      BY <1>1, <3>2, SameNoted
    <3>4. Snapshot(c)'
      BY <1>1, <3>1, <3>3, SnapshotKept
    <3>5. MissesAny(c, P) => MissesAny(c, Q)'
      BY <1>1, <1>2, <3>1, <3>2, <3>3, MissesAnyKept
    <3>6. Misses(c, Q)'
      BY <1>1, <3>1, <3>2, <3>3, <3>5 DEF Misses
    <3>7. Before(Q)'
      BY <1>2, <2>1, <3>1, <3>3, <3>4, <3>6, BeforeKept
    <3> QED BY <1>2, <3>7
  <2> QED BY <1>4, <2>2, <2>3, StepKeeps
<1> QED BY <1>2, <1>3, <1>4, WhoActs

\* Every file a lookup can find has a path, and what a call did not find was not
\* there when it began to look.
BeforeInv == \E P : Paths(P) /\ Before(P)

LEMMA BeforeFirst == Init => BeforeInv
<1> SUFFICES ASSUME Init PROVE BeforeInv
  OBVIOUS
<1>1. PICK P : Paths(P)
  BY PathsFirst DEF PathsInv
<1>2. /\ at = [c \in Clients |-> "idle"] /\ trouble = [c \in Clients |-> FALSE]
      /\ before = [c \in Clients |-> NothingSeen]
  BY DEF Init
<1>3. \A c \in Clients : Misses(c, P)
  BY <1>2 DEF Misses, Making
<1>4. \A c \in Clients : Snapshot(c)
  BY <1>2 DEF Snapshot, NothingSeen
<1> QED BY <1>1, <1>2, <1>3, <1>4 DEF BeforeInv, Before, Historic

LEMMA BeforeInvariant == Spec => [](crossed \/ BeforeInv)
<1>1. ASSUME CreateInv, BeforeInv, [Next]_vars, ~crossed' PROVE BeforeInv'
  <2>1. PICK P : Paths(P) /\ Before(P)
    BY <1>1 DEF BeforeInv
  <2>2. PICK Q : Paths(Q)' /\ Before(Q)'
    BY <1>1, <2>1, BeforeGoesOn
  <2> QED BY <2>2 DEF BeforeInv
<1> QED BY <1>1, BeforeFirst, CrossedLasts, CreateInvariant, PTL DEF Spec

-----------------------------------------------------------------------------
(* A name is made once *)

\* So much of the path of a call led somewhere when it began to look.
Reached(c, P, n) ==
    \E p \in Pairs : \E i \in 1..before[c][p] : First(p, i) /\ P[To(p, i)] = SubSeq(Path(c), 1, n)

\* Then so did all that comes before it.
LEMMA ReachedBefore ==
    ASSUME CreateInv, NEW P, Paths(P), NEW c \in Clients, Snapshot(c), Path(c) \in Seq(STRING),
           NEW n \in 1..Len(Path(c)), n > 1, Reached(c, P, n)
    PROVE  Reached(c, P, n - 1)
<1>1. PICK p \in Pairs : \E i \in 1..before[c][p] :
         First(p, i) /\ P[To(p, i)] = SubSeq(Path(c), 1, n)
  BY DEF Reached
<1>2. PICK i \in 1..before[c][p] : First(p, i) /\ P[To(p, i)] = SubSeq(Path(c), 1, n)
  BY <1>1
<1>3. i \in DOMAIN names[p]
  BY DEF Snapshot
<1>4. /\ From(p, i) \in DOMAIN P /\ names[p][i].name \in STRING /\ P[From(p, i)] \in Seq(STRING)
      /\ P[To(p, i)] = Append(P[From(p, i)], names[p][i].name)
  BY <1>2, <1>3 DEF Paths, Leads, Rooted
<1>5. P[From(p, i)] = SubSeq(Path(c), 1, n - 1) /\ P[From(p, i)] # <<>>
  <2> DEFINE s == P[From(p, i)]
             u == Path(c)
             t == SubSeq(u, 1, n - 1)
  <2>1. /\ s \in Seq(STRING) /\ u \in Seq(STRING) /\ n \in 1..Len(u)
        /\ Append(t, u[n]) = SubSeq(u, 1, n)
    BY <1>4, PathOneLonger
  <2>2. Append(s, names[p][i].name) = Append(t, u[n])
    BY <1>2, <1>4, <2>1
  <2> HIDE DEF s, u
  <2>3. t \in Seq(STRING) /\ u[n] \in STRING /\ Len(t) = n - 1
    BY <2>1
  <2> HIDE DEF t
  <2>4. s = t
    <3>1. PICK a \in STRING : a = names[p][i].name
      BY <1>4
    <3>2. PICK b \in STRING : b = u[n]
      BY <2>3
    <3>3. s \in Seq(STRING) /\ Append(s, a) = Append(t, b)
      BY <2>1, <2>2, <3>1, <3>2
    <3> QED BY <2>3, <3>1, <3>2, <3>3, AppendOnce
  <2>5. t # <<>>
    BY <2>3
  <2> QED BY <2>4, <2>5 DEF s, t, u
<1>6. From(p, i) # RootInode
  BY <1>5 DEF Paths, Rooted
<1>7. PICK q \in Pairs : \E j \in 1..before[c][q] : To(q, j) = From(p, i)
  BY <1>6 DEF Snapshot
<1>8. PICK j \in 1..before[c][q] : To(q, j) = From(p, i)
  BY <1>7
<1>9. j \in DOMAIN names[q]
  BY DEF Snapshot
<1>10. PICK r \in Pairs : \E k \in DOMAIN names[r] : First(r, k) /\ To(r, k) = From(p, i)
  BY <1>4, <1>6 DEF Paths, Led
<1>11. First(q, j)
  BY <1>8, <1>9, <1>10 DEF Paths, NamedOnce
<1> QED BY <1>5, <1>8, <1>11 DEF Reached

LEMMA ReachedMisses ==
    ASSUME CreateInv, NEW P, Paths(P), NEW c \in Clients, Snapshot(c), Path(c) \in Seq(STRING),
           Len(Path(c)) >= 1, MissesAny(c, P)
    PROVE  ~Reached(c, P, Len(Path(c)))
<1> SUFFICES ASSUME Reached(c, P, Len(Path(c))) PROVE FALSE
  OBVIOUS
<1>1. Len(Path(c)) \in Nat
  OBVIOUS
<1>2. PICK k \in 1..Len(Path(c)) : Missing(c, P, k)
  BY DEF MissesAny
<1> DEFINE T == {n \in k..Len(Path(c)) : Reached(c, P, n)}
<1>3. T \in SUBSET Nat /\ Len(Path(c)) \in T
  BY <1>1, <1>2
<1>4. PICK n \in T : \A m \in T : n <= m
  BY <1>3, LeastIsThere
<1>5. n # k
  BY <1>2 DEF Missing, Reached
<1>6. n \in 1..Len(Path(c)) /\ n > 1 /\ n - 1 \in k..Len(Path(c)) /\ Reached(c, P, n)
  BY <1>1, <1>2, <1>4, <1>5
<1>7. Reached(c, P, n - 1)
  BY <1>6, ReachedBefore
<1> QED BY <1>4, <1>6, <1>7

\* Of the rows of a name the first is what a lookup finds.
LEMMA FirstOfName ==
    ASSUME Tables, NEW p \in Pairs, NEW i \in DOMAIN names[p]
    PROVE  \E j \in DOMAIN names[p] :
              /\ j \in 1..i /\ First(p, j)
              /\ names[p][j].dir = names[p][i].dir /\ names[p][j].name = names[p][i].name
<1>1. DOMAIN names[p] = 1..Len(names[p]) /\ Len(names[p]) \in Nat
  <2>1. names[p] \in Seq(Range(names[p]))
    BY DEF Tables
  <2> QED BY <2>1
<1> DEFINE Same(k) == names[p][k].dir = names[p][i].dir /\ names[p][k].name = names[p][i].name
           T == {k \in 1..Len(names[p]) : Same(k)}
<1>2. i \in T /\ T \in SUBSET Nat
  BY <1>1
<1>3. PICK j \in T : \A k \in T : j <= k
  BY <1>2, LeastIsThere
<1>4. j \in 1..Len(names[p]) /\ Same(j) /\ j \in 1..i
  BY <1>2, <1>3
<1>5. First(p, j)
  <2> SUFFICES ASSUME NEW k \in 1..j - 1, Same(k) PROVE FALSE
    BY <1>4 DEF First
  <2>1. k \in 1..Len(names[p]) /\ k < j
    BY <1>1, <1>4
  <2>2. j <= k
    BY <1>3, <2>1
  <2> QED BY <1>4, <2>1, <2>2
<1> QED BY <1>1, <1>4, <1>5

LEMMA PartOfRange == \A b \in Nat : \A k \in 1..b : 1..k \subseteq 1..b
  OBVIOUS

LEMMA WholePath ==
    ASSUME NEW s \in Seq(STRING), Len(s) >= 1
    PROVE  Append(SubSeq(s, 1, Len(s) - 1), s[Len(s)]) = SubSeq(s, 1, Len(s))
<1>1. Len(s) \in 1..Len(s)
  OBVIOUS
<1> QED BY <1>1, PathOneLonger

LEMMA NameNotThere ==
    ASSUME CreateInv, NEW P, Paths(P), Before(P), NEW c \in Clients, job[c].at = "insert name",
           ~trouble[c]
    PROVE  \A i \in 1..before[c][Pair(c)] :
              ~(names[Pair(c)][i].dir = Cmd(c).dir /\ names[Pair(c)][i].name = Cmd(c).name)
<1>1. Obeys(c) /\ Tables /\ Snapshot(c) /\ Misses(c, P)
  BY DEF CreateInv, Sound, Before
<1>2. at[c] = "name" /\ MissesAny(c, P)
  BY <1>1, WhereServed DEF Misses, Making
<1>3. Path(c) \in Seq(STRING) /\ Len(Path(c)) >= 1
  BY <1>2, CallGiven DEF CreateInv, Paths, Scripted, MakesIn
<1>4. /\ Here(c) \in DOMAIN P /\ P[Here(c)] = SubSeq(Path(c), 1, Len(Path(c)) - 1)
      /\ Cmd(c).name = Path(c)[Len(Path(c))]
  BY <1>2 DEF Paths, MakesIn, LiesAt
<1>5. Append(P[Here(c)], Cmd(c).name) = SubSeq(Path(c), 1, Len(Path(c)))
  BY <1>3, <1>4, WholePath
<1>6. Pair(c) \in Pairs
  <2>1. Settled(Here(c).pair, Here(c).handle)
    BY <1>4, FoundSettled DEF Paths
  <2> QED BY <2>1 DEF Here, Settled, Complete
<1>7. PICK p \in Pairs : p = Pair(c)
  BY <1>6
<1> SUFFICES ASSUME NEW i \in 1..before[c][p],
                    names[p][i].dir = Cmd(c).dir, names[p][i].name = Cmd(c).name
             PROVE  FALSE
  BY <1>7
<1>8. before[c][p] \in Nat /\ i \in DOMAIN names[p]
  BY <1>1 DEF Snapshot
<1>9. PICK j \in DOMAIN names[p] :
         /\ j \in 1..i /\ First(p, j)
         /\ names[p][j].dir = names[p][i].dir /\ names[p][j].name = names[p][i].name
  BY <1>1, <1>8, FirstOfName
<1>10. j \in 1..before[c][p]
  <2>1. 1..i \subseteq 1..before[c][p]
    BY <1>8, PartOfRange
  <2> QED BY <1>9, <2>1
<1>11. From(p, j) = Here(c)
  BY <1>7, <1>9 DEF From, Here
<1>12. P[To(p, j)] = SubSeq(Path(c), 1, Len(Path(c)))
  BY <1>5, <1>9, <1>11 DEF Paths, Leads
<1>13. Reached(c, P, Len(Path(c)))
  BY <1>9, <1>10, <1>12 DEF Reached
<1> QED BY <1>1, <1>2, <1>3, <1>13, ReachedMisses

\* hfs_create ("absolutely right to assume that the file does not exist"):
\* unless a lookup ended in an error, or statements have crossed, a name is made
\* a second time only if the first came after the lookup began.
THEOREM NamesAreMadeOnce == Spec => NoDuplicateInSequence
<1>1. ASSUME crossed \/ CreateInv, crossed \/ BeforeInv
      PROVE  \A c \in Clients :
                (names' # names /\ job[c].at = "insert name" /\ job'[c].at = "answered"
                   /\ job'[c].status = "ok" /\ ~trouble[c] /\ ~crossed) =>
                      \A i \in 1..before[c][Pair(c)] :
                          ~(/\ names[Pair(c)][i].dir = Cmd(c).dir
                            /\ names[Pair(c)][i].name = Cmd(c).name)
  BY <1>1, NameNotThere DEF BeforeInv
<1> QED BY <1>1, CreateInvariant, BeforeInvariant, PTL DEF NoDuplicateInSequence

-----------------------------------------------------------------------------
(* The rows of a directory *)

\* The rows of the directory among the first so many.
Collects(f, rows, dir, m) ==
    f = [n \in 0..m |-> IF n = 0 THEN <<>>
                        ELSE IF rows[n].dir = dir THEN Append(f[n - 1], rows[n])
                        ELSE f[n - 1]]

LEMMA CollectorGrows ==
    ASSUME NEW rows, NEW dir, NEW m \in Nat, m > 0, NEW g, Collects(g, rows, dir, m - 1)
    PROVE  \E f : Collects(f, rows, dir, m)
<1> DEFINE f == [n \in 0..m |-> IF n = 0 THEN <<>>
                                ELSE IF rows[n].dir = dir THEN Append(g[n - 1], rows[n])
                                ELSE g[n - 1]]
<1>1. ASSUME NEW n \in 0..m - 1 PROVE f[n] = g[n]
  <2>1. n \in 0..m
    OBVIOUS
  <2>2. g[n] = IF n = 0 THEN <<>>
               ELSE IF rows[n].dir = dir THEN Append(g[n - 1], rows[n])
               ELSE g[n - 1]
    BY DEF Collects
  <2> QED BY <2>1, <2>2
<1>2. \A n \in 0..m : n # 0 => n - 1 \in 0..m - 1
  OBVIOUS
<1>3. \A n \in 0..m :
         f[n] = IF n = 0 THEN <<>>
                ELSE IF rows[n].dir = dir THEN Append(f[n - 1], rows[n])
                ELSE f[n - 1]
  BY <1>1, <1>2
<1>4. f = [n \in 0..m |-> f[n]]
  OBVIOUS
<1> HIDE DEF f
<1>5. Collects(f, rows, dir, m)
  BY <1>3, <1>4 DEF Collects
<1> QED BY <1>5

LEMMA CollectorIsThere ==
    ASSUME NEW rows, NEW dir, NEW m \in Nat
    PROVE  \E f : Collects(f, rows, dir, m)
<1> DEFINE T == {n \in Nat : ~\E f : Collects(f, rows, dir, n)}
<1> SUFFICES ASSUME T # {} PROVE FALSE
  OBVIOUS
<1>1. PICK n \in T : \A k \in T : n <= k
  BY LeastIsThere
<1>2. CASE n = 0
  <2>1. Collects([k \in {0} |-> <<>>], rows, dir, 0)
    <3>1. 0..0 = {0}
      OBVIOUS
    <3> QED BY <3>1 DEF Collects
  <2> QED BY <1>1, <1>2, <2>1
<1>3. CASE n # 0
  <2>1. n \in Nat /\ n > 0 /\ n - 1 \in Nat /\ n - 1 \notin T
    BY <1>1, <1>3
  <2>2. \E f : Collects(f, rows, dir, n - 1)
    BY <2>1
  <2>3. PICK g : Collects(g, rows, dir, n - 1)
    BY <2>2
  <2>4. \E f : Collects(f, rows, dir, n)
    BY <2>1, <2>3, CollectorGrows
  <2> QED BY <1>1, <2>4
<1> QED BY <1>2, <1>3

LEMMA InDirectoryCollects ==
    ASSUME NEW rows, NEW dir, Len(rows) \in Nat
    PROVE  \E f : Collects(f, rows, dir, Len(rows)) /\ InDirectory(rows, dir) = f[Len(rows)]
<1> DEFINE F == CHOOSE f : Collects(f, rows, dir, Len(rows))
<1>1. Collects(F, rows, dir, Len(rows))
  BY CollectorIsThere
<1>2. InDirectory(rows, dir) = F[Len(rows)]
  BY DEF InDirectory, Collects
<1> QED BY <1>1, <1>2

\* It adds rows of the directory only, and each.
Chosen(s, rows, dir, n) ==
    /\ s \in Seq(Range(rows))
    /\ \A j \in 1..Len(s) : \E i \in 1..n : s[j] = rows[i] /\ rows[i].dir = dir
    /\ \A i \in 1..n : rows[i].dir = dir => \E j \in 1..Len(s) : s[j] = rows[i]

Different(s) == \A i, j \in 1..Len(s) : s[i] = s[j] => i = j

LEMMA AppendedTo ==
    ASSUME NEW S, NEW s \in Seq(S), NEW r \in S
    PROVE  /\ Append(s, r) \in Seq(S) /\ Len(Append(s, r)) = Len(s) + 1 /\ Len(s) \in Nat
           /\ Append(s, r)[Len(s) + 1] = r
           /\ \A j \in 1..Len(s) : Append(s, r)[j] = s[j]
  OBVIOUS

LEMMA ChoosesOn ==
    ASSUME NEW rows, NEW dir, NEW n \in Nat, n + 1 \in DOMAIN rows, NEW s, Chosen(s, rows, dir, n),
           1..n + 1 \subseteq DOMAIN rows, rows[n + 1].dir = dir
    PROVE  /\ Chosen(Append(s, rows[n + 1]), rows, dir, n + 1)
           /\ (Different(s) /\ \A i \in 1..n : rows[i] # rows[n + 1])
                 => Different(Append(s, rows[n + 1]))
<1> DEFINE t == Append(s, rows[n + 1])
<1>1. rows[n + 1] \in Range(rows) /\ s \in Seq(Range(rows))
  BY DEF Range, Chosen
<1>2. /\ t \in Seq(Range(rows)) /\ Len(t) = Len(s) + 1 /\ Len(s) \in Nat
      /\ t[Len(s) + 1] = rows[n + 1] /\ \A j \in 1..Len(s) : t[j] = s[j]
  BY <1>1, AppendedTo
<1> HIDE DEF t
<1>3. 1..n + 1 = 1..n \cup {n + 1} /\ 1..Len(t) = 1..Len(s) \cup {Len(s) + 1}
  BY <1>2
<1>4. ASSUME NEW j \in 1..Len(t) PROVE \E i \in 1..n + 1 : t[j] = rows[i] /\ rows[i].dir = dir
  BY <1>2, <1>3 DEF Chosen
<1>5. ASSUME NEW i \in 1..n + 1, rows[i].dir = dir PROVE \E j \in 1..Len(t) : t[j] = rows[i]
  <2>1. CASE i = n + 1
    BY <1>2, <1>3, <2>1
  <2>2. CASE i \in 1..n
    <3>1. PICK j \in 1..Len(s) : s[j] = rows[i]
      BY <1>5, <2>2 DEF Chosen
    <3> QED BY <1>2, <1>3, <3>1
  <2> QED BY <1>3, <2>1, <2>2
<1>6. Chosen(t, rows, dir, n + 1)
  BY <1>2, <1>4, <1>5 DEF Chosen
<1>7. ASSUME Different(s), \A i \in 1..n : rows[i] # rows[n + 1] PROVE Different(t)
  <2>1. \A j \in 1..Len(s) : t[j] # rows[n + 1]
    BY <1>2, <1>7 DEF Chosen
  <2> QED BY <1>2, <1>3, <1>7, <2>1 DEF Different
<1> QED BY <1>6, <1>7 DEF t

LEMMA CollectedChosen ==
    ASSUME NEW rows, NEW dir, Len(rows) \in Nat, DOMAIN rows = 1..Len(rows),
           NEW f, Collects(f, rows, dir, Len(rows)), NEW m \in 0..Len(rows)
    PROVE  Chosen(f[m], rows, dir, m) /\ (Different(rows) => Different(f[m]))
<1> DEFINE Right(n) == Chosen(f[n], rows, dir, n) /\ (Different(rows) => Different(f[n]))
           T == {n \in 0..Len(rows) : ~Right(n)}
<1> SUFFICES ASSUME T # {} PROVE FALSE
  OBVIOUS
<1>1. T \in SUBSET Nat
  OBVIOUS
<1>2. PICK n \in T : \A k \in T : n <= k
  BY <1>1, LeastIsThere
<1>3. CASE n = 0
  <2>1. f[0] = <<>>
    BY DEF Collects
  <2>2. Chosen(<<>>, rows, dir, 0) /\ Different(<<>>)
    <3>1. <<>> \in Seq(Range(rows)) /\ 1..0 = {} /\ Len(<<>>) = 0
      OBVIOUS
    <3> QED BY <3>1 DEF Chosen, Different
  <2> QED BY <1>2, <1>3, <2>1, <2>2
<1>4. CASE n # 0
  <2>1. n \in 1..Len(rows) /\ n - 1 \in 0..Len(rows) /\ n - 1 \in Nat /\ n \in Nat /\ (n - 1) + 1 = n
    BY <1>2, <1>4
  <2>2. Right(n - 1)
    <3>1. n - 1 \notin T
      BY <1>2, <2>1
    <3> QED BY <2>1, <3>1
  <2>3. f[n] = IF rows[n].dir = dir THEN Append(f[n - 1], rows[n]) ELSE f[n - 1]
    BY <1>4, <2>1 DEF Collects
  <2>4. CASE rows[n].dir = dir
    <3>1. Different(rows) => \A i \in 1..n - 1 : rows[i] # rows[n]
      BY <2>1 DEF Different
    <3>2. PICK k \in Nat : k = n - 1
      BY <2>1
    <3>3. k + 1 = n /\ k + 1 \in DOMAIN rows /\ 1..k + 1 \subseteq DOMAIN rows
      BY <2>1, <3>2
    <3>4. Chosen(f[k], rows, dir, k) /\ rows[k + 1].dir = dir
      BY <2>2, <2>4, <3>2, <3>3
    <3>5. /\ Chosen(Append(f[k], rows[k + 1]), rows, dir, k + 1)
          /\ (Different(f[k]) /\ \A i \in 1..k : rows[i] # rows[k + 1])
                => Different(Append(f[k], rows[k + 1]))
      BY <3>3, <3>4, ChoosesOn
    <3>6. Right(n)
      BY <2>2, <2>3, <2>4, <3>1, <3>2, <3>3, <3>5
    <3> QED BY <1>2, <3>6
  <2>5. CASE rows[n].dir # dir
    <3>1. f[n] = f[n - 1]
      BY <2>3, <2>5
    <3>2. 1..n = 1..n - 1 \cup {n}
      BY <2>1
    <3>3. Chosen(f[n], rows, dir, n - 1)
      BY <2>2, <3>1
    <3>4. PICK s : s = f[n]
      OBVIOUS
    <3>5. Chosen(s, rows, dir, n)
      <4>1. Chosen(s, rows, dir, n - 1)
        BY <3>3, <3>4
      <4>2. \A i \in 1..n : rows[i].dir = dir => \E j \in 1..Len(s) : s[j] = rows[i]
        BY <2>5, <3>2, <4>1 DEF Chosen
      <4>3. \A j \in 1..Len(s) : \E i \in 1..n : s[j] = rows[i] /\ rows[i].dir = dir
        BY <3>2, <4>1 DEF Chosen
      <4> QED BY <4>1, <4>2, <4>3 DEF Chosen
    <3> QED BY <1>2, <2>2, <3>1, <3>4, <3>5
  <2> QED BY <2>4, <2>5
<1> QED BY <1>3, <1>4

\* What a select returns: every row of the directory, and no row twice.
LEMMA InDirectoryChosen ==
    ASSUME NEW rows, NEW dir, rows \in Seq(Range(rows))
    PROVE  /\ Chosen(InDirectory(rows, dir), rows, dir, Len(rows))
           /\ (Different(rows) => Different(InDirectory(rows, dir)))
<1>1. Len(rows) \in Nat /\ DOMAIN rows = 1..Len(rows)
  OBVIOUS
<1>2. PICK f : Collects(f, rows, dir, Len(rows)) /\ InDirectory(rows, dir) = f[Len(rows)]
  BY <1>1, InDirectoryCollects
<1>3. Len(rows) \in 0..Len(rows)
  BY <1>1
<1> QED BY <1>1, <1>2, <1>3, CollectedChosen

\* A sequence that all begins with.
BeginsWith(all, s) ==
    s \in Seq(Range(s)) /\ Len(s) <= Len(all) /\ \A i \in 1..Len(s) : s[i] = all[i]

LEMMA OwnRange == ASSUME NEW S, NEW s \in Seq(S) PROVE s \in Seq(Range(s)) /\ Len(s) \in Nat
<1>1. Len(s) \in Nat /\ DOMAIN s = 1..Len(s) /\ s = [i \in 1..Len(s) |-> s[i]]
  OBVIOUS
<1>2. \A i \in 1..Len(s) : s[i] \in Range(s)
  BY <1>1 DEF Range
<1> QED BY <1>1, <1>2

LEMMA BeginsWithThat ==
    ASSUME NEW a, NEW b, NEW e, BeginsWith(b, a), BeginsWith(e, b), Len(e) \in Nat
    PROVE  BeginsWith(e, a)
<1>1. Len(a) \in Nat /\ Len(b) \in Nat
  BY DEF BeginsWith
<1> QED BY <1>1 DEF BeginsWith

\* More rows leave what was collected of the first of them.
LEMMA CollectedSame ==
    ASSUME NEW rows, NEW more, NEW dir, NEW m \in Nat, NEW k \in Nat, m <= k,
           \A i \in 1..m : more[i] = rows[i],
           NEW f, Collects(f, rows, dir, m), NEW g, Collects(g, more, dir, k)
    PROVE  f[m] = g[m]
<1> DEFINE T == {n \in 0..m : f[n] # g[n]}
<1> SUFFICES ASSUME T # {} PROVE FALSE
  <2>1. m \in 0..m
    OBVIOUS
  <2> QED BY <2>1
<1>1. T \in SUBSET Nat
  OBVIOUS
<1>2. PICK n \in T : \A j \in T : n <= j
  BY <1>1, LeastIsThere
<1>3. n \in 0..m /\ n \in 0..k
  OBVIOUS
<1>4. n # 0
  BY <1>2, <1>3 DEF Collects
<1>5. n \in 1..m /\ n - 1 \in 0..m /\ n - 1 \notin T
  BY <1>2, <1>3, <1>4
<1>6. f[n - 1] = g[n - 1] /\ rows[n] = more[n]
  BY <1>5
<1>7. f[n] = IF rows[n].dir = dir THEN Append(f[n - 1], rows[n]) ELSE f[n - 1]
  BY <1>3, <1>4 DEF Collects
<1>8. g[n] = IF more[n].dir = dir THEN Append(g[n - 1], more[n]) ELSE g[n - 1]
  BY <1>3, <1>4 DEF Collects
<1> QED BY <1>2, <1>6, <1>7, <1>8

\* And what comes of them is added at the end.
LEMMA CollectedOn ==
    ASSUME NEW rows, rows \in Seq(Range(rows)), NEW dir, NEW f, Collects(f, rows, dir, Len(rows)),
           NEW m \in 0..Len(rows)
    PROVE  BeginsWith(f[Len(rows)], f[m])
<1> DEFINE T == {n \in m..Len(rows) : ~BeginsWith(f[n], f[m])}
<1>1. Len(rows) \in Nat /\ DOMAIN rows = 1..Len(rows)
  OBVIOUS
<1>2. \A n \in 0..Len(rows) : f[n] \in Seq(Range(rows))
  BY <1>1, CollectedChosen DEF Chosen
<1>3. \A n \in 0..Len(rows) : f[n] \in Seq(Range(f[n])) /\ Len(f[n]) \in Nat
  BY <1>2, OwnRange
<1> SUFFICES ASSUME T # {} PROVE FALSE
  BY <1>1
<1>4. T \in SUBSET Nat
  BY <1>1
<1>5. PICK n \in T : \A j \in T : n <= j
  BY <1>4, LeastIsThere
<1>6. n \in m..Len(rows) /\ n \in 0..Len(rows)
  BY <1>1
<1>7. n # m
  BY <1>3, <1>5 DEF BeginsWith
<1>8. n \in 1..Len(rows) /\ n - 1 \in m..Len(rows) /\ n - 1 \notin T /\ n - 1 \in 0..Len(rows)
      /\ n # 0
  BY <1>1, <1>5, <1>6, <1>7
<1>9. BeginsWith(f[n - 1], f[m])
  BY <1>8
<1>10. f[n] = IF rows[n].dir = dir THEN Append(f[n - 1], rows[n]) ELSE f[n - 1]
  BY <1>6, <1>8 DEF Collects
<1>11. PICK s : s = f[n - 1]
  OBVIOUS
<1>12. PICK t : t = f[n]
  OBVIOUS
<1>13. CASE rows[n].dir = dir
  <2>1. t = Append(s, rows[n]) /\ s \in Seq(Range(rows)) /\ rows[n] \in Range(rows)
    BY <1>1, <1>2, <1>8, <1>10, <1>11, <1>12, <1>13 DEF Range
  <2>2. Len(t) = Len(s) + 1 /\ Len(s) \in Nat /\ \A j \in 1..Len(s) : t[j] = s[j]
    BY <2>1, AppendedTo
  <2>3. BeginsWith(t, s)
    BY <2>1, <2>2, OwnRange DEF BeginsWith
  <2>4. BeginsWith(t, f[m])
    BY <1>9, <1>11, <2>2, <2>3, BeginsWithThat
  <2> QED BY <1>5, <1>12, <2>4
<1>14. CASE rows[n].dir # dir
  BY <1>5, <1>9, <1>10, <1>14
<1> QED BY <1>13, <1>14

LEMMA InDirectoryGrows ==
    ASSUME NEW rows, rows \in Seq(Range(rows)), NEW more, more \in Seq(Range(more)), NEW dir,
           Len(rows) <= Len(more), \A i \in 1..Len(rows) : more[i] = rows[i]
    PROVE  BeginsWith(InDirectory(more, dir), InDirectory(rows, dir))
<1>1. Len(rows) \in Nat /\ Len(more) \in Nat /\ Len(rows) \in 0..Len(more)
  OBVIOUS
<1>2. PICK f : Collects(f, rows, dir, Len(rows)) /\ InDirectory(rows, dir) = f[Len(rows)]
  BY <1>1, InDirectoryCollects
<1>3. PICK g : Collects(g, more, dir, Len(more)) /\ InDirectory(more, dir) = g[Len(more)]
  BY <1>1, InDirectoryCollects
<1>4. f[Len(rows)] = g[Len(rows)]
  <2>1. PICK m \in Nat : m = Len(rows)
    BY <1>1
  <2>2. PICK k \in Nat : k = Len(more)
    BY <1>1
  <2>3. m <= k /\ Collects(f, rows, dir, m) /\ Collects(g, more, dir, k)
        /\ \A i \in 1..m : more[i] = rows[i]
    BY <1>2, <1>3, <2>1, <2>2
  <2>4. f[m] = g[m]
    BY <2>3, CollectedSame
  <2> QED BY <2>1, <2>4
<1>5. BeginsWith(g[Len(more)], g[Len(rows)])
  BY <1>1, <1>3, CollectedOn
<1> QED BY <1>2, <1>3, <1>4, <1>5

-----------------------------------------------------------------------------
(* Pages *)

LEMMA ConcatenatedTo ==
    ASSUME NEW S, NEW s \in Seq(S), NEW t \in Seq(S)
    PROVE  /\ s \o t \in Seq(S) /\ Len(s \o t) = Len(s) + Len(t)
           /\ \A i \in 1..Len(s) : (s \o t)[i] = s[i]
           /\ \A i \in Len(s) + 1..Len(s) + Len(t) : (s \o t)[i] = t[i - Len(s)]
  OBVIOUS

LEMMA PartOf ==
    ASSUME NEW S, NEW s \in Seq(S), NEW m \in 1..Len(s) + 1, NEW n \in m - 1..Len(s)
    PROVE  /\ SubSeq(s, m, n) \in Seq(S) /\ Len(SubSeq(s, m, n)) = n - m + 1
           /\ \A i \in 1..n - m + 1 : SubSeq(s, m, n)[i] = s[m + i - 1]
  OBVIOUS

\* dbGetDirListing: a page is what follows, and is empty only at the end.
LEMMA PageFollows ==
    ASSUME NEW rows, rows \in Seq(Range(rows)), NEW s, BeginsWith(rows, s)
    PROVE  /\ BeginsWith(rows, s \o Page(rows, Len(s)))
           /\ Page(rows, Len(s)) = <<>> => Len(s) = Len(rows)
<1> DEFINE n == IF Len(s) + PerPage < Len(rows) THEN Len(s) + PerPage ELSE Len(rows)
           t == SubSeq(rows, Len(s) + 1, n)
           u == s \o t
<1>1. Len(rows) \in Nat /\ Len(s) \in Nat /\ Len(s) <= Len(rows) /\ PerPage \in Nat \ {0}
  BY MetaAssumption DEF BeginsWith
<1>2. /\ Len(s) + 1 \in 1..Len(rows) + 1 /\ n \in (Len(s) + 1) - 1..Len(rows) /\ n \in Nat
      /\ (n = Len(s) => Len(s) = Len(rows)) /\ n <= Len(rows)
  BY <1>1
<1>3. Page(rows, Len(s)) = t
  BY DEF Page
<1> HIDE DEF n
<1>4. /\ t \in Seq(Range(rows)) /\ Len(t) = n - Len(s)
      /\ \A i \in 1..Len(t) : t[i] = rows[Len(s) + i]
  <2>1. PICK k : k = Len(s) + 1
    OBVIOUS
  <2>2. k \in 1..Len(rows) + 1 /\ n \in k - 1..Len(rows)
    BY <1>2, <2>1
  <2>3. /\ SubSeq(rows, k, n) \in Seq(Range(rows)) /\ Len(SubSeq(rows, k, n)) = n - k + 1
        /\ \A i \in 1..n - k + 1 : SubSeq(rows, k, n)[i] = rows[k + i - 1]
    BY <2>2, PartOf
  <2>4. n - k + 1 = n - Len(s) /\ \A i \in Nat : k + i - 1 = Len(s) + i
    BY <1>1, <1>2, <2>1
  <2>5. t = SubSeq(rows, k, n)
    BY <2>1
  <2> HIDE DEF t
  <2>6. t \in Seq(Range(rows)) /\ Len(t) = n - Len(s)
    BY <2>3, <2>4, <2>5
  <2>7. ASSUME NEW i \in 1..Len(t) PROVE t[i] = rows[Len(s) + i]
    <3>1. i \in 1..n - k + 1 /\ k + i - 1 = Len(s) + i
      BY <1>1, <1>2, <2>1, <2>4, <2>6
    <3> QED BY <2>3, <2>5, <3>1
  <2> QED BY <2>6, <2>7
<1>5. t = <<>> => Len(s) = Len(rows)
  <2>1. Len(<<>>) = 0
    OBVIOUS
  <2> HIDE DEF t
  <2>2. t = <<>> => Len(t) = 0
    BY <2>1
  <2> QED BY <1>1, <1>2, <1>4, <2>2
<1> HIDE DEF t
<1>6. s \in Seq(Range(rows))
  <2>1. s \in Seq(Range(s)) /\ \A i \in 1..Len(s) : s[i] \in Range(rows)
    BY <1>1 DEF BeginsWith, Range
  <2> QED BY <2>1
<1>7. /\ u \in Seq(Range(rows)) /\ Len(u) = Len(s) + Len(t)
      /\ \A i \in 1..Len(s) : u[i] = s[i]
      /\ \A i \in Len(s) + 1..Len(s) + Len(t) : u[i] = t[i - Len(s)]
  BY <1>4, <1>6, ConcatenatedTo
<1> HIDE DEF u
<1>8. \A i \in 1..Len(u) : u[i] = rows[i]
  <2> SUFFICES ASSUME NEW i \in 1..Len(u) PROVE u[i] = rows[i]
    OBVIOUS
  <2>1. CASE i \in 1..Len(s)
    BY <1>7, <2>1 DEF BeginsWith
  <2>2. CASE i \in Len(s) + 1..Len(s) + Len(t)
    <3>1. i - Len(s) \in 1..Len(t) /\ Len(s) + (i - Len(s)) = i
      BY <1>1, <1>2, <1>4, <2>2
    <3>2. u[i] = t[i - Len(s)]
      BY <1>7, <2>2
    <3> QED BY <1>4, <3>1, <3>2
  <2> QED BY <1>1, <1>2, <1>4, <1>7, <2>1, <2>2
<1>9. BeginsWith(rows, u)
  BY <1>1, <1>2, <1>4, <1>7, <1>8, OwnRange DEF BeginsWith
<1> QED BY <1>3, <1>5, <1>9 DEF u

-----------------------------------------------------------------------------
(* Directories *)

LEMMA NamesAreSeq ==
    ASSUME Tables, NEW p \in Pairs
    PROVE  /\ names[p] \in Seq(Range(names[p])) /\ Len(names[p]) \in Nat
           /\ DOMAIN names[p] = 1..Len(names[p])
<1>1. names[p] \in Seq(Range(names[p]))
  BY DEF Tables
<1> QED BY <1>1

LEMMA EntriesChosen ==
    ASSUME Tables, NamedOnce, NEW p \in Pairs, NEW dir
    PROVE  /\ Chosen(EntriesOf(p, dir), names[p], dir, Len(names[p]))
           /\ Different(EntriesOf(p, dir))
           /\ EntriesOf(p, dir) \in Seq(Range(EntriesOf(p, dir))) /\ Len(EntriesOf(p, dir)) \in Nat
<1>1. Different(names[p])
  <2>1. ASSUME NEW i \in DOMAIN names[p], NEW j \in DOMAIN names[p], names[p][i] = names[p][j]
        PROVE  i = j
    <3>1. To(p, i) = To(p, j)
      BY <2>1 DEF To
    <3> QED BY <3>1 DEF NamedOnce
  <2> QED BY <2>1, NamesAreSeq DEF Different
<1>2. /\ Chosen(InDirectory(names[p], dir), names[p], dir, Len(names[p]))
      /\ Different(InDirectory(names[p], dir))
  BY <1>1, NamesAreSeq, InDirectoryChosen
<1>3. InDirectory(names[p], dir) \in Seq(Range(names[p]))
  BY <1>2 DEF Chosen
<1>4. /\ InDirectory(names[p], dir) \in Seq(Range(InDirectory(names[p], dir)))
      /\ Len(InDirectory(names[p], dir)) \in Nat
  BY <1>3, OwnRange
<1> QED BY <1>2, <1>4 DEF EntriesOf

LEMMA EntriesGrow ==
    ASSUME Tables, Tables', Grows, NEW p \in Pairs, NEW dir
    PROVE  BeginsWith(EntriesOf(p, dir)', EntriesOf(p, dir))
<1>1. names'[p] \in Seq(Range(names'[p])) /\ Len(names'[p]) \in Nat
      /\ DOMAIN names'[p] = 1..Len(names'[p])
  BY NamesAreSeq DEF Tables, Range
<1>2. \A i \in 1..Len(names[p]) : i \in 1..Len(names'[p]) /\ names'[p][i] = names[p][i]
  BY <1>1, NamesAreSeq DEF Grows
<1>3. Len(names[p]) <= Len(names'[p])
  BY <1>1, <1>2, NamesAreSeq
<1>4. BeginsWith(InDirectory(names'[p], dir), InDirectory(names[p], dir))
  BY <1>1, <1>2, <1>3, NamesAreSeq, InDirectoryGrows
<1> QED BY <1>4 DEF EntriesOf

-----------------------------------------------------------------------------
(* Listings *)

\* What is listed so far is what the directory begins with.
ListedTo(c, P) ==
    \/ my[c].rows = <<>>
    \/ \E x \in DOMAIN P : P[x] = Path(c) /\ BeginsWith(EntriesOf(x.pair, x.handle), my[c].rows)
\* All that the directory had when it was selected, what was there before
\* included.
WholeListing(c, rows) ==
    /\ BeginsWith(EntriesOf(Pair(c), Cmd(c).dir), rows) /\ BeginsWith(rows, my[c].rows)
    /\ \A i \in 1..before[c][Pair(c)] :
          names[Pair(c)][i].dir = Cmd(c).dir =>
              \E j \in 1..Len(rows) : rows[j] = names[Pair(c)][i]
PageOfListing(c) ==
    /\ job[c].at = "entries" => WholeListing(c, job[c].rows)
    /\ Answered(c) => job[c].status # "no_such_record"
    /\ Succeeded(c) =>
          \E rows : WholeListing(c, rows) /\ job[c].rows = Page(rows, Len(my[c].rows))
Lists(c, P) ==
    /\ at[c] = "idle" => my[c].rows = <<>>
    /\ at[c] \in {"walk", "next page", "list"} /\ ~trouble[c] => ListedTo(c, P)
    /\ at[c] = "list" =>
          /\ LiesAt(P, Here(c), c, Len(Path(c))) /\ Cmd(c).offset = Len(my[c].rows)
          /\ ~trouble[c] => PageOfListing(c)

\* Such a file is in a table.
LEMMA PathsInPairs ==
    ASSUME CreateInv, NEW P, Paths(P), NEW x \in DOMAIN P
    PROVE  x.pair \in Pairs
<1>1. Settled(x.pair, x.handle)
  BY FoundSettled DEF Paths
<1> QED BY <1>1 DEF Settled, Complete

LEMMA ListedOn ==
    ASSUME CreateInv, Tables', Grows, NEW P, NEW Q, Paths(P), Extends(Q, P), NEW d \in Clients,
           my'[d].rows = my[d].rows, script'[d] = script[d], ListedTo(d, P)
    PROVE  ListedTo(d, Q)'
<1>1. Path(d)' = Path(d)
  BY CallStays
<1> SUFFICES ASSUME my[d].rows # <<>> PROVE ListedTo(d, Q)'
  BY DEF ListedTo
<1>2. PICK x \in DOMAIN P : P[x] = Path(d) /\ BeginsWith(EntriesOf(x.pair, x.handle), my[d].rows)
  BY DEF ListedTo
<1>3. PICK p, h : p = x.pair /\ h = x.handle
  OBVIOUS
<1>4. p \in Pairs
  BY <1>3, PathsInPairs
<1>5. BeginsWith(EntriesOf(p, h)', EntriesOf(p, h))
  BY <1>4, EntriesGrow DEF CreateInv
<1>6. Len(EntriesOf(p, h)') \in Nat
  <2>1. names'[p] \in Seq(Range(names'[p]))
    BY <1>4 DEF Tables, Range
  <2>2. InDirectory(names'[p], h) \in Seq(Range(names'[p]))
    BY <2>1, InDirectoryChosen DEF Chosen
  <2>3. Len(InDirectory(names'[p], h)) \in Nat
    BY <2>2, OwnRange
  <2> QED BY <2>3 DEF EntriesOf
<1>7. BeginsWith(EntriesOf(p, h)', my[d].rows)
  BY <1>2, <1>3, <1>5, <1>6, BeginsWithThat
<1>8. x \in DOMAIN Q /\ Q[x] = P[x]
  BY DEF Extends
<1>9. EntriesOf(p, h)' = EntriesOf(x.pair, x.handle)'
  BY <1>3 DEF EntriesOf
<1> QED BY <1>1, <1>2, <1>7, <1>8, <1>9 DEF ListedTo

LEMMA WholeListingOn ==
    ASSUME CreateInv, Tables', Grows, NEW d \in Clients, Pair(d) \in Pairs, Snapshot(d),
           my'[d].rows = my[d].rows, before'[d] = before[d], Pair(d)' = Pair(d), Cmd(d)' = Cmd(d),
           NEW rows, WholeListing(d, rows)
    PROVE  WholeListing(d, rows)'
<1>1. PICK p, h : p = Pair(d) /\ h = Cmd(d).dir
  OBVIOUS
<1>2. Tables /\ p \in Pairs
  BY <1>1 DEF CreateInv
<1>3. BeginsWith(EntriesOf(p, h)', EntriesOf(p, h))
  BY <1>2, EntriesGrow
<1>4. Len(EntriesOf(p, h)') \in Nat
  <2>1. names'[p] \in Seq(Range(names'[p]))
    BY <1>2 DEF Tables, Range
  <2>2. InDirectory(names'[p], h) \in Seq(Range(names'[p]))
    BY <2>1, InDirectoryChosen DEF Chosen
  <2>3. Len(InDirectory(names'[p], h)) \in Nat
    BY <2>2, OwnRange
  <2> QED BY <2>3 DEF EntriesOf
<1>5. BeginsWith(EntriesOf(p, h)', rows)
  BY <1>1, <1>3, <1>4, BeginsWithThat DEF WholeListing
<1>6. \A i \in 1..before[d][p] : names'[p][i] = names[p][i]
  BY <1>2 DEF Snapshot, Grows
<1>7. EntriesOf(p, h)' = EntriesOf(Pair(d), Cmd(d).dir)'
  BY <1>1 DEF EntriesOf
<1> QED BY <1>1, <1>5, <1>6, <1>7 DEF WholeListing

\* The listing of another client, or of this one in a step that is not about it.
LEMMA ListsKept ==
    ASSUME CreateInv, Tables', Grows, NEW P, NEW Q, Paths(P), Extends(Q, P), NEW d \in Clients,
           Snapshot(d), before'[d] = before[d], trouble'[d] = trouble[d], script'[d] = script[d],
           job'[d] = job[d], my'[d] = my[d], at'[d] = at[d], Lists(d, P)
    PROVE  Lists(d, Q)'
<1>1. Path(d)' = Path(d)
  BY CallStays
<1>2. /\ Here(d)' = Here(d) /\ Cmd(d)' = Cmd(d) /\ Pair(d)' = Pair(d)
      /\ (Answered(d)' <=> Answered(d)) /\ (Succeeded(d)' <=> Succeeded(d))
  BY DEF Here, Cmd, Pair, Answered, Succeeded
<1>3. at[d] \in {"walk", "next page", "list"} /\ ~trouble[d] => ListedTo(d, Q)'
  BY ListedOn DEF Lists
<1>4. CASE at[d] # "list"
  BY <1>3, <1>4 DEF Lists
<1>5. CASE at[d] = "list"
  <2>1. LiesAt(P, Here(d), d, Len(Path(d))) /\ Cmd(d).offset = Len(my[d].rows)
    BY <1>5 DEF Lists
  <2>2. LiesAt(Q, Here(d), d, Len(Path(d)))'
    BY <1>1, <1>2, <2>1 DEF LiesAt, Extends
  <2>3. Pair(d) \in Pairs
    <3>1. Here(d).pair \in Pairs
      BY <2>1, PathsInPairs DEF LiesAt
    <3> QED BY <3>1 DEF Here
  <2>4. \A rows : WholeListing(d, rows) => WholeListing(d, rows)'
    BY <1>2, <2>3, WholeListingOn
  <2>5. ASSUME PageOfListing(d) PROVE PageOfListing(d)'
    <3>1. \A rows : Page(rows, Len(my[d].rows))' = Page(rows, Len(my[d].rows))
      BY DEF Page
    <3>2. PICK t : t = job[d].rows
      OBVIOUS
    <3>3. (job[d].at = "entries" => WholeListing(d, job[d].rows))'
      <4>1. job[d].at = "entries" => WholeListing(d, t)'
        BY <2>4, <2>5, <3>2 DEF PageOfListing
      <4>2. job'[d].at = job[d].at /\ job'[d].rows = t
        BY <3>2
      <4> QED BY <4>1, <4>2 DEF WholeListing
    <3>4. Succeeded(d)' => \E rows : WholeListing(d, rows)' /\ job'[d].rows = Page(rows, Len(my[d].rows))'
      BY <1>2, <2>4, <2>5, <3>1 DEF PageOfListing
    <3> QED BY <1>2, <2>5, <3>3, <3>4 DEF PageOfListing
  <2> QED BY <1>2, <1>3, <1>5, <2>1, <2>2, <2>5 DEF Lists
<1> QED BY <1>4, <1>5

-----------------------------------------------------------------------------
(* What a step adds to a listing *)

LEMMA ListServed ==
    ASSUME NEW c \in Clients, Obeys(c), at[c] = "list", MetaStep(c)
    PROVE  ReadDir(c) \/ ReadDirStored(c) \/ OutOfSync(c)
<1>1. job[c].at \in {"select entries", "entries", "answered"}
  BY DEF Obeys, Serves
<1> QED BY <1>1 DEF MetaStep, LookUp, LookUpStored, GetAttr, GetAttrStored, GetHandles,
     GetHandlesStored, SetAttr, CheckHandles, CheckHandlesStored, InsertHandle, LockUpdates,
     SelectFree, FreeStored, SelectMax, MaxStored, InsertInode, AddDirent, Select, Store, Statement

\* Two files do not have one path.
LEMMA ListedHere ==
    ASSUME CreateInv, NEW P, Paths(P), NEW c \in Clients, Path(c) \in Seq(STRING),
           LiesAt(P, Here(c), c, Len(Path(c))), ListedTo(c, P)
    PROVE  /\ Pair(c) \in Pairs /\ P[Here(c)] = Path(c)
           /\ BeginsWith(EntriesOf(Pair(c), Cmd(c).dir), my[c].rows)
<1>1. P[Here(c)] = Path(c) /\ Here(c) \in DOMAIN P
  <2>1. SubSeq(Path(c), 1, Len(Path(c))) = Path(c)
    OBVIOUS
  <2> QED BY <2>1 DEF LiesAt
<1>2. Here(c).pair = Pair(c) /\ Here(c).handle = Cmd(c).dir
  BY DEF Here
<1>3. Pair(c) \in Pairs
  BY <1>1, <1>2, PathsInPairs
<1>4. CASE my[c].rows = <<>>
  <2>1. Len(EntriesOf(Pair(c), Cmd(c).dir)) \in Nat
    BY <1>3, EntriesChosen DEF CreateInv, Paths
  <2>2. <<>> \in Seq(Range(<<>>)) /\ Len(<<>>) = 0
    OBVIOUS
  <2> QED BY <1>1, <1>3, <1>4, <2>1, <2>2 DEF BeginsWith
<1>5. CASE my[c].rows # <<>>
  <2>1. PICK x \in DOMAIN P :
           P[x] = Path(c) /\ BeginsWith(EntriesOf(x.pair, x.handle), my[c].rows)
    BY <1>5 DEF ListedTo
  <2>2. x = Here(c)
    BY <1>1, <2>1 DEF Paths, Rooted
  <2> QED BY <1>1, <1>2, <1>3, <2>1, <2>2
<1> QED BY <1>4, <1>5

\* dbGetDirListing: the page that is asked for follows what is listed.
LEMMA RequestPage ==
    ASSUME CreateInv, NEW P, Paths(P), NEW c \in Clients, Snapshot(c), at[c] = "list",
           Path(c) \in Seq(STRING), LiesAt(P, Here(c), c, Len(Path(c))),
           Cmd(c).offset = Len(my[c].rows), ListedTo(c, P), PageOfListing(c),
           Retry(c) \/ TransmissionFails(c) \/ Work(c), names' = names
    PROVE  PageOfListing(c)'
<1>1. Shaped /\ Obeys(c) /\ Tables /\ NamedOnce
  BY DEF CreateInv, Sound, Paths
<1>2. /\ Pair(c)' = Pair(c) /\ Cmd(c)' = Cmd(c) /\ my' = my /\ before' = before
  BY <1>1, RequestStep DEF InRequest, Serving, client, history
<1>3. Pair(c) \in Pairs /\ BeginsWith(EntriesOf(Pair(c), Cmd(c).dir), my[c].rows)
  BY ListedHere
<1>4. \A rows : WholeListing(c, rows) => WholeListing(c, rows)'
  BY <1>2 DEF WholeListing, EntriesOf
<1>5. CASE Retry(c)
  <2>1. Serve(c, <<Pair(c), "backup">>, Cmd(c)) /\ Cmd(c).op = "readdir"
    BY <1>1, <1>5 DEF Retry, Obeys, Serves
  <2>2. PICK cmd, srv : cmd = Cmd(c) /\ srv = <<Pair(c), "backup">>
    OBVIOUS
  <2>3. job'[c].at = FirstStep(cmd.op)
    <3>1. Serve(c, srv, cmd)
      BY <2>1, <2>2
    <3>2. job'[c] = [at |-> FirstStep(cmd.op), srv |-> srv, cmd |-> cmd, rows |-> <<>>,
                     status |-> "none"]
      BY <1>1, <3>1, ServeTurns
    <3> QED BY <3>2
  <2>4. job'[c].at = "select entries"
    BY <2>1, <2>2, <2>3, FirstSteps
  <2> QED BY <2>4 DEF PageOfListing, Succeeded, Answered
<1>6. CASE TransmissionFails(c)
  <2>1. Answered(c)' /\ job'[c].status = "transmission_failed"
    BY <1>1, <1>6, AnswerTurns DEF TransmissionFails
  <2> QED BY <2>1 DEF PageOfListing, Succeeded, Answered
<1>7. CASE OutOfSync(c)
  <2>1. Answered(c)' /\ job'[c].status = "db_error"
    BY <1>1, <1>7, AnswerTurns DEF OutOfSync
  <2> QED BY <2>1 DEF PageOfListing, Succeeded, Answered
<1>8. CASE ReadDir(c)
  <2>1. PICK all : all = EntriesOf(Pair(c), Cmd(c).dir)
    OBVIOUS
  <2>2. Then(c, "entries", all)
    BY <1>8, <2>1 DEF ReadDir, Select, Then
  <2>3. job'[c].at = "entries" /\ job'[c].rows = all
    BY <1>1, <2>2, ThenTurns
  <2>4. /\ Chosen(all, names[Pair(c)], Cmd(c).dir, Len(names[Pair(c)]))
        /\ all \in Seq(Range(all)) /\ Len(all) \in Nat
    BY <1>1, <1>3, <2>1, EntriesChosen
  <2>5. BeginsWith(all, all)
    BY <2>4 DEF BeginsWith
  <2>6. 1..before[c][Pair(c)] \subseteq 1..Len(names[Pair(c)])
    BY <1>1, <1>3, NamesAreSeq DEF Snapshot
  <2>7. WholeListing(c, all)
    BY <1>3, <2>1, <2>4, <2>5, <2>6 DEF WholeListing, Chosen
  <2>8. WholeListing(c, all)'
    BY <1>4, <2>7
  <2>9. WholeListing(c, job[c].rows)'
    BY <2>3, <2>8 DEF WholeListing
  <2> QED BY <2>3, <2>9 DEF PageOfListing, Succeeded, Answered
<1>9. CASE ReadDirStored(c)
  <2>1. PICK all : all = job[c].rows
    OBVIOUS
  <2>2. WholeListing(c, all)
    BY <1>9, <2>1 DEF ReadDirStored, Store, PageOfListing
  <2>3. Len(all) \in Nat /\ Cmd(c).offset <= Len(all) /\ Cmd(c).offset \in Nat
    BY <2>2 DEF WholeListing, BeginsWith
  <2>4. Answer(c, "ok", Page(all, Cmd(c).offset))
    BY <1>9, <2>1, <2>3 DEF ReadDirStored
  <2>5. /\ Answered(c)' /\ job'[c].status = "ok" /\ job'[c].rows = Page(all, Cmd(c).offset)
    BY <1>1, <2>4, AnswerTurns
  <2>6. WholeListing(c, all)' /\ job'[c].rows = Page(all, Len(my'[c].rows))
    BY <1>2, <1>4, <2>2, <2>5
  <2>7. \E rows : WholeListing(c, rows)' /\ job'[c].rows = Page(rows, Len(my'[c].rows))
    BY <2>6
  <2> QED BY <2>5, <2>7 DEF PageOfListing, Succeeded, Answered
<1> QED BY <1>1, <1>5, <1>6, <1>7, <1>8, <1>9, ListServed DEF Work

LEMMA RequestLists ==
    ASSUME CreateInv, CreateInv', NEW P, Paths(P), NEW c \in Clients, Snapshot(c), Lists(c, P),
           Retry(c) \/ TransmissionFails(c) \/ Work(c), names' = names
    PROVE  Lists(c, P)'
<1>1. Shaped /\ Obeys(c) /\ Tables' /\ Scripted(c)
  BY DEF CreateInv, Sound, Paths
<1>2. /\ Pair(c)' = Pair(c) /\ Cmd(c)' = Cmd(c) /\ my' = my /\ at' = at /\ script' = script
      /\ trouble' = trouble
  BY <1>1, RequestStep DEF InRequest, Serving, client, history
<1>3. Here(c)' = Here(c) /\ Path(c)' = Path(c)
  BY <1>2, CallStays DEF Here
<1>4. Grows /\ Extends(P, P)
  BY DEF Grows, Extends
<1>5. ListedTo(c, P) => ListedTo(c, P)'
  BY <1>1, <1>2, <1>4, ListedOn
<1>6. CASE at[c] # "list"
  BY <1>2, <1>5, <1>6 DEF Lists
<1>7. CASE at[c] = "list"
  <2>1. Path(c) \in Seq(STRING)
    BY <1>1, <1>7, CallGiven DEF Scripted
  <2>2. LiesAt(P, Here(c), c, Len(Path(c))) /\ Cmd(c).offset = Len(my[c].rows)
    BY <1>7 DEF Lists
  <2>3. ~trouble[c] => PageOfListing(c)'
    BY <1>7, <2>1, <2>2, RequestPage DEF Lists
  <2>4. LiesAt(P, Here(c), c, Len(Path(c)))'
    BY <1>3, <2>2 DEF LiesAt
  <2> QED BY <1>2, <1>5, <1>7, <2>2, <2>3, <2>4 DEF Lists
<1> QED BY <1>6, <1>7

LEMMA ReturnLists ==
    ASSUME Shaped, NEW P, NEW c \in Clients, NEW what, Return(c, what)
    PROVE  Lists(c, P)'
<1>1. at'[c] = "idle" /\ my'[c] = Fresh
  BY ReturnAlone
<1> QED BY <1>1 DEF Lists, Fresh

LEMMA ElsewhereLists ==
    ASSUME NEW P, NEW c \in Clients, at'[c] \in Making \cup {"attributes of"}
    PROVE  Lists(c, P)'
  BY DEF Lists, Making

\* What is listed before the path is walked again.
LEMMA ListedBefore ==
    ASSUME NEW P, NEW c \in Clients, Lists(c, P), at[c] \in {"idle", "walk", "next page"}
    PROVE  trouble[c] \/ ListedTo(c, P)
  BY DEF Lists, ListedTo

\* The directory is asked for what follows.
LEMMA VisitLists ==
    ASSUME CreateInv, CreateInv', NEW P, Paths(P), NEW c \in Clients, Lists(c, P), names' = names,
           at[c] \in {"idle", "walk", "next page"}, NEW pair, NEW handle, Visit(c, pair, handle),
           LiesAt(P, [pair |-> pair, handle |-> handle], c, Len(Path(c)))
    PROVE  Lists(c, P)'
<1>1. Shaped /\ Tables'
  BY DEF CreateInv
<1>2. script' = script /\ my' = my
      /\ at'[c] = IF Call(c).op = "list" THEN "list" ELSE "attributes of"
  BY <1>1, VisitAlone
<1>3. CASE Call(c).op # "list"
  BY <1>2, <1>3, ElsewhereLists
<1>4. CASE Call(c).op = "list"
  <2> DEFINE cmd == [op |-> "readdir", dir |-> handle, offset |-> Len(my[c].rows)]
  <2>1. Serve(c, <<pair, "primary">>, cmd) /\ trouble' = trouble
    BY <1>4 DEF Visit, Ask
  <2>2. cmd.op = "readdir" /\ cmd.dir = handle /\ cmd.offset = Len(my[c].rows)
    OBVIOUS
  <2> HIDE DEF cmd
  <2>3. job'[c].at = "select entries" /\ Cmd(c)' = cmd /\ Pair(c)' = pair
    BY <1>1, <2>1, <2>2, AskTurns, FirstSteps
  <2>4. Here(c)' = [pair |-> pair, handle |-> handle]
    <3>1. Here(c)' = [pair |-> Pair(c)', handle |-> Cmd(c)'.dir]
      BY DEF Here
    <3> QED BY <2>2, <2>3, <3>1
  <2>5. Path(c)' = Path(c)
    BY <1>2, CallStays
  <2>6. LiesAt(P, Here(c), c, Len(Path(c)))'
    BY <2>4, <2>5 DEF LiesAt
  <2>7. Grows /\ Extends(P, P)
    BY DEF Grows, Extends
  <2>8. trouble[c] \/ ListedTo(c, P)'
    BY <1>1, <1>2, <2>7, ListedBefore, ListedOn
  <2>9. PageOfListing(c)'
    BY <2>3 DEF PageOfListing, Succeeded, Answered
  <2> QED BY <1>2, <1>4, <2>1, <2>2, <2>3, <2>6, <2>8, <2>9 DEF Lists
<1> QED BY <1>3, <1>4

\* A walk is begun, or goes on.
LEMMA LookLists ==
    ASSUME CreateInv, CreateInv', NEW P, Paths(P), NEW c \in Clients, Lists(c, P), names' = names,
           at[c] \in {"idle", "walk", "next page"}, at'[c] = "walk", script' = script,
           my'[c].rows = my[c].rows, trouble' = trouble
    PROVE  Lists(c, P)'
<1>1. Grows /\ Extends(P, P) /\ Tables'
  BY DEF Grows, Extends, CreateInv
<1>2. trouble[c] \/ ListedTo(c, P)'
  BY <1>1, ListedBefore, ListedOn
<1> QED BY <1>2 DEF Lists

LEMMA WalkLists ==
    ASSUME CreateInv, CreateInv', NEW P, Paths(P), NEW c \in Clients, Lists(c, P), names' = names,
           Start(c) \/ WalkOn(c) \/ Found(c) \/ NotThere(c) \/ ParentFound(c)
    PROVE  Lists(c, P)'
<1>1. Shaped /\ Scripted(c) /\ Rooted(P)
  BY DEF CreateInv, Paths
<1>2. CASE Start(c)
  <2>1. script[c] # <<>> /\ at[c] \in {"idle", "walk", "next page"}
    BY <1>1, <1>2 DEF Start, Scripted
  <2>2. CASE Path(c) = <<>>
    <3>1. LiesAt(P, RootInode, c, 0) /\ Len(Path(c)) = 0
      BY <1>1, <2>1, <2>2, RootLies
    <3>2. LiesAt(P, [pair |-> RootPair, handle |-> Root], c, Len(Path(c)))
      BY <3>1 DEF RootInode
    <3> QED BY <1>2, <2>1, <2>2, <3>2, VisitLists DEF Start
  <2>3. CASE Path(c) # <<>>
    <3>1. at'[c] = "walk" /\ script' = script /\ my'[c].rows = my[c].rows /\ trouble' = trouble
      BY <1>1, <1>2, <2>3 DEF Start, Go, Shaped, MyShaped
    <3> QED BY <2>1, <3>1, LookLists
  <2> QED BY <2>2, <2>3
<1>3. CASE WalkOn(c)
  <2>1. at' = at /\ script' = script /\ my'[c].rows = my[c].rows /\ trouble' = trouble
    BY <1>1, <1>3 DEF WalkOn, Shaped, MyShaped
  <2>2. CASE at[c] = "walk"
    BY <2>1, <2>2, LookLists
  <2>3. CASE at[c] = "parent"
    BY <2>1, <2>3, ElsewhereLists DEF Making
  <2> QED BY <1>3, <2>2, <2>3 DEF WalkOn
<1>4. CASE Found(c)
  <2>1. CASE Call(c).op \in {"mknod", "mkdir"}
    BY <1>1, <1>4, <2>1, ReturnLists DEF Found
  <2>2. CASE Call(c).op \notin {"mknod", "mkdir"}
    <3>1. Visit(c, Child(c).pair, Child(c).handle) /\ at[c] = "walk"
      BY <1>4, <2>2 DEF Found
    <3>2. LiesAt(P, Child(c), c, Len(Path(c)))
      <4>1. LiesAt(P, Child(c), c, my[c].pos)
        BY <1>4, ChildLies DEF Found
      <4>2. my[c].pos = Len(Path(c))
        BY <1>4 DEF Found, Depth
      <4> QED BY <4>1, <4>2
    <3>3. Child(c) = [pair |-> Child(c).pair, handle |-> Child(c).handle]
      BY DEF Child
    <3>4. LiesAt(P, [pair |-> Child(c).pair, handle |-> Child(c).handle], c, Len(Path(c)))
      BY <3>2, <3>3
    <3> QED BY <3>1, <3>4, VisitLists
  <2> QED BY <2>1, <2>2
<1>5. CASE NotThere(c)
  <2>1. CASE ~Makes(Call(c).op)
    BY <1>1, <1>5, <2>1, ReturnLists DEF NotThere
  <2>2. CASE Makes(Call(c).op)
    <3>1. at'[c] \in Making
      <4>1. CASE Len(Path(c)) = 1
        BY <1>1, <1>5, <2>2, <4>1, LocatedAlone DEF NotThere, Making
      <4>2. CASE Len(Path(c)) # 1
        BY <1>1, <1>5, <2>2, <4>2 DEF NotThere, Making, Go, Shaped
      <4> QED BY <4>1, <4>2
    <3> QED BY <3>1, ElsewhereLists
  <2> QED BY <2>1, <2>2
<1>6. CASE ParentFound(c)
  <2>1. script' = script
    BY <1>6 DEF ParentFound
  <2>2. at'[c] \in Making
    BY <1>1, <1>6, <2>1, LocatedAlone DEF ParentFound, Making
  <2> QED BY <2>2, ElsewhereLists
<1> QED BY <1>2, <1>3, <1>4, <1>5, <1>6

\* clnt_fuse_readdir: a page is added.
LEMMA PageLists ==
    ASSUME CreateInv, CreateInv', NEW P, Paths(P), NEW c \in Clients, Before(P), Lists(c, P),
           names' = names, ListPage(c)
    PROVE  Lists(c, P)'
<1>1. Shaped /\ Scripted(c) /\ Historic /\ at[c] = "list"
  BY DEF CreateInv, Paths, Before, ListPage
<1>2. CASE Listed(c) = <<>>
  BY <1>1, <1>2, ReturnLists DEF ListPage
<1>3. CASE Listed(c) # <<>>
  <2>1. /\ my' = [my EXCEPT ![c].rows = @ \o Listed(c)] /\ at' = [at EXCEPT ![c] = "next page"]
        /\ NoteTrouble(c) /\ script' = script /\ before' = before
    BY <1>3 DEF ListPage, Go
  <2>2. my'[c].rows = my[c].rows \o Listed(c) /\ at'[c] = "next page"
    <3>1. PICK all : all = my[c].rows \o Listed(c)
      OBVIOUS
    <3>2. my' = [my EXCEPT ![c].rows = all]
      BY <2>1, <3>1
    <3>3. my'[c].rows = all
      BY <1>1, <3>2 DEF Shaped, MyShaped
    <3>4. at'[c] = "next page"
      BY <1>1, <2>1 DEF Shaped
    <3> QED BY <3>1, <3>3, <3>4
  <2> SUFFICES ASSUME ~trouble'[c] PROVE ListedTo(c, P)'
    BY <2>2 DEF Lists
  <2>3. ~trouble[c] /\ job[c].status \in {"ok", "no_such_record"}
    BY <1>1, <2>1 DEF NoteTrouble, Historic
  <2>4. PageOfListing(c) /\ ListedTo(c, P) /\ LiesAt(P, Here(c), c, Len(Path(c)))
    BY <1>1, <2>3 DEF Lists
  <2>5. Succeeded(c)
    BY <2>3, <2>4 DEF ListPage, Succeeded, Failed, PageOfListing
  <2>6. PICK rows : WholeListing(c, rows) /\ job[c].rows = Page(rows, Len(my[c].rows))
    BY <2>4, <2>5 DEF PageOfListing
  <2>7. Listed(c) = Page(rows, Len(my[c].rows))
    BY <2>5, <2>6 DEF Listed, Succeeded
  <2>8. BeginsWith(rows, my'[c].rows)
    <3>1. rows \in Seq(Range(rows))
      BY <2>6 DEF WholeListing, BeginsWith
    <3>2. BeginsWith(rows, my[c].rows)
      BY <2>6 DEF WholeListing
    <3>3. BeginsWith(rows, my[c].rows \o Page(rows, Len(my[c].rows)))
      BY <3>1, <3>2, PageFollows
    <3> QED BY <2>2, <2>7, <3>3
  <2>9. Path(c) \in Seq(STRING) /\ Path(c)' = Path(c)
    BY <1>1, <2>1, CallGiven, CallStays DEF Scripted
  <2>10. Pair(c) \in Pairs /\ P[Here(c)] = Path(c) /\ Here(c) \in DOMAIN P
    BY <2>4, <2>9, ListedHere DEF LiesAt
  <2>11. Len(EntriesOf(Pair(c), Cmd(c).dir)) \in Nat
    BY <2>10, EntriesChosen DEF CreateInv, Paths
  <2>12. BeginsWith(EntriesOf(Pair(c), Cmd(c).dir), my'[c].rows)
    BY <2>6, <2>8, <2>11, BeginsWithThat DEF WholeListing
  <2>13. PICK x \in DOMAIN P : x = Here(c)
    BY <2>10
  <2>14. EntriesOf(x.pair, x.handle)' = EntriesOf(Pair(c), Cmd(c).dir)
    <3>1. x.pair = Pair(c) /\ x.handle = Cmd(c).dir
      BY <2>13 DEF Here
    <3> QED BY <3>1 DEF EntriesOf
  <2>15. P[x] = Path(c)' /\ BeginsWith(EntriesOf(x.pair, x.handle)', my'[c].rows)
    BY <2>9, <2>10, <2>12, <2>13, <2>14
  <2> QED BY <2>15 DEF ListedTo
<1> QED BY <1>2, <1>3

LEMMA CallLists ==
    ASSUME CreateInv, CreateInv', NEW P, Paths(P), NEW c \in Clients, Before(P), Lists(c, P),
           names' = names,
           \/ ExtentsDone(c) \/ InodeDone(c) \/ AttributesDone(c)
           \/ NameDone(c) \/ StatDone(c) \/ GiveUp(c) \/ ListPage(c)
    PROVE  Lists(c, P)'
<1>1. Shaped
  BY DEF CreateInv
<1>2. CASE ExtentsDone(c)
  <2>1. CASE \E i \in 1..Copies : my[c].rows[i].hdl = Lost
    BY <1>1, <1>2, <2>1, ReturnLists DEF ExtentsDone
  <2>2. CASE ~ \E i \in 1..Copies : my[c].rows[i].hdl = Lost
    <3>1. at'[c] = "inode"
      BY <1>1, <1>2, <2>2 DEF ExtentsDone, AskInode, Go, Shaped
    <3> QED BY <3>1, ElsewhereLists DEF Making
  <2> QED BY <2>1, <2>2
<1>3. CASE InodeDone(c) \/ AttributesDone(c)
  <2>1. at'[c] \in {"attributes", "name"}
    BY <1>1, <1>3 DEF InodeDone, AttributesDone, Go, Shaped
  <2> QED BY <2>1, ElsewhereLists DEF Making
<1>4. CASE NameDone(c)
  <2>1. CASE Call(c).op = "creat"
    <3>1. Visit(c, my[c].new.pair, my[c].new.handle)
      BY <1>4, <2>1 DEF NameDone
    <3>2. at'[c] = "attributes of"
      BY <1>1, <2>1, <3>1, VisitAlone
    <3> QED BY <3>2, ElsewhereLists
  <2>2. CASE Call(c).op # "creat"
    BY <1>1, <1>4, <2>2, ReturnLists DEF NameDone
  <2> QED BY <2>1, <2>2
<1>5. CASE StatDone(c) \/ GiveUp(c)
  BY <1>1, <1>5, ReturnLists DEF StatDone, GiveUp
<1>6. CASE ListPage(c)
  BY <1>6, PageLists
<1> QED BY <1>2, <1>3, <1>4, <1>5, <1>6

LEMMA StepLists ==
    ASSUME CreateInv, CreateInv', NEW P, Paths(P), Before(P), NEW c \in Clients, Lists(c, P),
           Acts(c), names' = names
    PROVE  Lists(c, P)'
<1>1. Shaped /\ Snapshot(c)
  BY DEF CreateInv, Before
<1>2. CASE Retry(c) \/ TransmissionFails(c) \/ Work(c)
  BY <1>1, <1>2, RequestLists
<1>3. CASE Start(c) \/ GoOn(c) \/ WalkOn(c) \/ Found(c) \/ NotThere(c) \/ ParentFound(c)
  BY <1>3, WalkLists DEF GoOn
<1>4. CASE \/ ExtentsDone(c) \/ InodeDone(c) \/ AttributesDone(c)
           \/ NameDone(c) \/ StatDone(c) \/ GiveUp(c) \/ ListPage(c)
  BY <1>4, CallLists
<1>5. CASE ReadCounter(c) \/ AllocExtent(c) \/ DiskError(c) \/ ExtentLost(c)
  <2>1. at'[c] \in {"extents", "counted"}
    BY <1>1, <1>5, DrawAlone
  <2> QED BY <2>1, ElsewhereLists DEF Making
<1> QED BY <1>2, <1>3, <1>4, <1>5 DEF Acts, Step

-----------------------------------------------------------------------------
(* Whatever is listed is what a directory holds *)

ListsInv == \E P : Paths(P) /\ Before(P) /\ \A c \in Clients : Lists(c, P)

LEMMA ListsGoOn ==
    ASSUME CreateInv, CreateInv', ListsInv, [Next]_vars, ~crossed'
    PROVE  ListsInv'
<1>1. PICK P : Paths(P) /\ Before(P) /\ \A c \in Clients : Lists(c, P)
  BY DEF ListsInv
<1>2. Tables' /\ \A d \in Clients : Snapshot(d)
  BY <1>1 DEF CreateInv, Before
<1>3. CASE UNCHANGED <<metaVars, dataVars, client, dlock, scenario, history>>
  <2>1. /\ names' = names /\ job' = job /\ my' = my /\ at' = at /\ script' = script
        /\ before' = before /\ trouble' = trouble
    BY <1>3 DEF metaVars, tables, client, history
  <2>2. Grows
    BY <2>1 DEF Grows
  <2>3. PICK Q : Extends(Q, P) /\ Paths(Q)' /\ Before(Q)'
    BY <1>1, BeforeGoesOn
  <2>4. \A d \in Clients : Lists(d, Q)'
    BY <1>1, <1>2, <2>1, <2>2, <2>3, ListsKept
  <2> QED BY <2>3, <2>4 DEF ListsInv
<1>4. ASSUME NEW c \in Clients, Acts(c) PROVE ListsInv'
  <2>1. Alone(c)
    BY <1>4, StepAlone DEF CreateInv, Sound
  <2>2. Noted(c) /\ Grows
    <3>1. CASE names' = names
      BY <1>1, <1>4, <3>1, StepMisses DEF Grows
    <3>2. CASE Work(c) /\ AddDirent(c)
      <4>1. Grows
        BY <1>1, <3>2, NameAdded DEF Added
      <4>2. history' = history
        BY <3>2 DEF Work, Serving
      <4> QED BY <1>1, <4>1, <4>2, SameNoted DEF Before
    <3> QED BY <1>1, <1>4, <3>1, <3>2, StepKeeps
  <2>3. ASSUME NEW Q, Extends(Q, P), NEW d \in Clients \ {c} PROVE Lists(d, Q)'
    <3>1. /\ before'[d] = before[d] /\ trouble'[d] = trouble[d] /\ script'[d] = script[d]
          /\ job'[d] = job[d] /\ my'[d] = my[d] /\ at'[d] = at[d]
      BY <2>1, <2>2 DEF Noted, Alone
    <3> QED BY <1>1, <1>2, <2>2, <2>3, <3>1, ListsKept
  <2>4. PICK Q : Extends(Q, P) /\ Paths(Q)' /\ Before(Q)'
    BY <1>1, BeforeGoesOn
  <2>5. Lists(c, Q)'
    <3>1. CASE names' = names
      <4>1. Lists(c, P)'
        BY <1>1, <1>4, <3>1, StepLists
      <4> QED BY <2>4, <4>1 DEF Lists, ListedTo, LiesAt, Extends
    <3>2. CASE Work(c) /\ AddDirent(c)
      <4>1. at[c] = "name" /\ at' = at
        BY <1>1, <3>2, NameAdded DEF Work, Serving, client
      <4> QED BY <4>1, ElsewhereLists DEF Making
    <3> QED BY <1>1, <1>4, <3>1, <3>2, StepKeeps
  <2> QED BY <2>3, <2>4, <2>5 DEF ListsInv
<1> QED BY <1>3, <1>4, WhoActs

LEMMA ListsFirst == Init => ListsInv
<1> SUFFICES ASSUME Init PROVE ListsInv
  OBVIOUS
<1>1. PICK P : Paths(P) /\ Before(P)
  BY BeforeFirst DEF BeforeInv
<1>2. at = [c \in Clients |-> "idle"] /\ my = [c \in Clients |-> Fresh]
  BY DEF Init
<1>3. \A c \in Clients : Lists(c, P)
  BY <1>2 DEF Lists, Fresh
<1> QED BY <1>1, <1>3 DEF ListsInv

LEMMA ListsInvariant == Spec => [](crossed \/ ListsInv)
<1>1. ASSUME CreateInv, CreateInv', ListsInv, [Next]_vars, ~crossed' PROVE ListsInv'
  BY <1>1, ListsGoOn
<1> QED BY <1>1, ListsFirst, CrossedLasts, CreateInvariant, PTL DEF Spec

\* Only an empty page ends a listing.
LEMMA WhoEndsListing ==
    ASSUME CreateInv, NEW c \in Clients, at[c] = "list", at'[c] = "idle", [Next]_vars
    PROVE  ListPage(c) /\ Listed(c) = <<>>
<1>1. Shaped
  BY DEF CreateInv
<1>2. at' # at
  OBVIOUS
<1>3. PICK d \in Clients : Acts(d)
  BY <1>2, WhoActs DEF client
<1>4. d = c
  <2>1. Alone(d)
    BY <1>3, StepAlone DEF CreateInv, Sound
  <2> QED BY <2>1 DEF Alone
<1>5. ~(Retry(c) \/ TransmissionFails(c) \/ Work(c))
  BY <1>2 DEF Retry, TransmissionFails, Work, Serving, client
<1>6. ListPage(c)
  BY <1>3, <1>4, <1>5 DEF Acts, Step, Start, GoOn, WalkOn, Found, NotThere, Absent, ParentFound,
     ReadCounter, AllocExtent, DiskError, ExtentLost, ExtentsDone, InodeDone, AttributesDone,
     NameDone, StatDone, GiveUp
<1>7. Listed(c) = <<>>
  <2> SUFFICES ASSUME Listed(c) # <<>> PROVE FALSE
    OBVIOUS
  <2>1. at' = [at EXCEPT ![c] = "next page"]
    BY <1>6 DEF ListPage, Go
  <2> QED BY <1>1, <2>1 DEF Shaped
<1> QED BY <1>6, <1>7

LEMMA ListingWhole ==
    ASSUME CreateInv, NEW P, Paths(P), NEW c \in Clients, Lists(c, P), ListPage(c),
           Listed(c) = <<>>, ~trouble[c], job[c].status \in {"ok", "no_such_record"}
    PROVE  /\ \A i \in 1..before[c][Pair(c)] :
                 names[Pair(c)][i].dir = Cmd(c).dir =>
                     \E j \in 1..Len(my[c].rows) : my[c].rows[j] = names[Pair(c)][i]
           /\ Different(my[c].rows)
<1>1. at[c] = "list" /\ Scripted(c)
  BY DEF ListPage, Paths
<1>2. PageOfListing(c) /\ ListedTo(c, P) /\ LiesAt(P, Here(c), c, Len(Path(c)))
  BY <1>1 DEF Lists
<1>3. Path(c) \in Seq(STRING)
  BY <1>1, CallGiven DEF CreateInv, Scripted
<1>4. Pair(c) \in Pairs /\ BeginsWith(EntriesOf(Pair(c), Cmd(c).dir), my[c].rows)
  BY <1>2, <1>3, ListedHere
<1>5. /\ Different(EntriesOf(Pair(c), Cmd(c).dir))
      /\ Len(EntriesOf(Pair(c), Cmd(c).dir)) \in Nat
  BY <1>4, EntriesChosen DEF CreateInv, Paths
<1>6. Different(my[c].rows)
  <2>1. Len(my[c].rows) \in Nat
    BY <1>4 DEF BeginsWith
  <2> QED BY <1>4, <1>5, <2>1 DEF Different, BeginsWith
<1>7. Succeeded(c)
  BY <1>2 DEF ListPage, Succeeded, Failed, PageOfListing
<1>8. PICK rows : WholeListing(c, rows) /\ job[c].rows = Page(rows, Len(my[c].rows))
  BY <1>2, <1>7 DEF PageOfListing
<1>9. Page(rows, Len(my[c].rows)) = <<>>
  BY <1>7, <1>8 DEF Listed, Succeeded
<1>10. Len(my[c].rows) = Len(rows)
  BY <1>8, <1>9, PageFollows DEF WholeListing, BeginsWith
<1>11. \A j \in 1..Len(rows) : my[c].rows[j] = rows[j]
  BY <1>8, <1>10 DEF WholeListing, BeginsWith
<1> QED BY <1>6, <1>8, <1>10, <1>11 DEF WholeListing

\* clnt_fuse_readdir: a listing whose requests were answered holds every
\* name that was there when it began, and none twice, however many pages it
\* takes and whatever is made in between, until statements of two workers cross.
THEOREM ListingsAreComplete == Spec => ListingComplete
<1>1. ASSUME crossed \/ CreateInv, crossed \/ ListsInv, [Next]_vars
      PROVE  \A c \in Clients :
                (/\ at[c] = "list" /\ at'[c] = "idle"
                 /\ ~trouble[c] /\ ~crossed /\ job[c].status \in {"ok", "no_such_record"}) =>
                    LET Held(i) == names[Pair(c)][i]
                        mine == {i \in 1..before[c][Pair(c)] : Held(i).dir = Cmd(c).dir}
                        listed == my[c].rows
                    IN /\ \A i \in mine : \E j \in 1..Len(listed) : listed[j] = Held(i)
                       /\ \A i, j \in 1..Len(listed) : listed[i] = listed[j] => i = j
  <2> SUFFICES ASSUME NEW c \in Clients, at[c] = "list", at'[c] = "idle", ~trouble[c],
                      ~crossed, job[c].status \in {"ok", "no_such_record"}
               PROVE  /\ \A i \in 1..before[c][Pair(c)] :
                            names[Pair(c)][i].dir = Cmd(c).dir =>
                                \E j \in 1..Len(my[c].rows) : my[c].rows[j] = names[Pair(c)][i]
                      /\ \A i, j \in 1..Len(my[c].rows) : my[c].rows[i] = my[c].rows[j] => i = j
    OBVIOUS
  <2>1. PICK P : Paths(P) /\ Lists(c, P)
    BY <1>1 DEF ListsInv
  <2>2. ListPage(c) /\ Listed(c) = <<>>
    BY <1>1, WhoEndsListing
  <2> QED BY <1>1, <2>1, <2>2, ListingWhole DEF Different
<1> QED BY <1>1, CreateInvariant, ListsInvariant, PTL DEF Spec, ListingComplete
=============================================================================
