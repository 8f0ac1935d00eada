----------------------------- MODULE StripedIO -----------------------------
(***************************************************************************)
(* Reading and writing a file (hfs_read, hfs_write and hfs_getISize in     *)
(* hercules_client_lib.c) on the data servers.  Logical stripe n is stripe *)
(* n \div stripe_cnt of extent n % stripe_cnt; every extent has a second   *)
(* copy, stripe_cnt further in the inode.  A write goes to both copies, a  *)
(* read to the first and, if that fails, to the second.  All requests of a *)
(* call are sent before the first is waited for, and are served in any     *)
(* order.  The servers do nothing to keep copies or clients apart.         *)
(***************************************************************************)
EXTENDS DataServer, FiniteSetsExt

CONSTANTS Clients,
          Layout,    \* the open file's data handles: sequence of [srv, hdl]
          MaxSize,   \* bound: bytes of the file
          Scenarios  \* bound: sequence of what may happen in a behaviour.
                     \* calls: what each client calls; mortal: servers of which
                     \* one may fail; errors: how many system calls of
                     \* servers, and sends to living ones, fail; above: whether
                     \* extent buffers may lie above the caller's

StripeCnt == Len(Layout) \div 2   \* stripe_cnt

\* A call within the file.
LegalCall(e) ==
    /\ e.op \in {"read", "write", "size"}
    /\ e.op # "size" => /\ e.offset \in Nat /\ e.size \in Nat \ {0}
                        /\ e.offset + e.size <= MaxSize
    /\ e.op = "write" => e.val \in Nat \ {0}

ASSUME IOAssumption ==
    /\ MaxSize \in Nat \ {0}
    /\ Layout \in Seq([srv : DataServers, hdl : Nat])
    /\ Len(Layout) = 2 * StripeCnt /\ StripeCnt > 0
    /\ \A i \in 1..Len(Layout) : Layout[i].hdl > FirstHandle
    /\ \A i, j \in 1..Len(Layout) : Layout[i] = Layout[j] => i = j
    /\ \A i \in 1..StripeCnt : Layout[i].srv # Layout[i + StripeCnt].srv
    /\ \A s \in DOMAIN Scenarios :
          LET calls == Scenarios[s].calls
          IN /\ DOMAIN calls = Clients
             /\ \A c \in Clients : calls[c] \in Seq({e \in Range(calls[c]) : LegalCall(e)})
             \* What a write writes tells it from every other.
             /\ \A c, d \in Clients : \A m \in DOMAIN calls[c], n \in DOMAIN calls[d] :
                   (/\ calls[c][m].op = "write" /\ calls[d][n].op = "write"
                    /\ calls[c][m].val = calls[d][n].val) => c = d /\ m = n
             /\ Scenarios[s].mortal \subseteq DataServers
             /\ Scenarios[s].errors \in Nat
             /\ Scenarios[s].above \in BOOLEAN

VARIABLES scenario,    \* the one this behaviour follows
          script,      \* the calls a client still has to make
          req,         \* per client, its requests: by extent and copy
          dead,        \* servers that have failed
          errors,      \* failed system calls and failed sends to living servers
          writes,      \* history: per byte, the writes not yet overwritten
          over,        \* history: per client, per byte, those its write overwrites
          seen,        \* history: per client, per byte, what its read may return
          alone        \* history: per client, no write was in progress in its call

faults == <<scenario, dead, errors>>
history == <<writes, over, seen, alone>>
vars == <<dataVars, scenario, script, req, dead, errors, history>>

Bytes == 0..MaxSize - 1
Given == Scenarios[scenario]
Call(c) == Head(script[c])
NoReq == [x \in {} |-> 0]
InCall(c) == req[c] # NoReq
Doing(c, op) == InCall(c) /\ Call(c).op = op

\* A byte that was never written, of no write of a client.
Nothing == [call |-> 0, val |-> 0, done |-> TRUE]
Empty == [p \in Bytes |-> {}]

Init == /\ counter = [d \in DataServers |-> FirstHandle + Len(Layout)]
        /\ file = [d \in DataServers |->
                     [h \in {Layout[i].hdl : i \in {j \in 1..Len(Layout) : Layout[j].srv = d}}
                        |-> <<>>]]
        /\ scenario \in DOMAIN Scenarios
        /\ script = Given.calls
        /\ req = [c \in Clients |-> NoReq]
        /\ dead = {}
        /\ errors = 0
        /\ writes = [p \in Bytes |-> {Nothing}]
        /\ over = [c \in Clients |-> Empty]
        /\ seen = [c \in Clients |-> Empty]
        /\ alone = [c \in Clients |-> TRUE]

-----------------------------------------------------------------------------
(* The parts of a call *)

First(e) == e.offset \div StripeSize
Stripes(e) == (e.offset + e.size - 1) \div StripeSize - First(e) + 1

\* What of the ith logical stripe is meant: the head, the tail, or all of it.
From(e, i) == IF i = 0 THEN e.offset % StripeSize ELSE 0
TailSizeModulo(e) == (e.offset + e.size) % StripeSize
TailSize(e) == IF (e.offset + e.size) % StripeSize = 0 THEN StripeSize
            ELSE (e.offset + e.size) % StripeSize
Count(e, i) ==
    IF i = 0 THEN IF StripeSize - From(e, i) < e.size THEN StripeSize - From(e, i) ELSE e.size
    ELSE IF i = Stripes(e) - 1 THEN TailSize(e)
    ELSE StripeSize

\* hfsRaid5GetBlockMapping, and the place of the backup in the inode.
Extent(n) == n % StripeCnt
StripeIsLogical(n) == n
StripeOf(n) == n \div StripeCnt
BackupIsFirst(x) == x + 0 * StripeCnt
Backup(x) == x + StripeCnt

\* The data handle a request goes to.
Handle(c, i, k) ==
    LET x == IF Call(c).op = "size" THEN i ELSE Extent(First(Call(c)) + i)
    IN Layout[1 + (IF k = 0 THEN x ELSE Backup(x))]

\* A request is queued, then answered, refused, or failed for it could not be sent.
Queued(data) == [st |-> "queued", data |-> data]
Outstanding(c) == {x \in DOMAIN req[c] : req[c][x].st = "queued"}
Answer(c, x, st, data) == req' = [req EXCEPT ![c][x] = [st |-> st, data |-> data]]

-----------------------------------------------------------------------------
(* History *)

\* The logical bytes of a call.
BytesOf(e) == IF e.op = "size" THEN {} ELSE {e.offset + n : n \in 0..e.size - 1}
Writing(c) == Doing(c, "write")
Active == {c \in Clients : Writing(c)}

\* What a write sends for a byte; zeros are the stripes sent as zeros.
Put(e, zeros, p) == IF p \div StripeSize - First(e) \in zeros THEN 0 ELSE e.val
Entry(e, zeros, p) == [call |-> e.val, val |-> Put(e, zeros, p), done |-> FALSE]

\* A write becomes visible some time after it begins.
NoteWrite(c, zeros) ==
    LET e == Call(c)
    IN /\ writes' = [p \in Bytes |-> IF p \in BytesOf(e) THEN writes[p] \cup {Entry(e, zeros, p)}
                                     ELSE writes[p]]
       /\ over' = [over EXCEPT ![c] = [p \in Bytes |->
            IF p \in BytesOf(e) THEN {w \in writes[p] : w.done} ELSE {}]]
       /\ seen' = [d \in Clients |->
            IF Doing(d, "read")
            THEN [p \in Bytes |-> IF p \in BytesOf(e) THEN seen[d][p] \cup {Put(e, zeros, p)}
                                  ELSE seen[d][p]]
            ELSE seen[d]]
       /\ alone' = [d \in Clients |-> IF InCall(d) THEN FALSE ELSE alone[d]]

\* It ends: what was written before it began is gone.
NoteWritten(c) ==
    LET mine(p) == {w \in writes[p] : w.call = Call(c).val}
    IN /\ writes' = [p \in Bytes |->
            IF p \in BytesOf(Call(c))
            THEN (writes[p] \ (over[c][p] \cup mine(p)))
                     \cup {[w EXCEPT !.done = TRUE] : w \in mine(p)}
            ELSE writes[p]]
       /\ over' = [over EXCEPT ![c] = Empty]

NoteReading(c) ==
    /\ seen' = [seen EXCEPT ![c] = [p \in Bytes |-> {w.val : w \in writes[p]}]]
    /\ alone' = [alone EXCEPT ![c] = (Active = {})]
    /\ UNCHANGED <<writes, over>>

-----------------------------------------------------------------------------
(* Steps of a call *)

\* hfs_read: one request per logical stripe; hfs_getISize: one per extent.
Begin(c, requests) ==
    /\ req' = [req EXCEPT ![c] = [x \in (0..requests - 1) \X {0} |-> Queued(<<>>)]]
    /\ NoteReading(c)
    /\ UNCHANGED <<dataVars, faults, script>>
BeginRead(c) ==
    /\ ~InCall(c) /\ script[c] # <<>> /\ Call(c).op = "read"
    /\ Begin(c, Stripes(Call(c)))
BeginSize(c) ==
    /\ ~InCall(c) /\ script[c] # <<>> /\ Call(c).op = "size"
    /\ Begin(c, StripeCnt)

\* hfs_write: two per logical stripe, with one set of bytes.  The bytes are
\* copied if the extent's buffer lies below the end of the caller's; if it lies
\* above, zeros are sent.
BeginWrite(c) ==
    /\ ~InCall(c) /\ script[c] # <<>> /\ Call(c).op = "write"
    /\ LET e == Call(c)
       IN \E zeros \in IF Given.above THEN SUBSET (0..Stripes(e) - 1) ELSE {{}} :
            /\ req' = [req EXCEPT ![c] =
                  [x \in (0..Stripes(e) - 1) \X {0, 1} |->
                      Queued([j \in 1..Count(e, x[1]) |-> IF x[1] \in zeros THEN 0 ELSE e.val])]]
            /\ NoteWrite(c, zeros)
    /\ UNCHANGED <<dataVars, faults, script>>

\* A request is taken from the queue, transmitted, and served by its data server
\* (hfsProcessDSCMD), in one step.
Alive(c, x) == Handle(c, x[1], x[2]).srv \notin dead
ServeRead(c, x) ==
    /\ Doing(c, "read") /\ x \in Outstanding(c) /\ Alive(c, x)
    /\ LET h == Handle(c, x[1], x[2])
       IN Answer(c, x, "ok", ReadStripe(h.srv, h.hdl, StripeOf(First(Call(c)) + x[1])))
    /\ UNCHANGED <<dataVars, faults, script, history>>
ServeSize(c, x) ==
    /\ Doing(c, "size") /\ x \in Outstanding(c) /\ Alive(c, x)
    /\ LET h == Handle(c, x[1], x[2]) IN Answer(c, x, "ok", <<ExtentSize(h.srv, h.hdl)>>)
    /\ UNCHANGED <<dataVars, faults, script, history>>
ServeWrite(c, x) ==
    /\ Writing(c) /\ x \in Outstanding(c) /\ Alive(c, x)
    /\ LET h == Handle(c, x[1], x[2])
       IN WriteStripe(h.srv, h.hdl, StripeOf(First(Call(c)) + x[1]), From(Call(c), x[1]),
                      req[c][x].data)
    /\ Answer(c, x, "ok", req[c][x].data)
    /\ UNCHANGED <<faults, script, history>>

\* A system call fails: the request is refused.
Refuse(c, x) ==
    /\ InCall(c) /\ x \in Outstanding(c) /\ Alive(c, x)
    /\ errors < Given.errors
    /\ errors' = errors + 1
    /\ Answer(c, x, "refused", req[c][x].data)
    /\ UNCHANGED <<dataVars, scenario, dead, script, history>>

\* The server is gone when a request is to be sent.
SendFails(c, x) ==
    /\ InCall(c) /\ x \in Outstanding(c) /\ ~Alive(c, x)
    /\ Answer(c, x, "failed", req[c][x].data)
    /\ UNCHANGED <<dataVars, faults, script, history>>

\* The server is there, but the connection takes no more for the moment, or only
\* a part: that is a failure too (clientOutBoundProcessing), and nothing is served.
SendIsCut(c, x) ==
    /\ InCall(c) /\ x \in Outstanding(c) /\ Alive(c, x)
    /\ errors < Given.errors
    /\ errors' = errors + 1
    /\ Answer(c, x, "failed", req[c][x].data)
    /\ UNCHANGED <<dataVars, scenario, dead, script, history>>

\* hfsDegradedDSRequest, for one failed request after the other.  The packet of
\* a refused one is now a response, which the backup does not know: it stays
\* refused.
Failed(c) == {x \in DOMAIN req[c] : x[2] = 0 /\ req[c][x].st = "failed"
                                    /\ <<x[1], 1>> \notin DOMAIN req[c]}
Degrade(c) ==
    /\ Doing(c, "read") \/ Doing(c, "size")
    /\ Outstanding(c) = {}
    /\ Failed(c) # {}
    /\ LET i == CHOOSE n \in {x[1] : x \in Failed(c)} : \A x \in Failed(c) : n <= x[1]
       IN req' = [req EXCEPT ![c] =
                [x \in DOMAIN @ \cup {<<i, 1>>} |-> IF x = <<i, 1>> THEN Queued(<<>>) ELSE @[x]]]
    /\ UNCHANGED <<dataVars, faults, script, history>>

\* The call has all it will get.
Complete(c) ==
    /\ InCall(c)
    /\ Outstanding(c) = {}
    /\ Call(c).op # "write" => Failed(c) = {}

\* Success, whatever became of the requests.
Return(c) ==
    /\ Complete(c)
    /\ req' = [req EXCEPT ![c] = NoReq]
    /\ script' = [script EXCEPT ![c] = Tail(@)]
    /\ seen' = [seen EXCEPT ![c] = Empty]
    /\ alone' = [alone EXCEPT ![c] = TRUE]
    /\ IF Writing(c) THEN NoteWritten(c) ELSE UNCHANGED <<writes, over>>
    /\ UNCHANGED <<dataVars, faults>>

\* A server fails, while requests to it are queued but none is on the wire: as
\* these are transmitted and answered in one step, no guard is needed.  A request
\* that the server has and does not answer is waited for for ever: that is the
\* matter of ClientConn, not of this module.
Die(d) ==
    /\ dead = {} /\ d \in Given.mortal
    /\ dead' = {d}
    /\ UNCHANGED <<dataVars, scenario, errors, script, req, history>>

Step(c) ==
    \/ Degrade(c) \/ Return(c)
    \/ \E x \in DOMAIN req[c] :
          \/ ServeRead(c, x) \/ ServeSize(c, x) \/ ServeWrite(c, x)
          \/ Refuse(c, x) \/ SendFails(c, x) \/ SendIsCut(c, x)

Next == \/ \E c \in Clients : BeginRead(c) \/ BeginSize(c) \/ BeginWrite(c) \/ Step(c)
        \/ \E d \in DataServers : Die(d)

Spec == Init /\ [][Next]_vars

-----------------------------------------------------------------------------
(* What a call has in its hands *)

\* The request that answers for the ith stripe or extent.
Answering(c, i) == IF <<i, 1>> \in DOMAIN req[c] THEN req[c][<<i, 1>>] ELSE req[c][<<i, 0>>]

\* What hfs_read gives for a logical byte: the extent's buffer is zero where
\* nothing was received; where nothing is copied, as of a failed stripe, the caller's
\* buffer is left as it was.
Junk == -1
Got(c, p) ==
    LET e == Call(c)
        i == p \div StripeSize - First(e)
        r == Answering(c, i)
        n == p % StripeSize
    IN IF r.st # "ok" \/ n >= From(e, i) + Count(e, i) THEN Junk
       ELSE IF n < Len(r.data) THEN r.data[n + 1] ELSE 0

\* hfs_getISize: the sum over the extents that answered.
Size(c) ==
    LET extent(i) == IF Answering(c, i).st = "ok" THEN Answering(c, i).data[1] ELSE 0
    IN MapThenSumSet(extent, 0..StripeCnt - 1)

\* A byte as a copy holds it.
Stored(p, k) ==
    LET n == p \div StripeSize
        h == Layout[1 + Extent(n) + k * StripeCnt]
        q == StripeOf(n) * StripeSize + (p % StripeSize)
    IN IF q < Len(file[h.srv][h.hdl]) THEN file[h.srv][h.hdl][q + 1] ELSE 0

-----------------------------------------------------------------------------
(* What is checked *)

\* Bytes of an extent of a file of MaxSize bytes.
Share == ((MaxSize + StripeSize * StripeCnt - 1) \div (StripeSize * StripeCnt)) * StripeSize

\* Types; a client has requests only while it is in a call, and no extent holds
\* more than its share of the file.
TypeOK ==
    /\ \A c \in Clients : InCall(c) => script[c] # <<>>
    /\ \A c \in Clients : \A x \in DOMAIN req[c] :
          req[c][x].st \in {"queued", "ok", "failed", "refused"}
    /\ \A d \in DataServers : \A h \in DOMAIN file[d] : Len(file[d][h]) <= Share
    /\ dead \subseteq Given.mortal
    /\ errors \in 0..Given.errors

\* hfs_read ("we can tolerate 1 read failure and serve"): with at most one
\* server gone, and no system call of a server and no send to a living one
\* failed, each byte a read returns is that of a write that no other had
\* replaced when the read began, or of one that was made meanwhile.
ReadsExplained ==
    errors = 0 =>
        \A c \in Clients : (Doing(c, "read") /\ Complete(c)) =>
            \A p \in BytesOf(Call(c)) : Got(c, p) \in seen[c][p]

\* hfs_write: once a write has returned, and until another to the same byte
\* begins, every copy on a server that is there holds it, if no system call of a
\* server and no send to a living one failed: if one server fails later, no
\* completed write is lost.
CompletedWritesStored ==
    errors = 0 =>
        \A p \in Bytes : \A w \in writes[p] :
            (w.done /\ writes[p] = {w}) =>
                \A k \in 0..1 :
                    Layout[1 + Extent(p \div StripeSize) + k * StripeCnt].srv \notin dead =>
                        Stored(p, k) = w.val

\* hfs_getISize: the size of a file that is written from its start without
\* holes, and not being written, is the end of what was written, also when one
\* of the servers is gone; again no system call and no send to a living server
\* has failed.
SizeIsEnd ==
    errors = 0 =>
        \A c \in Clients : (Doing(c, "size") /\ Complete(c) /\ alone[c]) =>
            LET written == {p \in Bytes : Nothing \notin writes[p]}
            IN written = 0..Cardinality(written) - 1 => Size(c) = Cardinality(written)
=============================================================================
