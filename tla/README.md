# ParallelFS (HERCULES) in TLA+

ParallelFS is a user-space parallel file system: a FUSE client, metadata
servers (MDS) backed by MySQL, and data servers (DS) that keep stripes in files.
All of its code is in `src/hfs/src`. This directory holds TLA+ models of that
code, TLC configurations that check them on small instances, and TLAPS proofs.

    tlc -workers 2 -config QueueProcessor.cfg QueueProcessor.tla
    tlc -workers 2 -config StripedIO.cfg MCStripedIO.tla
    tlapm QueueProcessor_proofs.tla

`PROJECT.json` lists the runs, the mutated definitions that show each property
can fail, the source lines each definition stands for, the hazards of the code
and the disagreements between the code and its comments that were found.

## 1. Inventory

| Component | Source | State | Operations | Interacts with |
|---|---|---|---|---|
| Queue processor | `utils/utils_common.c` | list, semaphore, mutex, state, threads | queue, set state, drain, dispatch | used by client (1) and servers (2) |
| Server connection table | `server/hercules_{inbound,outbound,server}.c` | poll array, slots, `PendingCommands` | accept, read, drop, respond, notify | queues, client connections |
| Client requests | `client/hercules_client{,_inbound,_outbound}.c` | connections, pending lists, tokens | send, receive, fail, update configuration | queue, servers |
| Client file operations | `client/hercules_client_lib.c`, FUSE glue | file handles, attribute copies | create, lookup, read, write, stat, readdir | requests to MDS and DS, each with a backup |
| Metadata service | `server/hercules_mds_cmds.c`, `db/` | tables of objects, entries, attributes | lookup, add entry, allocate, get/set attributes | one MySQL connection per server |
| Data service | `server/hercules_ds_cmds.c`, `io/` | handle counter file, stripe files | allocate, free, read, write, size | file system |
| Wire protocol | `utils/hfs_proto_buff.c`, pumps in both inbound files | reader stage, bytes read, command size | encode, decode, frame | sockets |
| Configuration and login | `utils/utils_config.c`, `hfsAuthenticateROOTMDS`, `admin/` | server lists, nonce | page in the server list, log in, announce a change | root MDS |

What is hard in each, and what makes it correct:

- *Queue processor.* The state is read without the lock that guards it; tokens
  (semaphore) and items (list) are changed apart. Tokens must match items, an item
  has one owner, first come first served, accepted items are processed.
- *Server connection table.* Four kinds of threads share the slots with almost no
  locking; queue items name slots, and slots are reused. A response must reach the
  connection that asked, once; slots must come back; every open connection must be polled.
- *Client requests.* A buffer is referred to by its caller, a queue, a sending
  thread, a pending list and a cookie on the wire, and is freed by the caller alone.
  Nobody may use it afterwards; every call must return, also when a server dies; a
  configuration change swaps every connection under running threads.
- *File operations.* Creation is four requests on several servers, each with a
  backup; two clients may create the same name; stripes are mirrored.
- *Metadata service.* Ten workers (sixteen are asked for, `MAX_THREADS_PER_QUEUE` caps them)
  share a MySQL connection without a lock; handle allocation and check-then-insert need
  their locks; names are not unique in the tables.
- *Data service.* The counter file is read, increased and written back; a failure in
  between is answered with the status of a later step.
- *Wire protocol.* A byte-wise state machine over arbitrary fragments.
- *Configuration and login.* A list that can change while it is paged in.

## 2. Plan

1. `QueueProcessor` refining `WorkPool`, with proofs. **Done.**
2. `ServerConn` over two `WorkPool`s, refining `RequestReply`. **Done.**
3. `ClientConn`: requests, retries, loss of servers, configuration changes. **Done.**
4. `MetaServer`: the tables as rows, the handlers as statements on the connection the
   workers share; `DataServer`: handles and the bytes of extents. **Done.**
5. `FileCreate` composing both with clients, refining `FileTree`: creation against
   creation, listing against creation, a server or a system call failing. **Done.**
6. `StripedIO`: hfs_write, hfs_read and hfs_getISize over two copies. **Done.**
7. `ConfigUpdate`: paging in the table of servers, login, changes. **Done.**
8. Proofs about the safety of each of the seven components, and the refinements of
   `WorkPool`, `RequestReply` and `FileTree`. **Done.**

Every safety property of the passing runs is a theorem. What is left to TLC alone is liveness,
which is out of the prover's reach.

## 3. Modules

### QueueProcessor, WorkPool, QueueProcessor_proofs

A step is what one thread does between two points where another can run. The list,
the semaphore value, the mutex holder and the state are the fields of
`HFS_QUEUE_PROCESSOR`; `pc`/`cur` are the dispatch threads, `ppc`/`offered` the calls of
`hfsQueueItem`. `CommonQueueDispatch` is `TestState`, `SemWait`, `LockQueue`, `Dequeue`,
`Process`; `hfsQueueItem` is `QueueItem` (call and list test), `CheckStarted` (the unlocked
read of the state), `LockForInsert`, `Insert`, `Post` (with the undo when `sem_post` fails).
`hfsQueueSetState` is `SetState`, `hfsQueueDrain` is `DrainBegin`/`DrainEnd`. The owner's
obligation not to queue an item that is being processed is the guard `~InHand`; see
the limits in section 6 for the one place that breaks it.

`WorkPool` is what the code that uses a queue may rely on: accept at the tail, start
from the head, finish. ServerConn is written on top of it.

### ServerConn, RequestReply, ServerConn_proofs

A slot is an index of `pPollFds`/`pClientConnCtx` with its `fd`, `used` and `pend`
(`PendingCommands`). An item is a slot number, as `clientIdx` is; the connection and
number of the request it carries are there for the properties only. Actions follow the
threads: the inbound thread (`Accept`, `Activate`, `ReadRequest`, `CountRead`, `CountStore`,
`Drop`), the workers (`Serve`, `Respond`), the outbound thread (`TakeResponse`,
`SendResponse`, `UncountRead`, `UncountStore`, `DropAfterSend`, `ReleaseTest`, `Release`) and
the config thread (`NudgeBegin`, `NudgeSlot`). `++` and `--` on the plain int are a read and a
write; `RELEASE_SOCKET_IF_NO_PENDING` is its test and its assignments. Clients connect,
send, close (`fin`) or reset (`rst`); `broken` is a connection whose peer has answered a
response with a reset, on which the next `send` raises SIGPIPE.

The inbound thread's `Drop` does the assignments of `DEACTIVATE_SOCKET` and
`RELEASE_SOCKET_IF_NO_PENDING` in one step, which is coarser than the code: they are made
without a lock. Only that thread gives a slot to a new connection, so that nothing can be
put into the slot between them; what the outbound thread may see in between is a descriptor
that is closed and not yet -1, on which its `send` fails just the same. Its own deactivation,
test and release are three steps.

`RequestReply` promises a client answers to its own requests, each at most once: `Ask` is the
client's `send` (`sent`), whether or not the server ever reads it.

### ClientConn, MCClientConn, ClientConn_proofs, ClientItems_proofs

An item is the buffer of a caller's nth request; `target` is its `clientIdx`, `status` its
header's status, `signal` its semaphore. `Call`, `Retry` and `Return` are the callers (with
`hfsDegradedMDSRequest`/`hfsDegradedDSRequest`); `Take` to `PostToken` is
`clientOutBoundProcessing`, with `clientIdx` read afresh wherever the code does so, also
after the caller has been signalled and may have changed or freed the buffer
(`ClientIdx`); `Receive`, `Unlink`, `Signal`, `Lose` are the inbound thread;
`ConfigChanged` to `ReleaseClient` is the thread of `hfsConfigChanged`. `PendingCommands`
changes together with the list, under one mutex, and is its size. The outbound queue is a
plain sequence here, not a `WorkPool`: a retry queues a buffer the pool may not have
finished with. `MCClientConn` gives two servers that back each other up.

The client's sockets are non-blocking (hercules_client.c:226-231), and
`clientOutBoundProcessing` takes every -1 of `send` for the loss of the connection. So
`SendFails` needs no dead server: `SendError` is a send to a server that is gone, or one that
meets a full connection (EAGAIN) with the server alive, before the first byte or after a part
of the request (`stream.cut`). The rest of a request that was cut off is what is sent next on
that connection. The server may then answer the first request from the bytes of both, never
see the second, or hang up (`Send`, `Lose`); what it would make of bytes that form another
command is left out. A connection is full at most `MaxFull` times. `ConnectServers` may fail
with all servers alive, for want of a socket: `hfsConfigChanged` then leaves its loop
(hercules_client.c:662-666) and the old set stays, so that `Swap` (684-690) is reached only with
a set in which every server is connected.

### MetaServer, DataServer

`MetaServer` has, per pair of servers, the tables of the MySQL database they share: `inode`
(handle to attributes), `extents` (file to its rows of server and handle) and `names`, in the
order of insertion, which is the order a select gives as nothing is ever deleted; rows of
one file are only ever selected together, so the order between files is left out. `result` is, per
server, whose result waits on the one connection all its workers use; `lock` is
`serverMetaDataUpdateLock`; `job` is a client's request with the place its worker has
reached. A handler is its statements: `LookUp`/`LookUpStored` (`mysql_real_query`, then
`mysql_store_result`), `ReadDir`, `GetAttr` with `GetHandles`, `SetAttr` with
`CheckHandles` and one `InsertHandle` per row, `LockUpdates` to `InsertInode` for the
allocation, `AddDirent`. `OutOfSync` is a statement made while another thread's
result waits: it fails, and its command with it, wherever the code makes one.

Nothing keeps two workers from being inside `mysql_real_query` on the connection at once
(hercules_db_lib.c:35). `Cross` is two statements made so: each worker may take the reply to the
other's for its own (`Misread`: the rows of a like select, or success for a change that was never
made), get its own reply, get an error, or wait for ever for one that was read by the other
(`Outcomes`); a result may be left on the connection. The code notices nothing of it, so there is
nothing it promises afterwards; `crossed` remembers that it happened, and the properties say
what holds until then. What a worker reads from the rows of an unlike select is taken as an error,
and a change that was made and reported as failed is left out. The two servers of a pair are
taken to work on one database, as the client's use of the backup supposes; `dbOpenConnection` itself
connects to host NULL, its own machine (hercules_db_lib.c:100-107), so that this is a matter of how
the hosts are set up.

`DataServer` has, per server, the file of handle 0 (`counter`) and the bytes of every
handle's file; its operators are the I/O library's (a read past the end is
short, a write beyond it leaves a hole of zeros).

### FileCreate, FileTree, MCFileCreate, FileCreate_proofs, FileTree_proofs

A call is `Start`, the walk of the path (`WalkOn`, `Found`, `NotThere`, `ParentFound`), and
for a new file `ReadCounter`/`AllocExtent` for each extent, `AskInode`, `InodeDone`,
`AttributesDone` and `NameDone`; opening and examining end in `StatDone`, listing goes on
with `ListPage`, walking the path again for every page as `clnt_fuse_readdir` does. `Retry`
is `hfsDegradedMDSRequest`, for whatever reason the primary has refused; `GiveUp` returns
an error and frees nothing. `Work` lets the worker of a client's request go on
(`MetaStep`). Peculiarities kept: a lookup that fails for any reason means that the file
does not exist (`NotThere`, hercules_client_lib.c:1099); a data server that could not
allocate answers success with handle 0 (`Unlocked`); setting attributes that were half set
before a retry is a protocol error, and the inode is never named. A scenario, which is a
bound, says what the clients call, what `rand()` may give, which server may fail, how
many system calls may, and whether statements may cross (`Collide`).

`FileTree` is the promise: a name becomes visible together with a whole file whose extents
belong to no other, under a directory that is visible, and stays, as long as the database is
not `broken`, which is when statements have crossed. The mapping takes the
names that can be reached from the root; everything before `AddDirent` is a stutter.

### StripedIO, MCStripedIO, StripedIO_proofs

`BeginRead`, `BeginWrite` and `BeginSize` make the requests of a call, one per stripe (per
extent, for the size), a write one more for each second copy: `Count`, `From`, `TailSize`
are the arithmetic of the head and tail, `Extent`, `StripeOf` and `Backup` the mapping of
`hfsRaid5GetBlockMapping`. They are served or fail in any order (`ServeRead`, `ServeWrite`,
`ServeSize`, `Refuse`, `SendFails` when the server is gone, `SendIsCut` when it lives and the
connection is full), `Degrade` sends the failed ones again, `Return` is the
end of the call. `writes`, `over`, `seen` and `alone` are histories: which writes a byte may
hold, and which of them a read may return. So that a write can be told from the others,
each writes a value of its own (`IOAssumption`); the code never looks at the data.
A request that waits in the client's queue (`queued`) is sent, served and answered in one step, so
that whatever is not answered when a server dies (`Die`) was not sent yet and fails; one that is
already on the wire then is never answered, which is the finding of `client_hang`. So nothing is
said here of whether calls return. `errors` counts the system calls of servers that fail and the
sends to living servers that do; `hfs_write` looks at neither, so a copy may miss a completed
write, and the properties say what holds until one of them happens.

### ConfigUpdate, MCConfigUpdate, ConfigUpdate_proofs

`Edit` is the administrator, `Notify` the thread of `hfsWaitForFSUpdates`, `Answer` the
commands of the root on the extent, the pages and the login. A thread of the client reads
(`Open`, `GotExtent`, `GotPage`, with `ReadFails` turning to the backup), connects, and logs
in when it is the mounting one or waits for the swap; `Hear` starts another for each
notification, `Lock` takes `configUpdateMutex`. What `ClientConn` shows in detail, holding
the client and waiting for what is in flight, is one step here, `Swap` or `SwapFails`.
Notifications travel on every connection, so one can arrive where a page or the answer to a
login is expected; the code takes it for that answer. `disturbed` records it.

## 4. Runs

| Run | Bounds | Shows |
|---|---|---|
| `queue` | 3 items, 2 threads, 2 callers, semaphore limit 2 | all properties of the queue, the refinement of `WorkPool`, and progress, for any sequence of states |
| `server_polite` | 3 connections, 2 slots, 2 workers, 1 request each | slot reuse, overtaking responses, refinement of `RequestReply`, every request answered |
| `server_rude` | 2 connections, one of which sends a request, 2 slots, one change | close and reset at any moment: nothing sent twice, nothing kept; a client that stays, in a slot that stays its own, is notified whoever leaves, comes and asks during the walk over the table |
| `server_slot_leak` (violation) | 2 connections, 1 slot | a slot whose client closed while its last response was counted is never freed |
| `server_early_reuse` (violation) | 2 connections, 1 slot, 2 requests | a slot is released under a command that is being served |
| `client_update` | 2 callers, 2 threads, 2 tokens, 1 change | every call and the change end |
| `client_failure` | the same, one server dies at any moment or one send meets a full connection, not both | tokens stay balanced; completions too, and swaps are quiet, until a request is cut off; no freed buffer is used and no transmission is lost to a change until something fails |
| `file_create` | 2 clients, 2 pairs of metadata servers, 3 data servers, 1 name per page; seven scenarios, in two of which statements cross once | names show whole files only, extents belong to one file, handles are valid, no name twice in sequence, listings miss nothing, refinement of `FileTree`, every call returns, all of it until statements cross |
| `striped_io` | 2 clients, 3 data servers, stripes of 2 bytes, 8 bytes; four scenarios | reads return what was written, completed writes are on both copies, sizes are right, until a system call or a send to a living server fails |
| `config_update` | 3 updating threads, 2 servers per page, tables of 3 to 8 rows; four scenarios | what is read is the table, configurations only get newer, the last change arrives |
| `client_hang` (violation) | 1 caller, 1 thread, a server dies | a pending request on a lost connection is never completed |
| `client_wrong_drop` (violation) | 1 caller, 1 thread, no server dies, one send meets a full connection | the backup's connection is dropped in place of the failed one |

Why the bounds are enough: the semaphore limit is below the number of items, so that
`sem_post` fails; three connections on two slots make a third wait for a slot that
another has just left; two requests on one slot are needed for the early release, one
is enough for the leak; the scenarios of the file operations name the calls that meet:
the same name made twice, a listing while names are added, a path across pairs, writes that meet
inside and at the end of a stripe; with three data servers (`HFS_MIN_STRIPE_CNT`) both
copies of an extent and a third server exist, and one failure is what the mirroring is for; a
table of four rows fills its pages of two, one of five does not, three threads let two wait
for the mutex while one reads; two tokens and two threads let a change collect one token while the
other is in use (the code has 16 tokens, `HFS_OUTBOUND_THREAD_NR`, and asks for as many threads, of
which `MAX_THREADS_PER_QUEUE` leaves ten; the proofs hold for any numbers); a request that is refused or fails is sent twice, so an item is used twice
even with one call per caller. The counters that bound a run are `MaxRequests`,
`Askers`, `MaxCalls`, `MaxUpdates`, `MaxFull`, the scenarios (`Scenarios`, with the numbers of failing queries, system
calls and sends and of crossings in them), `MaxSize`, `Updaters`, and the single notification and single failing server; nothing
else is bounded. A server that dies and a full connection do not meet in one behaviour of `client_failure`
(`Failing = "either"`); the proofs cover both together. Deadlock is checked for the queue only: elsewhere, once clients have
used up their calls and the administrator the steps, the system rests.

Fairness is weak and per thread: dispatch threads, calls that have begun, workers, the
inbound thread as a whole, the outbound thread, the configuration thread. The code
has no thread that may stop (each is a loop around blocking calls), `process()` functions
return, and `send()` on a stream socket returns. Which connection the inbound thread turns
to, who wins a mutex or a token, and whether clients ever do anything is not assumed:
as the work of an instance is finite, weak fairness suffices. Liveness of the client
assumes that a server that lives answers, which `EveryRequestAnswered` of ServerConn
shows. In FileCreate fairness is that of the request path as a whole: each client's call
goes on (`Step`), whether its next step is its own or a server's; calls begin, servers
die, system calls fail and statements cross at will. StripedIO has none: its properties are safety. In ConfigUpdate the notifying thread, the inbound
thread, the mutex (some waiter gets it, no matter which) and each reading thread run.

Conditions in the properties. `EveryItemProcessed` is an implication whose hypothesis (the queue is
never stopped) holds of many behaviours of its run. `EveryClientNotified` promises nothing to a
client that leaves or whose slot is taken from it: an unlocked release (`Release`) may fall on a new
connection, which then is polled and told no more. Because of it the polite runs have no notifications: one
that was sent to a client that has left fails, and its failure path deactivates whatever the slot
has by then. In ClientConn, what holds of a failed send and what does not is told apart:
`TokensConserved` and `TypeOK` hold whatever fails; `SignalledOnce` and `SwapOnlyWhenQuiet` until a
request is cut off in the middle, after which a server may answer it and the caller be signalled
for a buffer it has freed; `ReferencedItemsLive` and `CallsAnswered` until anything fails, as the
sender then goes on with a buffer whose caller was signalled (`client_wrong_drop`);
`EveryCallReturns` and `ConfigChangeEnds` until a connection is full, as the failed sender may leave
the mutex of a connection locked: `client_update` lets nothing be full, which loses nothing, since the
two properties are satisfied at once when it is. A wrong unlock may let two threads at a list at
once; a list changes in one step here all the same.
In FileCreate all but `HandlesValid` hold until statements cross (`crossed`): before that, errors of
colliding statements, of servers and of disks are all included. Scenarios let two statements cross once,
which shows that the properties need the condition and loses nothing, for after it they promise nothing.
The properties of StripedIO speak of behaviours in which no system call of a server and no send to a
living one has failed (`errors = 0`): a request a data server has refused is sent again in the buffer of the
response, as a command no server implements, and so cannot succeed, and one that met a full connection
leaves a living copy without the write. Those of
ConfigUpdate leave out a `disturbed` client, and `NoDuplicateInSequence` and `ListingComplete` of
FileCreate a call that got an error for an answer (`trouble`); in `LastChangeAdopted` the hypothesis
`heard = told` also means that the last notification was not closed with the old connections
between the reading and the swap.

## 5. Proofs

`QueueProcessor_proofs` proves the safety properties of the queue for any set of items,
any finite set of threads, any callers and any semaphore limit, from `QueueAssumption`
alone. `TypeOK` is not inductive: that `list` is a sequence of items after `Insert` needs that
the caller holds an item (`OneOwner`); that the tail removed by a failed `Post` is
the caller's own item needs that nobody came between (`LockInv`). The inductive
invariant is

    IInv == TypeOK /\ LockInv /\ OneOwner /\ TokensMatchItems

with one lemma per conjunct (`TypeInductive`, `LockInductive`, `OwnerInductive`,
`TokensInductive`), one step per action under each. From it follow `TypeCorrect`,
`ItemsHaveOneOwner`, `TokensMatch`, `WokenNeverDisappointed` (a woken thread counts
among the tokens, so the list is not empty), `DrainIsSound`, and `ImplementsPool`: under
the mapping that leaves out an item whose token is not posted yet, `Post` is the
abstract acceptance, `Dequeue` the abstract start, `Process` the abstract finish, and
every other step a stutter; that is why a failed `sem_post` is invisible outside.

`ServerConn_proofs` proves `TypeOK` and `AnsweredOnce` for any finite sets of
connections and workers, any number of slots and way of closing. `TypeOK` needs `Busy` (the thread at
a place has the item and slot it works on) and `Least`, that a nonempty set of slot numbers
has a least one, so that `FirstFree` is a slot. `AnsweredOnce` is far from inductive: a request is
answered once because it is, at any time, in one place only. `OnceInv` says so:
`PendingOnce` and `QueuedOnce` (not twice in a queue), `WorkersApart` (not with two workers),
`Exclusive` (not in two of: queue, worker, outbound queue, outbound thread, already sent), and
`Fresh` (whatever is anywhere has a number that was read, so that the next one is new). The
early reuse of slots (section 6) does not harm it: items name slots, but a response is taken once.

The second half of `ServerConn_proofs` adds `SlotKeepsConnection`, `TableConsistent` and the
refinement of `RequestReply` (`RepliesImplemented`), under the assumption

    Polite == Closing # "any" /\ (Notify => Closing = "never")

that is: a client closes only when it has all its answers, and not at all where
notifications are sent to it, as `server_polite` has it. Without the assumption all
three are false: under the constants of `server_early_reuse`, where a slot is released under an item,
TLC finds a counterexample to each. The invariant `PInv` says that whoever has an answer coming holds the
line in the slot the item names (`Kept`), which no step but the client's own could take from
it: so no slot is deactivated or released under an item (`Activating`), and no `send` fails
(`NeverFails`). `PendingCommands` plays no part in it: the counts may be wrong, as
they are written without a lock. The refinement maps the client's `send` of a request to the abstract
request, the `send` of its response to the abstract answer and everything else to a stutter; that
the answer goes to the connection that asked is `SlotKeepsConnection` at the moment of the `send`.

`ClientConn_proofs` proves `TypeOK` and `TokensConserved` for any finite sets of callers and
threads and any failure of a server, and that connections are swapped only while no thread has a token
(`SwapExcludesThreads`). Types and tokens need each other:
no `sem_post` exceeds `NTokens` because the tokens are conserved, and counting them needs
the places to be the threads'. The invariant

    CInv == TypeOK /\ TokensConserved /\ AtWork /\ Holding /\ SwapsLeft

adds that a thread at work has an item, how many tokens the configuration thread has in
each of its states (all, when it swaps: then nobody else can have one), and that a
change swaps once at most. All of it holds whatever fails.

`ClientItems_proofs` follows the buffers, in two layers. However servers and sends fail, as long as
no request is cut off in the middle (`WayUncut` is `~stream.cut => WayInv`), an item is
in one place on its way from its call to its signal:

    WayInv == Exclusive /\ Alone /\ Awaited

and its caller is inside the call as long as it is; `SignalledOnce` (`CompletionsOnce`) is what the
last place says. With it, what is on a wire is on the list of its connection (`Listed`), and with all
tokens in one hand nobody is sending, so that empty lists mean `SwapOnlyWhenQuiet`
(`SwapsAreQuiet`), under the same condition. Until a server dies or a send to a living one fails
(`Untroubled`; without it TLC refutes `ReferencedItemsLive` and `CallsAnswered` under the constants of
`client_failure`), the places agree exactly (`SteadyUntroubled` is `Untroubled => Steady`):

    Steady == AllUp /\ Locked /\ Unsigned /\ Linked /\ Unlinked /\ Answered

An item is on a pending list exactly if it is being sent there, on that wire, or being unlinked
(`Linked`); the mutex keeps the inbound thread from signalling a caller whose buffer the sender has
still to look at (`Locked`, `Unsigned`); a signalled item has the status a server gave it (`Answered`). From it
follow `ReferencedItemsLive` (`BuffersLive`) and `CallsAnswered` (`ChangesFailNoCall`).

`ConfigUpdate_proofs` proves `NewestStays`, `TypeOK` and `ReadsExact` for any tables, page size,
scenario and set of updating threads. Never going back is `UpdateInv`, which is
`Types /\ OneInside /\ MountFirst /\ NotOvertaken`: one thread is between lock and unlock, nothing
runs beside the mount, and so nothing newer was put in place since a thread began to read. That a reading is
exact is `ReadInv`: of a reading that was not disturbed, during which the table did not change,
what has been read is what the table begins with (`Prefix`), the request that is out asks for the
row that follows (`Asks`), and at most one answer to it is on its way (`Sock`).

`FileCreate_proofs` proves `TypeOK`, `CopiesApart`, `HandlesValid` and `AttributesWhole` for any clients
making and reading files together, any servers, failing or not, failing system calls, statements that
fail on a busy connection, and any first server of a file, from the modules' assumptions alone, until
statements cross: what is inductive is `crossed \/ CreateInv`, since a step that crosses statements never
ends uncrossed (`CrossedLasts`). (`HandlesValid` is checked beyond that, and proved up to it.) None of
the properties is inductive. The invariant

    CreateInv == /\ Shaped /\ Tables /\ Disks /\ LaidOut
                 /\ OneOwner /\ NamesSettled /\ \A c \in Clients : Sound(c)

is an argument of ownership. `serverMetaDataUpdateLock` gives an inode to one client
(`OneOwner`: who holds the lock and has read the maximum has one that nobody else has), and
nobody else can know it before it has a name; so only its owner sets its attributes (`Sets`: at every
statement, also after a part of them was set before a retry, the rows are a beginning of
those it sends), and a name is given only when all are set (`Names`, `NamesSettled`). Whoever finds
the name finds a file that is settled, and reads in two selects what no longer changes (`Examines`):
`AttributesWhole`. `HandlesValid` is the same for a data server: the counter that a lock
holder has read is still the counter (`Draws`). `CopiesApart` is arithmetic: with at least three
servers, `Placement` of a stripe and of its copy differ whatever the first is, and
`LaidOut` says that the rows in the tables are laid out so.

`FileTree_proofs` proves that FileCreate implements `FileTree` (`CreationShowsWholeFiles`),
`NoDuplicateInSequence` (`NamesAreMadeOnce`) and `ListingComplete` (`ListingsAreComplete`), from `KernelAssumption` besides: the scenario
looks the parts of a path up one after the other, as the kernel does, and makes nothing
below a regular file, which the kernel refuses with ENOTDIR before the code is asked. All of it is again
until statements cross; `FileTree` has a variable `broken` for it. Three
invariants are added to `CreateInv`. `ExtentsApart`: the rows of different inodes, in whichever
tables, name different extents, because a handle is drawn once (`Draws`) and an extent is where
its owner drew it. `Paths`: a file that can be found has one path; names are only added, so
paths grow and never move, and what the mapping shows at a path is what it showed before, or a
new whole file where nothing was. `Before`: a lookup that found nothing says that a part of the path
led nowhere in the tables as they were when the call began; so a call that began after the
name was there finds it, and does not make it again.

For `ListingComplete`, a select of a directory is `InDirectory`, a
recursive function over the rows of the name table. That it returns each row of the directory, and
none twice (`Chosen`, `Different`), and that more rows only add to its end (`InDirectoryGrows`), is shown by
the smallest number of rows for which it would fail, so that no induction over data is needed.
A page follows what is listed and is empty only at the end (`PageFollows`). The invariant is `Lists`:
what a client has listed is what the directory at its path begins with. Every page looks the path
up again, and `Paths` says that all of them reach the same directory; a page under way is of a selection that
has all rows that were there when the call began, and begins with what is listed (`WholeListing`,
`PageOfListing`). So at the empty page nothing is missing.

`StripedIO_proofs` proves `TypeOK`, `CompletedWritesStored`, `ReadsExplained` and `SizeIsEnd` for any clients, any
sequences of calls with any offsets and sizes, any stripe size and number of extents, any layout
whose copies are on different servers, and any failing server; all but `TypeOK` until a system call
of a server or a send to a living one fails (`errors = 0`). (That a layout is such
is what `CopiesApart` and `HandlesValid` show of creation.) First the arithmetic: the
head, the stripes between and the tail that a call asks for cover its bytes, each once, and no
others (`Covers`, `Part`, `InShare`); two stripes of a file, and the two copies of one, never share a place
(`StripesApart`, `HomesApart`). The invariant is

    IOInv == /\ Files /\ Scripts /\ Faults /\ Fresh /\ Kept
             /\ \A c \in Clients : Asked(c) /\ Sees(c)

Its heart is `Kept`: each copy whose server is there holds, of each byte, a write on record that
is not among those replaced by any write that copy has already served. When a write
returns, both copies have served it or are gone, so what it replaced can be struck off the record.
`Fresh` makes the record unambiguous, `Asked` that a request carries what is on record for it, `Sees` that a
reader may see all that is on record and what it has received. At the return of a read, that the copy
it takes each byte from did answer needs that only one server fails and that the copies are apart.

`SizeIsEnd` has a proof of its own: the size of a file is the sum of the lengths of its extents, which
is right only as long as the extents before the last are full. The invariant is

    SizeInv == /\ IOInv /\ DOMAIN alone = Clients /\ Tight /\ Reached /\ FirstWrites
               /\ \A c \in Clients : Quiet(c) /\ Measured(c)

An extent ends only behind a byte that was written or is being written (`Tight`), a living copy
reaches as far as what was written to it (`Reached`), and while a client is alone with the file
nobody writes (`Quiet`) and every answer it has is right (`Measured`). The sum is a fold over the
extents; it is unfolded and compared with a count of bytes by a smallest set of extents for which
the two would differ (`Sums`), so that no induction over data is needed; that the count is the end of
the file is `Counted`: the places of an extent are in the order of the bytes of the file.

Only model-checked: all liveness, and ENABLED, which are out of the prover's reach.

## 6. Found, and left out

Disagreements shown by the violation runs:

- The last response goes out, the client closes, the inbound thread deactivates the slot
  while its count is still 1; the success path of the outbound thread counts down and
  looks no further. The slot stays used (`hercules_outbound.c:107`).
- A request is counted after it was queued and without a lock; the count can be 0
  while a command is served, the slot is released and reused
  (`hercules_inbound.c:380`).
- A connection lost with requests pending leaves their callers waiting for ever,
  where the comments in `hfs_read` count on the backup (`hercules_client_inbound.c:267`).
- After a failed send the thread signals the caller before it is done with
  `clientIdx` (`hercules_client_outbound.c:147`). The run has all servers alive: a full
  connection (EAGAIN) is enough, after which the failed connection stays locked.

ServerConn also contains the SIGPIPE that ends a server (`alive`): the server installs
no handler, unlike the client.

Modelled, and kept out of the properties by a hypothesis or a scenario because the code does
not recover from it:

- with both servers of a pair unreachable a listing never ends: every page repeats the offset
  of the request as its count (`Listed`);
- with one metadata server `hfs_create` divides by zero (hercules_client_lib.c:902): `Pairs` are whole pairs;
- a request refused by a data server cannot be retried (StripedIO, `Degrade`);
- a write that one copy missed is reported as done (StripedIO, `Refuse`, `SendIsCut`);
- two statements on one database connection take each other's replies (MetaServer, `Cross`);
- a request that was cut off in the middle is answered though its caller was told that it failed
  (ClientConn, `SendError`);
- a notification on the connection a client reads from or logs in on ends the reading early or fails
  the mount; an adopted configuration without metadata servers leaves `configUpdateMutex`
  locked by the next notification (hercules_client.c:636, place "left" in ConfigUpdate).

Abstractions of the modules above: requests are read and written whole; between two
fragments of one nothing else of interest happens on a connection. A caller has one
request outstanding in ClientConn, whereas `hfs_read` and `hfs_write` have one per stripe (to the
client's threads they look like several callers; in StripedIO they are separate requests).
Allocation failures are left out; a freed buffer whose `clientIdx` is read holds its old value or that of
a live request; a server dies once and does not come back. In FileCreate and ConfigUpdate
a server dies only when nobody waits for it, and in StripedIO no request is on the wire when one does:
such a wait does not end, which is the finding of
`client_hang` and, for the reader in `hfsGetFSExtentSize`, a loop over `recv` returning 0
with the mutex held. The requests of one creation for its extents are served in order;
another order only exchanges fresh handles. The entries `/`, `.` and `..` are left out of the
name tables. The root and its backup have the same configuration table. The connections
`hfsConfigChanged` makes are not logged in again, in the code as in the model.

Not modelled: the reader that collects a message from fragments, and byte orders (undone at
the other end); the authentication fields of a server's slot; reading a server's own part of
the table at its start; the logger (output only); the tests (drivers without assertions); the steps of `mkfs`
(its result is the initial state of the services); commands no client sends
(`CMD_REQ_DS_FREE_DATA_HANDLE`) and functions that only answer ENOSYS (`hfs_unlink`,
`hfs_truncate`); FUSE callbacks that are stubs; MySQL and the kernel's sockets, which appear
as their effects.
