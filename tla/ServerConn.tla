----------------------------- MODULE ServerConn -----------------------------
(***************************************************************************)
(* The connection table of a server (hercules_inbound.c, hercules_         *)
(* outbound.c, hercules_server.c): the inbound thread accepts connections  *)
(* into slots and reads requests from them, worker threads serve requests, *)
(* the one outbound thread sends the responses, and the config thread      *)
(* queues a notification for every connection.  A queued item remembers    *)
(* the slot it came from, never the connection.                            *)
(*                                                                         *)
(* The two queues are work pools: QueueProcessor implements WorkPool.      *)
(* A step ends where another thread can see its effect; PendingCommands is *)
(* a plain int, so ++ and -- are a read and a write.                       *)
(***************************************************************************)
EXTENDS Integers, Sequences, FiniteSets

CONSTANTS Conns,        \* the connections clients make
          Askers,       \* bound: those on which they send requests
          Workers,      \* threads of the pending command queue
          NSlots,       \* slots for clients (the listener has one of its own)
          MaxRequests,  \* bound: requests a client sends on a connection
          Notify,       \* the config semaphore is posted (at most once)
          Closing,      \* when clients close: "never", "idle" or "any" time
          NoConn,       \* -1 as a file descriptor
          NoItem        \* no item at hand

Slots == 1..NSlots
Requests == Conns \X (1..MaxRequests)

\* A queue item: the slot in clientIdx and, not in the code, what it carries:
\* the number of a request, or 0 for a notification, and its connection.
Item == [slot : Slots, conn : Conns, num : 0..MaxRequests]

ASSUME ServerAssumption ==
    /\ NSlots \in Nat \ {0}
    /\ MaxRequests \in Nat
    /\ Askers \subseteq Conns
    /\ Notify \in BOOLEAN
    /\ Closing \in {"never", "idle", "any"}
    /\ NoConn \notin Conns
    /\ NoItem \notin Item
    /\ IsFiniteSet(Conns) /\ IsFiniteSet(Workers)

VARIABLES link,     \* the client's end of each connection
          end,      \* the server's end of each connection
          sent,     \* requests the client wrote
          read,     \* requests the server read
          got,      \* responses the client was sent, oldest first
          nudged,   \* connections that were sent a notification
          fd,       \* pPollFds[s].fd
          used,     \* pClientConnCtx[s].used
          pend,     \* pClientConnCtx[s].PendingCommands
          pendq,    \* pQpendingCommands: items nobody serves yet
          work,     \* the item each worker serves
          outq,     \* pQOutBound: items nobody sends yet
          sending,  \* the item the outbound thread sends
          in,       \* where the inbound thread is
          out,      \* where the outbound thread is
          left,     \* slots the config thread has still to visit
          posted,   \* the config semaphore was posted
          alive     \* the server process runs

clients == <<link, sent, got, nudged>>
table == <<fd, used, pend>>
queues == <<pendq, work, outq, sending>>
config == <<left, posted>>
vars == <<clients, end, read, table, queues, in, out, config, alive>>

Sender == "outbound"
PendQ == INSTANCE WorkPool WITH Items <- Item, Threads <- Workers,
                                waiting <- pendq, running <- work
OutQ == INSTANCE WorkPool WITH Items <- Item, Threads <- {Sender},
                               waiting <- outq, running <- sending

\* The client's end of the connection in slot s.
Peer(s) == IF fd[s] = NoConn THEN "none" ELSE link[fd[s]]

Polling == [at |-> "poll"]
Idle == [at |-> "idle"]

\* The client has an answer to its nth request, or has one coming.
Outstanding(c) == {n \in 1..sent[c] : \A k \in DOMAIN got[c] : got[c][k] # <<c, n>>}

Init == /\ link = [c \in Conns |-> "away"]
        /\ end = [c \in Conns |-> "none"]
        /\ sent = [c \in Conns |-> 0]
        /\ read = [c \in Conns |-> 0]
        /\ got = [c \in Conns |-> <<>>]
        /\ nudged = {}
        /\ fd = [s \in Slots |-> NoConn]
        /\ used = [s \in Slots |-> FALSE]
        /\ pend = [s \in Slots |-> 0]
        /\ PendQ!Init
        /\ OutQ!Init
        /\ in = Polling
        /\ out = Idle
        /\ left = {}
        /\ posted = FALSE
        /\ alive = TRUE

-----------------------------------------------------------------------------
(* The clients *)

\* connect(): the connection waits in the listen backlog.
Connect(c) ==
    /\ link[c] = "away"
    /\ link' = [link EXCEPT ![c] = "open"]
    /\ end' = [end EXCEPT ![c] = "backlog"]
    /\ UNCHANGED <<sent, got, nudged, read, table, queues, in, out, config, alive>>

Request(c) ==
    /\ link[c] = "open"
    /\ end[c] # "closed"
    /\ c \in Askers /\ sent[c] < MaxRequests
    /\ sent' = [sent EXCEPT ![c] = @ + 1]
    /\ UNCHANGED <<link, end, got, nudged, read, table, queues, in, out, config, alive>>

\* The client closes its end (fin), or dies and resets the connection (rst).
Hangup(c) ==
    /\ link[c] = "open"
    /\ \/ /\ Closing = "idle"
          /\ Outstanding(c) = {}
          /\ link' = [link EXCEPT ![c] = "fin"]
       \/ /\ Closing = "any"
          /\ \E how \in {"fin", "rst"} : link' = [link EXCEPT ![c] = how]
    /\ UNCHANGED <<sent, got, nudged, end, read, table, queues, in, out, config, alive>>

-----------------------------------------------------------------------------
(* The inbound thread *)

DeactivateUnclosed(s) ==
    /\ fd' = [fd EXCEPT ![s] = NoConn]
    /\ UNCHANGED end

\* DEACTIVATE_SOCKET: whatever connection the slot has now is closed.
Deactivate(s) ==
    /\ fd' = [fd EXCEPT ![s] = NoConn]
    /\ end' = [c \in Conns |-> IF c = fd[s] THEN "closed" ELSE end[c]]

FreeSlotsUnchecked == Slots
FreeSlots == {s \in Slots : ~used[s]}
FirstFree == CHOOSE s \in FreeSlots : \A u \in FreeSlots : s <= u

\* hfsGetFreeClientConnection, under connectAcceptMutex: take the first free
\* slot, clear its count and deactivate it once more.  Without a free slot
\* the new connection is dropped.
Accept(c) ==
    /\ alive /\ in = Polling
    /\ left = {}
    /\ end[c] = "backlog"
    /\ \/ /\ FreeSlots = {}
          /\ end' = [end EXCEPT ![c] = "closed"]
          /\ UNCHANGED <<table, in>>
       \/ /\ FreeSlots # {}
          /\ used' = [used EXCEPT ![FirstFree] = TRUE]
          /\ pend' = [pend EXCEPT ![FirstFree] = 0]
          /\ Deactivate(FirstFree)
          /\ in' = [at |-> "activate", slot |-> FirstFree, conn |-> c]
    /\ UNCHANGED <<clients, read, queues, out, config, alive>>

\* ACTIVATE_SOCKET
Activate ==
    /\ alive /\ in.at = "activate"
    /\ used' = [used EXCEPT ![in.slot] = TRUE]
    /\ fd' = [fd EXCEPT ![in.slot] = in.conn]
    /\ end' = [end EXCEPT ![in.conn] = "open"]
    /\ in' = Polling
    /\ UNCHANGED <<clients, read, pend, queues, out, config, alive>>

\* A loop that read from every descriptor, whether poll() reported it or not.
ReadRequestUnpolled(s) ==
    /\ alive /\ in = Polling
    /\ fd[s] # NoConn
    /\ PendQ!Accept([slot |-> s, conn |-> fd[s], num |-> read[fd[s]] + 1])
    /\ read' = [read EXCEPT ![fd[s]] = @ + 1]
    /\ in' = [at |-> "count", slot |-> s]
    /\ UNCHANGED <<clients, end, table, outq, sending, out, config, alive>>

\* POLLIN on slot s: read a request, remember its slot, queue it.
ReadRequest(s) ==
    /\ alive /\ in = Polling
    /\ fd[s] # NoConn
    /\ LET c == fd[s]
           i == [slot |-> s, conn |-> c, num |-> read[c] + 1]
       IN /\ read[c] < sent[c]
          /\ PendQ!Accept(i)
          /\ read' = [read EXCEPT ![c] = @ + 1]
    /\ in' = [at |-> "count", slot |-> s]
    /\ UNCHANGED <<clients, end, table, outq, sending, out, config, alive>>

\* PendingCommands++ reads the count ...
CountRead ==
    /\ alive /\ in.at = "count"
    /\ in' = [at |-> "store", slot |-> in.slot, value |-> pend[in.slot]]
    /\ UNCHANGED <<clients, end, read, table, queues, out, config, alive>>

\* ... and writes it back.
CountStore ==
    /\ alive /\ in.at = "store"
    /\ pend' = [pend EXCEPT ![in.slot] = in.value + 1]
    /\ in' = Polling
    /\ UNCHANGED <<clients, end, read, fd, used, queues, out, config, alive>>

\* End of file once everything was read, or POLLHUP, POLLERR or a failed
\* recv at once: deactivate the slot and release it if nothing is pending.
\* Only this thread reuses slots, so that the assignments of both macros are
\* one step here; the outbound thread's own, which may fall on a slot that has
\* a new connection, are three (DropAfterSend, ReleaseTest, Release).
Drop(s) ==
    /\ alive /\ in = Polling
    /\ \/ Peer(s) = "fin" /\ read[fd[s]] = sent[fd[s]]
       \/ Peer(s) \in {"rst", "broken"}
    /\ Deactivate(s)
    /\ used' = [used EXCEPT ![s] = pend[s] # 0]
    /\ UNCHANGED <<clients, read, pend, queues, in, out, config, alive>>

-----------------------------------------------------------------------------
(* The worker threads *)

Serve(w) ==
    /\ alive
    /\ PendQ!Start(w)
    /\ UNCHANGED <<clients, end, read, table, outq, sending, in, out, config, alive>>

\* A worker that returned before queueing the response of a failed command.
RespondOnSuccess(w) ==
    /\ alive
    /\ \/ OutQ!Accept(work[w])
       \/ UNCHANGED <<outq, sending>>
    /\ PendQ!Finish(w)
    /\ UNCHANGED <<clients, end, read, table, in, out, config, alive>>

\* mdsPendingCommandProcessing, dsPendingCommandProcessing: whatever the
\* handler said, the item goes to the outbound queue; the worker is done.
Respond(w) ==
    /\ alive
    /\ OutQ!Accept(work[w])
    /\ PendQ!Finish(w)
    /\ UNCHANGED <<clients, end, read, table, in, out, config, alive>>

-----------------------------------------------------------------------------
(* The outbound thread: outBoundProcessing *)

TakeResponseLeaves ==
    /\ alive
    /\ out = Idle /\ outq # <<>>
    /\ sending' = [sending EXCEPT ![Sender] = Head(outq)]
    /\ out' = [at |-> "send"]
    /\ UNCHANGED <<clients, end, read, table, pendq, work, outq, in, config, alive>>

TakeResponse ==
    /\ alive
    /\ OutQ!Start(Sender)
    /\ out' = [at |-> "send"]
    /\ UNCHANGED <<clients, end, read, table, pendq, work, in, config, alive>>

\* The item goes to the connection that has its slot now.
Deliver(c, i) ==
    IF i.num = 0
    THEN nudged' = nudged \cup {c} /\ UNCHANGED got
    ELSE got' = [got EXCEPT ![c] = Append(@, <<i.conn, i.num>>)] /\ UNCHANGED nudged

\* send(): the response is delivered; or goes nowhere and is answered by a
\* reset; or the slot has no connection or one that was reset and send fails;
\* or, on a connection whose peer has answered with a reset, SIGPIPE ends the
\* server, which installs no handler for it.
SendResponse ==
    /\ alive /\ out.at = "send"
    /\ LET i == sending[Sender]
           c == fd[i.slot]
       IN \/ /\ Peer(i.slot) = "open"
             /\ Deliver(c, i)
             /\ out' = [at |-> "count", ok |-> TRUE]
             /\ UNCHANGED <<link, alive>>
          \/ /\ Peer(i.slot) = "fin"
             /\ link' = [link EXCEPT ![c] = "broken"]
             /\ out' = [at |-> "count", ok |-> TRUE]
             /\ UNCHANGED <<got, nudged, alive>>
          \/ /\ Peer(i.slot) \in {"none", "rst"}
             /\ out' = [at |-> "count", ok |-> FALSE]
             /\ UNCHANGED <<link, got, nudged, alive>>
          \/ /\ Peer(i.slot) = "broken"
             /\ alive' = FALSE
             /\ UNCHANGED <<link, got, nudged, out>>
    /\ UNCHANGED <<sent, end, read, table, queues, in, config>>

\* A thread that tried again when send() failed.
UncountReadRetries ==
    /\ alive /\ out.at = "count"
    /\ out' = IF out.ok THEN [at |-> "store", ok |-> TRUE,
                              value |-> pend[sending[Sender].slot]]
                        ELSE [at |-> "send"]
    /\ UNCHANGED <<clients, end, read, table, queues, in, config, alive>>

\* PendingCommands-- reads the count ...
UncountRead ==
    /\ alive /\ out.at = "count"
    /\ out' = [at |-> "store", ok |-> out.ok, value |-> pend[sending[Sender].slot]]
    /\ UNCHANGED <<clients, end, read, table, queues, in, config, alive>>

\* ... and writes it back.  On success the item is freed: nobody looks
\* whether the slot could be released.
UncountStore ==
    /\ alive /\ out.at = "store"
    /\ pend' = [pend EXCEPT ![sending[Sender].slot] = out.value - 1]
    /\ \/ /\ out.ok
          /\ OutQ!Finish(Sender)
          /\ out' = Idle
       \/ /\ ~out.ok
          /\ out' = [at |-> "deactivate"]
          /\ UNCHANGED <<outq, sending>>
    /\ UNCHANGED <<clients, end, read, fd, used, pendq, work, in, config, alive>>

DropAfterSend ==
    /\ alive /\ out.at = "deactivate"
    /\ Deactivate(sending[Sender].slot)
    /\ out' = [at |-> "check"]
    /\ UNCHANGED <<clients, read, used, pend, queues, in, config, alive>>

\* RELEASE_SOCKET_IF_NO_PENDING: the tests ...
ReleaseTest ==
    /\ alive /\ out.at = "check"
    /\ LET s == sending[Sender].slot
       IN IF pend[s] = 0 /\ fd[s] = NoConn
          THEN out' = [at |-> "release"] /\ UNCHANGED <<outq, sending>>
          ELSE out' = Idle /\ OutQ!Finish(Sender)
    /\ UNCHANGED <<clients, end, read, table, pendq, work, in, config, alive>>

\* ... and what follows from them, if need be on top of a new connection.
Release ==
    /\ alive /\ out.at = "release"
    /\ fd' = [fd EXCEPT ![sending[Sender].slot] = NoConn]
    /\ used' = [used EXCEPT ![sending[Sender].slot] = FALSE]
    /\ OutQ!Finish(Sender)
    /\ out' = Idle
    /\ UNCHANGED <<clients, end, read, pend, pendq, work, in, config, alive>>

-----------------------------------------------------------------------------
(* The config thread: hfsWaitForFSUpdates *)

\* semop() returns; the thread locks connectAcceptMutex.
NudgeBegin ==
    /\ alive /\ Notify /\ ~posted
    /\ in.at # "activate"
    /\ posted' = TRUE
    /\ left' = Slots
    /\ UNCHANGED <<clients, end, read, table, queues, in, out, alive>>

\* A thread that passed over connections with commands pending.
NudgeSlotIdle(s) ==
    /\ alive /\ s \in left
    /\ \A u \in left : s <= u
    /\ IF fd[s] # NoConn /\ pend[s] = 0
       THEN OutQ!Accept([slot |-> s, conn |-> fd[s], num |-> 0])
       ELSE UNCHANGED <<outq, sending>>
    /\ left' = left \ {s}
    /\ UNCHANGED <<clients, end, read, table, pendq, work, in, out, posted, alive>>

\* One notification for each active slot, in their order, and not counted in
\* PendingCommands; after the last slot the mutex is unlocked.
NudgeSlot(s) ==
    /\ alive /\ s \in left
    /\ \A u \in left : s <= u
    /\ IF fd[s] # NoConn
       THEN OutQ!Accept([slot |-> s, conn |-> fd[s], num |-> 0])
       ELSE UNCHANGED <<outq, sending>>
    /\ left' = left \ {s}
    /\ UNCHANGED <<clients, end, read, table, pendq, work, in, out, posted, alive>>

-----------------------------------------------------------------------------
Client == \E c \in Conns : Connect(c) \/ Request(c) \/ Hangup(c)

Inbound == \/ \E c \in Conns : Accept(c)
           \/ \E s \in Slots : ReadRequest(s) \/ Drop(s)
           \/ Activate \/ CountRead \/ CountStore
Worker(w) == Serve(w) \/ Respond(w)
Outbound == \/ TakeResponse \/ SendResponse \/ UncountRead \/ UncountStore
            \/ DropAfterSend \/ ReleaseTest \/ Release
Config == NudgeBegin \/ \E s \in Slots : NudgeSlot(s)

Server == \/ Inbound
          \/ \E w \in Workers : Worker(w)
          \/ Outbound
          \/ Config

Next == Client \/ Server

Spec == Init /\ [][Next]_vars

\* The threads run and send() returns.  Which connection the inbound thread
\* turns to next is left open: what there is to accept, read and drop is
\* finite.  Nothing is asked of the clients.
Fairness ==
    /\ WF_vars(Inbound)
    /\ \A w \in Workers : WF_vars(Worker(w))
    /\ WF_vars(Outbound)
    /\ WF_vars(\E s \in Slots : NudgeSlot(s))

FairSpec == Spec /\ Fairness

-----------------------------------------------------------------------------
InStates == {Polling}
    \cup [at : {"activate"}, slot : Slots, conn : Conns]
    \cup [at : {"count"}, slot : Slots]
    \cup [at : {"store"}, slot : Slots, value : Int]
OutStates == {Idle}
    \cup [at : {"send", "deactivate", "check", "release"}]
    \cup [at : {"count"}, ok : BOOLEAN]
    \cup [at : {"store"}, ok : BOOLEAN, value : Int]

TypeOK ==
    /\ link \in [Conns -> {"away", "open", "fin", "rst", "broken"}]
    /\ end \in [Conns -> {"none", "backlog", "open", "closed"}]
    /\ sent \in [Conns -> 0..MaxRequests]
    /\ read \in [Conns -> 0..MaxRequests]
    /\ got \in [Conns -> Seq(Requests)]
    /\ nudged \in SUBSET Conns
    /\ fd \in [Slots -> Conns \cup {NoConn}]
    /\ used \in [Slots -> BOOLEAN]
    /\ pend \in [Slots -> Int]
    /\ pendq \in Seq(Item)
    /\ work \in [Workers -> Item \cup {NoItem}]
    /\ outq \in Seq(Item)
    /\ sending \in [{Sender} -> Item \cup {NoItem}]
    /\ in \in InStates
    /\ out \in OutStates
    /\ left \in SUBSET Slots
    /\ posted \in BOOLEAN
    /\ alive \in BOOLEAN

\* The items some queue or thread holds and that were not sent yet.
Unsent == {pendq[k] : k \in DOMAIN pendq} \cup {outq[k] : k \in DOMAIN outq}
          \cup {work[w] : w \in {v \in Workers : work[v] # NoItem}}
          \cup (IF out.at = "send" THEN {sending[Sender]} ELSE {})

\* A slot still has the connection of every request that was read from it
\* and is not sent: clientIdx names the client the response is for.
SlotKeepsConnection == \A i \in Unsent : i.num > 0 => fd[i.slot] = i.conn

\* The macros' comment: a deactivated slot "is still used until all commands
\* on it go out", so no connection ever finds a stranger's command on it.
UsedUntilSent ==
    \A i \in Unsent : i.num > 0 => fd[i.slot] \in {i.conn, NoConn} /\ used[i.slot]

\* An open connection is in exactly one slot, and that slot is in use: none
\* is forgotten by poll(), none is shared.
TableConsistent ==
    /\ \A s, u \in Slots : s # u /\ fd[s] # NoConn => fd[s] # fd[u]
    /\ \A s \in Slots : fd[s] # NoConn => used[s] /\ end[fd[s]] = "open"
    /\ \A c \in Conns : end[c] = "open" => \E s \in Slots : fd[s] = c

\* Each client gets answers to its own requests, each one once.
ReplySpec == INSTANCE RequestReply WITH asked <- sent, got <- got
ImplementsReply == ReplySpec!Spec

\* No response is sent twice, to whomever: the threads hand an item on and
\* nobody keeps it.
AnsweredOnce ==
    \A c, d \in Conns : \A j \in DOMAIN got[c], k \in DOMAIN got[d] :
        <<c, j>> # <<d, k>> => got[c][j] # got[d][k]

\* Whatever the clients do, no item stays with the server for good: it is
\* sent, or given up after one failed send (or the server died).
EveryItemLeaves == \A i \in Item : (i \in Unsent) ~> (i \notin Unsent \/ ~alive)

\* A request on an accepted connection is answered in the end.
EveryRequestAnswered ==
    \A c \in Conns : \A n \in 1..MaxRequests :
        (end[c] = "open" /\ n <= sent[c]) ~>
            (\E k \in DOMAIN got[c] : got[c][k] = <<c, n>>)

\* Every connection that is open when the config thread takes the mutex is
\* told, whoever else comes and leaves while it walks over the table, as long
\* as its own client stays and its slot is not taken from it.
EveryClientNotified ==
    \A c \in Conns :
        (link[c] = "open" /\ end[c] = "open" /\ left = Slots)
            ~> (c \in nudged \/ link[c] # "open" \/ ~alive \/ \A s \in Slots : fd[s] # c)

\* A slot that was deactivated is freed for further use in the end.
SlotEventuallyFree ==
    \A s \in Slots : (used[s] /\ fd[s] = NoConn /\ in.at # "activate")
                        ~> (fd[s] # NoConn \/ ~used[s])
=============================================================================
