----------------------------- MODULE ClientConn -----------------------------
(***************************************************************************)
(* The client's request path (hercules_client.c, hercules_client_          *)
(* outbound.c, hercules_client_inbound.c and the callers in hercules_      *)
(* client_lib.c): a caller queues a request for the connection in          *)
(* clientIdx and waits on its semaphore; an outbound thread takes one of   *)
(* the critical section tokens and the connection's mutex, links the       *)
(* request to the connection's pending list and sends it; the inbound      *)
(* thread unlinks it when the response is read and signals the caller;     *)
(* after a failed transmission or a response that reports an error the     *)
(* caller sends the same buffer to the backup, once.  A configuration      *)
(* change takes every token, waits until nothing is pending, and swaps all *)
(* connections for new ones.                                               *)
(*                                                                         *)
(* PendingCommands changes with the pending list, under the same mutex: it *)
(* is the size of the list.                                                *)
(***************************************************************************)
EXTENDS Integers, Sequences, FiniteSets

CONSTANTS Callers,      \* application threads
          Threads,      \* outbound threads
          Servers,      \* the connections, one per server
          Backup,       \* the connection a failed request is sent to next
          NTokens,      \* HFS_OUTBOUND_THREAD_NR
          MaxCalls,     \* bound: requests of each caller
          MaxUpdates,   \* bound: configuration changes
          MaxFull,      \* bound: sends that meet a full connection
          Failing,      \* at most one server fails: "never", "any", or "either": that
                        \* or a full connection, not both
          NoItem,       \* no item at hand
          Nobody        \* the mutex is free

\* A queue item: the buffer a caller allocates for its nth request.
Items == Callers \X (1..MaxCalls)

ASSUME ClientAssumption ==
    /\ NTokens \in Nat \ {0} /\ MaxCalls \in Nat /\ MaxUpdates \in Nat /\ MaxFull \in Nat
    /\ Servers # {} /\ Backup \in [Servers -> Servers]
    /\ Failing \in {"never", "any", "either"}
    /\ NoItem \notin Items
    /\ Nobody \notin Threads
    /\ IsFiniteSet(Threads) /\ IsFiniteSet(Callers)

VARIABLES call,     \* where each caller is
          calls,    \* how many requests it has made
          target,   \* clientIdx of each item
          status,   \* hdr.status of each item
          signal,   \* the value of each item's completionSem
          outq,     \* pQOutBound
          cur,      \* the item each outbound thread works on
          at,       \* where each outbound thread is
          tokens,   \* clientOutBoundCritSections
          mutex,    \* who holds each mutexPendingCommandslst
          list,     \* each lstAnchorPendingCommands
          fd,       \* each connection: "up" or "closed"
          wire,     \* requests sent whose response was not read
          dead,     \* servers that failed
          in,       \* where the inbound thread is
          change,   \* where the configuration thread is
          held,     \* tokens it holds
          updates,  \* configuration changes so far
          swaps,    \* successful ones
          stream    \* history: how often a living server's connection had no room
                    \* for a request, and whether it had room for a part of one

callers == <<call, calls, target, status, signal>>
sending == <<outq, cur, at>>
conns == <<mutex, list, fd, wire, stream>>
config == <<change, held, updates, swaps>>
vars == <<callers, sending, tokens, conns, dead, in, config>>

Current(c) == <<c, calls[c]>>
Polling == [at |-> "poll"]

\* The item is in use: its caller has not freed it.
Live(i) == calls[i[1]] = i[2] /\ call[i[1]] # "idle"

\* What a read of clientIdx returns.  A buffer that was freed still holds its
\* old contents, or was allocated again for another request.
ClientIdx(i) == IF Live(i) THEN {target[i]}
                ELSE {target[i]} \cup {target[j] : j \in {k \in Items : Live(k)}}

Init == /\ call = [c \in Callers |-> "idle"]
        /\ calls = [c \in Callers |-> 0]
        /\ \E s \in Servers : target = [i \in Items |-> s]
        /\ status = [i \in Items |-> "none"]
        /\ signal = [i \in Items |-> 0]
        /\ outq = <<>>
        /\ cur = [t \in Threads |-> NoItem]
        /\ at = [t \in Threads |-> "idle"]
        /\ tokens = NTokens
        /\ mutex = [s \in Servers |-> Nobody]
        /\ list = [s \in Servers |-> {}]
        /\ fd = [s \in Servers |-> "up"]
        /\ wire = [s \in Servers |-> {}]
        /\ dead = {}
        /\ in = Polling
        /\ change = "idle"
        /\ held = 0
        /\ updates = 0
        /\ swaps = 0
        /\ stream = [full |-> 0, cut |-> FALSE]

-----------------------------------------------------------------------------
(* The callers: hfs_lookup, hfs_read and the others *)

\* Allocate a buffer, set clientIdx, queue it, wait.
Call(c, s) ==
    /\ call[c] = "idle"
    /\ calls[c] < MaxCalls
    /\ LET i == <<c, calls[c] + 1>>
       IN /\ target' = [target EXCEPT ![i] = s]
          /\ outq' = Append(outq, i)
    /\ calls' = [calls EXCEPT ![c] = @ + 1]
    /\ call' = [call EXCEPT ![c] = "waiting"]
    /\ UNCHANGED <<status, signal, cur, at, tokens, conns, dead, in, config>>

\* hfsDegradedMDSRequest, hfsDegradedDSRequest: the same buffer goes to the
\* backup, whether or not an outbound thread still works on it.
Retry(c) ==
    LET i == Current(c)
    IN /\ call[c] = "waiting"
       /\ signal[i] > 0
       /\ status[i] # "ok"
       /\ signal' = [signal EXCEPT ![i] = @ - 1]
       /\ target' = [target EXCEPT ![i] = Backup[@]]
       /\ outq' = Append(outq, i)
       /\ call' = [call EXCEPT ![c] = "retrying"]
       /\ UNCHANGED <<calls, status, cur, at, tokens, conns, dead, in, config>>

\* Free the buffer and return its status.
Return(c) ==
    LET i == Current(c)
    IN /\ call[c] # "idle"
       /\ signal[i] > 0
       /\ call[c] = "retrying" \/ status[i] = "ok"
       /\ signal' = [signal EXCEPT ![i] = @ - 1]
       /\ call' = [call EXCEPT ![c] = "idle"]
       /\ UNCHANGED <<calls, target, status, sending, tokens, conns, dead, in, config>>

-----------------------------------------------------------------------------
(* The outbound threads: clientOutBoundProcessing *)

\* The status is preset to HFS_TRANSMISSION_FAILED.
Take(t) ==
    /\ at[t] = "idle"
    /\ outq # <<>>
    /\ cur' = [cur EXCEPT ![t] = Head(outq)]
    /\ outq' = Tail(outq)
    /\ status' = [status EXCEPT ![Head(outq)] = "failed"]
    /\ at' = [at EXCEPT ![t] = "token"]
    /\ UNCHANGED <<call, calls, target, signal, tokens, conns, dead, in, config>>

TakeTokenUnguarded(t) ==
    /\ at[t] = "token"
    /\ tokens' = tokens - 1
    /\ at' = [at EXCEPT ![t] = "lock"]
    /\ UNCHANGED <<callers, outq, cur, conns, dead, in, config>>

TakeToken(t) ==
    /\ at[t] = "token"
    /\ tokens > 0
    /\ tokens' = tokens - 1
    /\ at' = [at EXCEPT ![t] = "lock"]
    /\ UNCHANGED <<callers, outq, cur, conns, dead, in, config>>

\* Lock the connection, count and link the request.
Lock(t) ==
    LET s == target[cur[t]]
    IN /\ at[t] = "lock"
       /\ mutex[s] = Nobody
       /\ mutex' = [mutex EXCEPT ![s] = t]
       /\ list' = [list EXCEPT ![s] = @ \cup {cur[t]}]
       /\ at' = [at EXCEPT ![t] = "send"]
       /\ UNCHANGED <<callers, outq, cur, tokens, fd, wire, stream, dead, in, config>>

PutOnWire(s, i) == wire' = [wire EXCEPT ![s] = @ \cup {i}]

\* send() succeeds: the request is on the wire, or, to a server that died,
\* lost.  After a request that was cut off it may be lost in that one.
Send(t) ==
    LET s == target[cur[t]]
    IN /\ at[t] = "send"
       /\ fd[s] = "up"
       /\ \/ s \notin dead /\ PutOnWire(s, cur[t])
          \/ (s \in dead \/ stream.cut) /\ UNCHANGED wire
       /\ at' = [at EXCEPT ![t] = "unlock"]
       /\ UNCHANGED <<callers, outq, cur, tokens, mutex, list, fd, stream, dead, in, config>>

\* send() fails for want of the connection, or, the socket being non-blocking,
\* for want of room (EAGAIN) with the server alive: before the first byte, or
\* after a part of the request went out, which what is sent next completes.
SendError(s, i) ==
    \/ (fd[s] = "closed" \/ s \in dead) /\ UNCHANGED <<wire, stream>>
    \/ /\ fd[s] = "up" /\ s \notin dead
       /\ stream.full < MaxFull
       /\ Failing = "either" => dead = {}
       /\ \E part \in BOOLEAN :
             /\ stream' = [full |-> stream.full + 1, cut |-> stream.cut \/ part]
             /\ IF part THEN PutOnWire(s, i) ELSE UNCHANGED wire

\* Any error of send(): clientOutBoundFailureHandler unlinks the request, sets
\* its status and signals the caller.
SendFails(t) ==
    LET s == target[cur[t]]
    IN /\ at[t] = "send"
       /\ SendError(s, cur[t])
       /\ list' = [list EXCEPT ![s] = @ \ {cur[t]}]
       /\ status' = [status EXCEPT ![cur[t]] = "failed"]
       /\ signal' = [signal EXCEPT ![cur[t]] = @ + 1]
       /\ at' = [at EXCEPT ![t] = "drop"]
       /\ UNCHANGED <<call, calls, target, outq, cur, tokens, mutex, fd, dead, in, config>>

DropReturns(t) ==
    /\ at[t] = "drop"
    /\ \E s \in ClientIdx(cur[t]) :
          /\ fd' = [fd EXCEPT ![s] = "closed"]
          /\ wire' = [wire EXCEPT ![s] = {}]
    /\ cur' = [cur EXCEPT ![t] = NoItem]
    /\ at' = [at EXCEPT ![t] = "idle"]
    /\ UNCHANGED <<callers, outq, tokens, mutex, list, stream, dead, in, config>>

\* DEACTIVATE_CLIENT_SIDE_SOCKET on what clientIdx says by now, unless the
\* status, read from the buffer after the caller was signalled, is one of
\* success by then: the retry was answered, or the buffer has another use.
Drop(t) ==
    /\ at[t] = "drop"
    /\ \/ \E s \in ClientIdx(cur[t]) :
             /\ fd' = [fd EXCEPT ![s] = "closed"]
             /\ wire' = [wire EXCEPT ![s] = {}]
       \/ /\ Live(cur[t]) => status[cur[t]] = "ok"
          /\ UNCHANGED <<fd, wire>>
    /\ at' = [at EXCEPT ![t] = "unlock"]
    /\ UNCHANGED <<callers, outq, cur, tokens, mutex, list, stream, dead, in, config>>

\* Unlock the mutex clientIdx names by now; a default mutex does not look who
\* unlocks it.
Unlock(t) ==
    /\ at[t] = "unlock"
    /\ \E s \in ClientIdx(cur[t]) : mutex' = [mutex EXCEPT ![s] = Nobody]
    /\ at' = [at EXCEPT ![t] = "post"]
    /\ UNCHANGED <<callers, outq, cur, tokens, list, fd, wire, stream, dead, in, config>>

PostTokenForgotten(t) ==
    /\ at[t] = "post"
    /\ cur' = [cur EXCEPT ![t] = NoItem]
    /\ at' = [at EXCEPT ![t] = "idle"]
    /\ UNCHANGED <<callers, outq, tokens, conns, dead, in, config>>

PostToken(t) ==
    /\ at[t] = "post"
    /\ tokens' = tokens + 1
    /\ cur' = [cur EXCEPT ![t] = NoItem]
    /\ at' = [at EXCEPT ![t] = "idle"]
    /\ UNCHANGED <<callers, outq, conns, dead, in, config>>

-----------------------------------------------------------------------------
(* The inbound thread *)

\* A whole response was read: it is in the buffer its cookie points to.  The
\* server did what was asked or reports an error.
Receive(s) ==
    /\ in = Polling
    /\ fd[s] = "up"
    /\ \E i \in wire[s] :
          /\ wire' = [wire EXCEPT ![s] = @ \ {i}]
          /\ \E answer \in {"ok", "refused"} : status' = [status EXCEPT ![i] = answer]
          /\ in' = [at |-> "unlink", server |-> s, item |-> i]
    /\ UNCHANGED <<call, calls, target, signal, sending, tokens, mutex, list, fd, stream, dead, config>>

UnlinkUnlocked ==
    /\ in.at = "unlink"
    /\ list' = [list EXCEPT ![in.server] = @ \ {in.item}]
    /\ in' = [in EXCEPT !.at = "signal"]
    /\ UNCHANGED <<callers, sending, tokens, mutex, fd, wire, stream, dead, config>>

\* Lock, count down, unlink, unlock.
Unlink ==
    /\ in.at = "unlink"
    /\ mutex[in.server] = Nobody
    /\ list' = [list EXCEPT ![in.server] = @ \ {in.item}]
    /\ in' = [in EXCEPT !.at = "signal"]
    /\ UNCHANGED <<callers, sending, tokens, mutex, fd, wire, stream, dead, config>>

Signal ==
    /\ in.at = "signal"
    /\ signal' = [signal EXCEPT ![in.item] = @ + 1]
    /\ in' = Polling
    /\ UNCHANGED <<call, calls, target, status, sending, tokens, conns, dead, config>>

LoseSignalsAll(s) ==
    /\ in = Polling
    /\ fd[s] = "up" /\ s \in dead
    /\ fd' = [fd EXCEPT ![s] = "closed"]
    /\ wire' = [wire EXCEPT ![s] = {}]
    /\ signal' = [i \in Items |-> signal[i] + IF i \in list[s] THEN 1 ELSE 0]
    /\ UNCHANGED <<call, calls, target, status, sending, tokens, mutex, list, stream, dead, in, config>>

\* End of file or an error on the connection: it is closed and no longer
\* polled.  Requests that are pending on it stay where they are.  A server
\* that lives may hang up on what it makes of a request that was cut off.
Lose(s) ==
    /\ in = Polling
    /\ fd[s] = "up"
    /\ s \in dead \/ stream.cut
    /\ fd' = [fd EXCEPT ![s] = "closed"]
    /\ wire' = [wire EXCEPT ![s] = {}]
    /\ UNCHANGED <<callers, sending, tokens, mutex, list, stream, dead, in, config>>

\* A server dies, some of its responses on the wire.
ServerDies(s) ==
    /\ dead = {}
    /\ \/ Failing = "any"
       \/ Failing = "either" /\ stream.full = 0
    /\ dead' = {s}
    /\ \E answered \in SUBSET wire[s] : wire' = [wire EXCEPT ![s] = answered]
    /\ UNCHANGED <<callers, sending, tokens, mutex, list, fd, stream, in, config>>

-----------------------------------------------------------------------------
(* The configuration thread: hfsConfigChanged *)

\* hfsUnsolicitedCommand starts the thread; it takes configUpdateMutex, so
\* that one runs at a time.
ConfigChanged ==
    /\ change = "idle"
    /\ updates < MaxUpdates
    /\ updates' = updates + 1
    /\ change' = "connect"
    /\ UNCHANGED <<callers, sending, tokens, conns, dead, in, held, swaps>>

\* hfsConnectServers needs every server; when it fails, for want of one or of
\* a socket, hfsConfigChanged leaves its loop and the old set is kept.
ConnectServers ==
    /\ change = "connect"
    /\ \/ dead = {} /\ change' = "hold"
       \/ change' = "idle"
    /\ UNCHANGED <<callers, sending, tokens, conns, dead, in, held, updates, swaps>>

HoldOneMore ==
    /\ change = "hold"
    /\ tokens > 0
    /\ tokens' = tokens - 1
    /\ held' = held + 1
    /\ change' = IF held' = NTokens + 1 THEN "flush" ELSE "hold"
    /\ UNCHANGED <<callers, sending, conns, dead, in, updates, swaps>>

\* hfsHoldClient takes the tokens one by one.
Hold ==
    /\ change = "hold"
    /\ tokens > 0
    /\ tokens' = tokens - 1
    /\ held' = held + 1
    /\ change' = IF held' = NTokens THEN "flush" ELSE "hold"
    /\ UNCHANGED <<callers, sending, conns, dead, in, updates, swaps>>

SwapUnflushed ==
    /\ change = "flush"
    /\ swaps' = swaps + 1
    /\ mutex' = [s \in Servers |-> Nobody]
    /\ list' = [s \in Servers |-> {}]
    /\ fd' = [s \in Servers |-> "up"]
    /\ wire' = [s \in Servers |-> {}]
    /\ change' = "release"
    /\ UNCHANGED <<callers, sending, tokens, stream, dead, in, held, updates>>

SwapKeepsSockets ==
    /\ change = "flush"
    /\ \A s \in Servers : list[s] = {}
    /\ swaps' = swaps + 1
    /\ fd' = [s \in Servers |-> "closed"]
    /\ change' = "release"
    /\ UNCHANGED <<callers, sending, tokens, mutex, list, wire, stream, dead, in, held, updates>>

\* hfsWaitForInFlight finds nothing pending: the new connections, with their
\* mutexes and lists, replace the old ones, which are closed later.
Swap ==
    /\ change = "flush"
    /\ \A s \in Servers : list[s] = {}
    /\ swaps' = swaps + 1
    /\ mutex' = [s \in Servers |-> Nobody]
    /\ list' = [s \in Servers |-> {}]
    /\ fd' = [s \in Servers |-> "up"]
    /\ wire' = [s \in Servers |-> {}]
    /\ change' = "release"
    /\ UNCHANGED <<callers, sending, tokens, stream, dead, in, held, updates>>

\* WAIT_RETRIES are over and something is pending: the change is given up.
GiveUp ==
    /\ change = "flush"
    /\ \E s \in Servers : list[s] # {}
    /\ change' = "release"
    /\ UNCHANGED <<callers, sending, tokens, conns, dead, in, held, updates, swaps>>

\* hfsReleaseClient posts the tokens one by one.
ReleaseClient ==
    /\ change = "release"
    /\ tokens' = tokens + 1
    /\ held' = held - 1
    /\ change' = IF held' = 0 THEN "idle" ELSE "release"
    /\ UNCHANGED <<callers, sending, conns, dead, in, updates, swaps>>

-----------------------------------------------------------------------------
GoOn(c) == Retry(c) \/ Return(c)
Outbound(t) == \/ Take(t) \/ TakeToken(t) \/ Lock(t) \/ Send(t) \/ SendFails(t)
               \/ Drop(t) \/ Unlock(t) \/ PostToken(t)
Inbound(s) == Receive(s) \/ Lose(s)
InboundGoesOn == Unlink \/ Signal
ConfigGoesOn == ConnectServers \/ Hold \/ Swap \/ GiveUp \/ ReleaseClient

Next == \/ \E c \in Callers, s \in Servers : Call(c, s)
        \/ \E c \in Callers : GoOn(c)
        \/ \E t \in Threads : Outbound(t)
        \/ \E s \in Servers : Inbound(s)
        \/ InboundGoesOn
        \/ \E s \in Servers : ServerDies(s)
        \/ ConfigChanged
        \/ ConfigGoesOn

Spec == Init /\ [][Next]_vars

\* Every thread runs and a server that lives answers (ServerConn shows that).
\* Nothing is assumed of who wins a token or a mutex: the work is finite, so
\* each is free for good once the others are done.
Fairness ==
    /\ \A c \in Callers : WF_vars(GoOn(c))
    /\ \A t \in Threads : WF_vars(Outbound(t))
    /\ WF_vars((\E s \in Servers : Inbound(s)) \/ InboundGoesOn)
    /\ WF_vars(ConfigGoesOn)

FairSpec == Spec /\ Fairness

-----------------------------------------------------------------------------
Critical == {"lock", "send", "drop", "unlock", "post"}
InStates == {Polling} \cup [at : {"unlink", "signal"}, server : Servers, item : Items]

TypeOK ==
    /\ call \in [Callers -> {"idle", "waiting", "retrying"}]
    /\ calls \in [Callers -> 0..MaxCalls]
    /\ target \in [Items -> Servers]
    /\ status \in [Items -> {"none", "ok", "refused", "failed"}]
    /\ signal \in [Items -> Nat]
    /\ outq \in Seq(Items)
    /\ cur \in [Threads -> Items \cup {NoItem}]
    /\ at \in [Threads -> {"idle", "token"} \cup Critical]
    /\ tokens \in 0..NTokens
    /\ mutex \in [Servers -> Threads \cup {Nobody}]
    /\ list \in [Servers -> SUBSET Items]
    /\ fd \in [Servers -> {"up", "closed"}]
    /\ wire \in [Servers -> SUBSET Items]
    /\ dead \in SUBSET Servers
    /\ in \in InStates
    /\ change \in {"idle", "connect", "hold", "flush", "release"}
    /\ held \in 0..NTokens
    /\ updates \in 0..MaxUpdates
    /\ swaps \in 0..MaxUpdates
    /\ stream \in [full : 0..MaxFull, cut : BOOLEAN]

\* A token is with a thread between its sem_wait and its sem_post, with the
\* configuration thread, or free: a failed send gives its token back too.
TokensConserved ==
    tokens + held + Cardinality({t \in Threads : at[t] \in Critical}) = NTokens

\* A completion is signalled once per wait, as long as no request was cut off
\* in the middle: a buffer is never freed or sent again because of a
\* completion meant for its earlier use.
SignalledOnce ==
    ~stream.cut => \A i \in Items : signal[i] <= IF Live(i) THEN 1 ELSE 0

\* No server has died and no connection was full.
Untroubled == dead = {} /\ stream.full = 0

\* As long as nothing failed, whoever refers to a request, a queue, a thread,
\* a list or the wire, its caller waits: nobody touches a buffer that was
\* freed, even though the caller is signalled by a thread that knows nothing
\* of the sender's.
ReferencedItemsLive ==
    Untroubled =>
        /\ \A k \in DOMAIN outq : Live(outq[k])
        /\ \A t \in Threads : at[t] \notin {"idle", "post"} => Live(cur[t])
        /\ \A s \in Servers : \A i \in list[s] \cup wire[s] : Live(i)
        /\ in # Polling => Live(in.item)

\* Connections are replaced only when no request is pending on any of them
\* and no thread is between taking a token and giving it back, whatever
\* failed, as long as no request was cut off in the middle: a configuration
\* change cuts nobody off.
SwapOnlyWhenQuiet ==
    [][swaps' # swaps /\ ~stream.cut =>
          /\ \A s \in Servers : list[s] = {} /\ wire[s] = {}
          /\ \A t \in Threads : at[t] \notin Critical]_vars

\* No transmission fails because of a configuration change: as long as nothing
\* else failed, what a call returns is a server's answer.
CallsAnswered == [][\A c \in Callers :
    Untroubled /\ call[c] # "idle" /\ call'[c] = "idle"
        => status[Current(c)] # "failed"]_vars

\* Every call returns in the end, unless a connection was full: the thread
\* that could not send then unlocks the mutex clientIdx names by that time.
\* With at most one server failing this is what the library's comments
\* promise for reads: the backup serves them.
EveryCallReturns ==
    \A c \in Callers : call[c] # "idle" ~> (call[c] = "idle" \/ stream.full > 0)

\* A configuration change ends, swapped or given up, and leaves the client
\* able to send, unless a connection was full.
ConfigChangeEnds ==
    change # "idle" ~> ((change = "idle" /\ held = 0) \/ stream.full > 0)

\* "Stop sending the packet and drop the connection": what a thread drops
\* and unlocks after a failed send is the connection it has locked.
DropsWhatFailed ==
    \A t \in Threads : at[t] = "drop" =>
        \A s \in ClientIdx(cur[t]) : mutex[s] = t
=============================================================================
