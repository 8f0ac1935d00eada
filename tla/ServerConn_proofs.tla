-------------------------- MODULE ServerConn_proofs --------------------------
(***************************************************************************)
(* Proofs about ServerConn, for any connections, slots, workers, number of *)
(* requests and behaviour of the clients: the types, and that no response  *)
(* is sent twice.  A request is in one place at a time, queued, served,    *)
(* queued for sending, being sent or answered (Exclusive), and each place  *)
(* has it once (NoTwice, WorkersApart); what is anywhere was read before   *)
(* (Fresh), so that the next one read is new.                              *)
(*                                                                         *)
(* Then for clients as the library writes them: one hangs up only when it  *)
(* expects no answer, or, where notifications are sent, never (Polite).  A *)
(* request that is not answered keeps its client on the line (Unanswered,  *)
(* Kept), so its slot is not deactivated, no send fails (NeverFails) and   *)
(* no slot is released under a new connection: each answer goes to the     *)
(* client that asked, once, and the table of slots agrees with the         *)
(* connections.  The counts in PendingCommands, which two threads update   *)
(* without a lock, play no part in this.                                   *)
(***************************************************************************)
EXTENDS ServerConn, FiniteSetTheorems, SequenceTheorems, TLAPS

-----------------------------------------------------------------------------
\* A set of numbers up to n has a least one: {1..x : x \in T} has a member that
\* strictly includes no other.
LEMMA Least ==
    ASSUME NEW n \in Nat, NEW T, T \subseteq 1..n, T # {}
    PROVE  \E x \in T : \A y \in T : x <= y
<1> DEFINE Below == {1..x : x \in T}
<1>1. Below \subseteq FiniteSubsetsOf(1..n) /\ Below # {}
  <2>1. ASSUME NEW x \in T PROVE 1..x \in FiniteSubsetsOf(1..n)
    BY FS_Interval, 1..x \subseteq 1..n DEF FiniteSubsetsOf
  <2> QED BY <2>1
<1>2. PICK b \in Below : \A d \in Below : ~(<<d, b>> \in StrictSubsetOrdering(1..n))
  BY <1>1, FS_StrictSubsetOrderingWellFounded, WFMin
<1>3. PICK x \in T : b = 1..x
  OBVIOUS
<1>4. ASSUME NEW y \in T PROVE x <= y
  <2>1. SUFFICES ASSUME y < x PROVE FALSE
    OBVIOUS
  <2>2. 1..y \subseteq 1..x /\ x \in 1..x /\ x \notin 1..y
    BY <2>1
  <2>3. 1..y \in Below /\ 1..y \subseteq 1..n /\ 1..x \subseteq 1..n
    OBVIOUS
  <2>4. 1..y # 1..x
    BY <2>2
  <2>5. <<1..y, 1..x>> \in StrictSubsetOrdering(1..n)
    BY <2>2, <2>3, <2>4 DEF StrictSubsetOrdering
  <2> HIDE DEF Below
  <2> QED BY <2>3, <2>5, <1>2, <1>3
<1> QED BY <1>4

\* hfsGetFreeClientConnection finds a slot whenever one is free.
LEMMA FirstFreeSlot == FreeSlots # {} => FirstFree \in FreeSlots /\ FirstFree \in Slots
<1> SUFFICES ASSUME FreeSlots # {} PROVE FirstFree \in FreeSlots /\ FirstFree \in Slots
  OBVIOUS
<1>1. FreeSlots \subseteq 1..NSlots
  BY DEF FreeSlots, Slots
<1>2. \E s \in FreeSlots : \A u \in FreeSlots : s <= u
  BY <1>1, Least, ServerAssumption
<1> QED BY <1>1, <1>2 DEF FirstFree, Slots

-----------------------------------------------------------------------------
(* Types *)

\* The outbound thread has an item exactly while it is at work.
Busy == sending[Sender] = NoItem <=> out = Idle
TInv == TypeOK /\ Busy

\* The slot and the connection the inbound thread is at.
LEMMA InboundAt ==
    ASSUME TypeOK
    PROVE  /\ in.at = "activate" => in.slot \in Slots /\ in.conn \in Conns
           /\ in.at = "count" => in.slot \in Slots
           /\ in.at = "store" => in.slot \in Slots /\ in.value \in Int
  BY DEF TypeOK, InStates, Polling

\* The outbound thread has an item, and at times a result and a count.
LEMMA OutboundAt ==
    ASSUME TInv
    PROVE  /\ out.at # "idle" => sending[Sender] \in Item
           /\ out.at \in {"count", "store"} => out.ok \in BOOLEAN
           /\ out.at = "store" => out.value \in Int
<1>1. out.at # "idle" => out # Idle
  BY DEF Idle
<1>2. out.at # "idle" => sending[Sender] \in Item
  BY <1>1 DEF TInv, TypeOK, Busy
<1>3. out \in OutStates
  BY DEF TInv, TypeOK
<1> QED BY <1>2, <1>3 DEF OutStates, Idle

\* The initial state.
LEMMA InitTypes == Init => TInv
<1> SUFFICES ASSUME Init PROVE TInv
  OBVIOUS
<1> USE ServerAssumption DEF Init, PendQ!Init, OutQ!Init
<1>1. TypeOK
  <2>1. in \in InStates /\ out \in OutStates
    BY DEF InStates, OutStates
  <2>2. got \in [Conns -> Seq(Requests)] /\ pendq \in Seq(Item) /\ outq \in Seq(Item)
    OBVIOUS
  <2>3. work \in [Workers -> Item \cup {NoItem}] /\ sending \in [{Sender} -> Item \cup {NoItem}]
    OBVIOUS
  <2>4. sent \in [Conns -> 0..MaxRequests] /\ read \in [Conns -> 0..MaxRequests]
    OBVIOUS
  <2>5. /\ link \in [Conns -> {"away", "open", "fin", "rst", "broken"}]
        /\ end \in [Conns -> {"none", "backlog", "open", "closed"}]
        /\ nudged \in SUBSET Conns
    OBVIOUS
  <2>6. /\ fd \in [Slots -> Conns \cup {NoConn}]
        /\ used \in [Slots -> BOOLEAN] /\ pend \in [Slots -> Int]
    OBVIOUS
  <2>7. left \in SUBSET Slots /\ posted \in BOOLEAN /\ alive \in BOOLEAN
    OBVIOUS
  <2> HIDE DEF Init
  <2> QED BY <2>1, <2>2, <2>3, <2>4, <2>5, <2>6, <2>7 DEF TypeOK
<1>2. Busy
  BY DEF Busy, Idle
<1> QED BY <1>1, <1>2 DEF TInv

\* Types are preserved by every step.
LEMMA TypesInductive == TInv /\ [Next]_vars => TInv'
<1> SUFFICES ASSUME TInv, [Next]_vars PROVE TInv'
  OBVIOUS
<1> USE ServerAssumption DEF TInv, TypeOK, Busy, clients, table, queues, config
<1>1. ASSUME NEW c \in Conns, Connect(c) PROVE TInv'
  BY <1>1 DEF Connect
<1>2. ASSUME NEW c \in Conns, Request(c) PROVE TInv'
  BY <1>2 DEF Request
<1>3. ASSUME NEW c \in Conns, Hangup(c) PROVE TInv'
  <2>1. PICK how \in {"fin", "rst"} : link' = [link EXCEPT ![c] = how]
    BY <1>3 DEF Hangup
  <2>2. link' \in [Conns -> {"away", "open", "fin", "rst", "broken"}]
    BY <2>1
  <2>3. UNCHANGED <<sent, got, nudged, end, read, table, queues, in, out, config, alive>>
    BY <1>3 DEF Hangup
  <2> QED BY <2>2, <2>3
<1>4. ASSUME NEW c \in Conns, Accept(c) PROVE TInv'
  <2>1. CASE FreeSlots = {}
    <3>1. end' = [end EXCEPT ![c] = "closed"]
      BY <1>4, <2>1 DEF Accept
    <3>2. end' \in [Conns -> {"none", "backlog", "open", "closed"}]
      BY <3>1
    <3>3. UNCHANGED <<clients, read, table, queues, in, out, config, alive>>
      BY <1>4, <2>1 DEF Accept
    <3> QED BY <3>2, <3>3
  <2>2. CASE FreeSlots # {}
    <3>1. FirstFree \in Slots
      BY <2>2, FirstFreeSlot
    <3>2. /\ used' = [used EXCEPT ![FirstFree] = TRUE]
          /\ pend' = [pend EXCEPT ![FirstFree] = 0]
          /\ Deactivate(FirstFree)
          /\ in' = [at |-> "activate", slot |-> FirstFree, conn |-> c]
          /\ UNCHANGED <<clients, read, queues, out, config, alive>>
      BY <1>4, <2>2 DEF Accept
    <3>3. in' \in InStates
      BY <3>1, <3>2 DEF InStates
    <3>4. end' \in [Conns -> {"none", "backlog", "open", "closed"}]
      BY <3>2 DEF Deactivate
    <3>5. fd' \in [Slots -> Conns \cup {NoConn}]
      BY <3>2 DEF Deactivate
    <3>6. used' \in [Slots -> BOOLEAN] /\ pend' \in [Slots -> Int]
      BY <3>1, <3>2
    <3> QED BY <3>2, <3>3, <3>4, <3>5, <3>6
  <2> QED BY <2>1, <2>2
<1>5. CASE Activate
  <2>1. in.slot \in Slots /\ in.conn \in Conns
    BY <1>5, InboundAt DEF Activate
  <2>2. in' \in InStates
    BY <1>5 DEF Activate, InStates
  <2> QED BY <1>5, <2>1, <2>2 DEF Activate
<1>6. ASSUME NEW s \in Slots, ReadRequest(s) PROVE TInv'
  <2>1. fd[s] \in Conns /\ read[fd[s]] + 1 \in 0..MaxRequests
    BY <1>6 DEF ReadRequest
  <2>2. [slot |-> s, conn |-> fd[s], num |-> read[fd[s]] + 1] \in Item
    BY <2>1 DEF Item
  <2>3. pendq' \in Seq(Item)
    BY <1>6, <2>2 DEF ReadRequest, PendQ!Accept
  <2>4. in' \in InStates
    BY <1>6 DEF ReadRequest, InStates
  <2>5. read' \in [Conns -> 0..MaxRequests]
    BY <1>6, <2>1 DEF ReadRequest
  <2>6. UNCHANGED <<work, clients, end, table, outq, sending, out, config, alive>>
    BY <1>6 DEF ReadRequest, PendQ!Accept
  <2> QED BY <2>3, <2>4, <2>5, <2>6
<1>7. CASE CountRead
  <2>1. in' \in InStates
    BY <1>7, InboundAt DEF CountRead, InStates
  <2> QED BY <1>7, <2>1 DEF CountRead
<1>8. CASE CountStore
  <2>1. in.slot \in Slots /\ in.value \in Int
    BY <1>8, InboundAt DEF CountStore
  <2>2. in' \in InStates
    BY <1>8 DEF CountStore, InStates
  <2>3. pend' \in [Slots -> Int]
    BY <1>8, <2>1 DEF CountStore
  <2> QED BY <1>8, <2>2, <2>3 DEF CountStore
<1>9. ASSUME NEW s \in Slots, Drop(s) PROVE TInv'
  BY <1>9 DEF Drop, Deactivate
<1>10. ASSUME NEW w \in Workers, Serve(w) PROVE TInv'
  <2>1. Head(pendq) \in Item /\ Tail(pendq) \in Seq(Item)
    BY <1>10 DEF Serve, PendQ!Start
  <2>2. work' \in [Workers -> Item \cup {NoItem}] /\ pendq' \in Seq(Item)
    BY <1>10, <2>1 DEF Serve, PendQ!Start
  <2> QED BY <1>10, <2>2 DEF Serve
<1>11. ASSUME NEW w \in Workers, Respond(w) PROVE TInv'
  <2>1. work[w] \in Item
    BY <1>11 DEF Respond, PendQ!Finish
  <2>2. outq' \in Seq(Item) /\ UNCHANGED sending
    BY <1>11, <2>1 DEF Respond, OutQ!Accept
  <2>3. work' \in [Workers -> Item \cup {NoItem}] /\ UNCHANGED pendq
    BY <1>11 DEF Respond, PendQ!Finish
  <2> QED BY <1>11, <2>2, <2>3 DEF Respond
<1>12. CASE TakeResponse
  <2>1. Head(outq) \in Item /\ Tail(outq) \in Seq(Item)
    BY <1>12 DEF TakeResponse, OutQ!Start
  <2>2. sending' \in [{Sender} -> Item \cup {NoItem}] /\ outq' \in Seq(Item)
    BY <1>12, <2>1 DEF TakeResponse, OutQ!Start
  <2>3. out' \in OutStates
    BY <1>12 DEF TakeResponse, OutStates
  <2>4. sending'[Sender] # NoItem /\ out' # Idle
    BY <1>12, <2>1 DEF TakeResponse, OutQ!Start, Idle
  <2> QED BY <1>12, <2>2, <2>3, <2>4 DEF TakeResponse
<1>13. CASE SendResponse
  <2> DEFINE i == sending[Sender]
  <2>1. i \in Item /\ i.slot \in Slots /\ i.conn \in Conns /\ i.num \in 0..MaxRequests
    BY <1>13, OutboundAt DEF SendResponse, Item
  <2>2. UNCHANGED <<sent, end, read, table, queues, in, config>>
    BY <1>13 DEF SendResponse
  <2>3. out' \in OutStates /\ (out' = Idle <=> out = Idle)
    <3>1. out # Idle
      BY <1>13 DEF SendResponse, Idle
    <3>2. CASE \E ok \in BOOLEAN : out' = [at |-> "count", ok |-> ok]
      BY <3>1, <3>2 DEF OutStates, Idle
    <3>3. CASE UNCHANGED out
      BY <3>3
    <3> QED BY <1>13, <3>2, <3>3 DEF SendResponse
  <2>4. CASE Peer(i.slot) = "open" /\ Deliver(fd[i.slot], i) /\ UNCHANGED <<link, alive>>
    <3>1. fd[i.slot] \in Conns
      BY <2>1, <2>4 DEF Peer
    <3>2. CASE i.num = 0
      BY <2>2, <2>3, <2>4, <3>1, <3>2 DEF Deliver
    <3>3. CASE i.num # 0
      <4>1. <<i.conn, i.num>> \in Requests
        BY <2>1, <3>3 DEF Requests
      <4>2. got' \in [Conns -> Seq(Requests)]
        <5>1. got' = [got EXCEPT ![fd[i.slot]] = Append(@, <<i.conn, i.num>>)]
          BY <2>4, <3>3 DEF Deliver
        <5>2. Append(got[fd[i.slot]], <<i.conn, i.num>>) \in Seq(Requests)
          BY <3>1, <4>1
        <5> QED BY <5>1, <5>2
      <4> QED BY <2>2, <2>3, <2>4, <3>3, <4>2 DEF Deliver
    <3> QED BY <3>2, <3>3
  <2>5. CASE /\ link' = [link EXCEPT ![fd[i.slot]] = "broken"]
             /\ UNCHANGED <<got, nudged, alive>>
    BY <2>2, <2>3, <2>5
  <2>6. CASE UNCHANGED <<link, got, nudged>> /\ alive' \in BOOLEAN
    BY <2>2, <2>3, <2>6
  <2> QED BY <1>13, <2>4, <2>5, <2>6 DEF SendResponse
<1>14. CASE UncountRead
  <2>1. sending[Sender].slot \in Slots /\ out.ok \in BOOLEAN
    BY <1>14, OutboundAt DEF UncountRead, Item
  <2>2. out' \in OutStates /\ out' # Idle /\ out # Idle
    BY <1>14, <2>1 DEF UncountRead, OutStates, Idle
  <2> QED BY <1>14, <2>2 DEF UncountRead
<1>15. CASE UncountStore
  <2>1. sending[Sender].slot \in Slots /\ out.value \in Int
    BY <1>15, OutboundAt DEF UncountStore, Item
  <2>2. pend' \in [Slots -> Int]
    BY <1>15, <2>1 DEF UncountStore
  <2>3. out # Idle
    BY <1>15 DEF UncountStore, Idle
  <2>4. CASE OutQ!Finish(Sender) /\ out' = Idle
    BY <1>15, <2>2, <2>4 DEF UncountStore, OutQ!Finish, OutStates
  <2>5. CASE out' = [at |-> "deactivate"] /\ UNCHANGED <<outq, sending>>
    BY <1>15, <2>2, <2>3, <2>5 DEF UncountStore, OutStates, Idle
  <2> QED BY <1>15, <2>4, <2>5 DEF UncountStore
<1>16. CASE DropAfterSend
  <2>1. out' \in OutStates /\ out # Idle /\ out' # Idle
    BY <1>16 DEF DropAfterSend, OutStates, Idle
  <2>2. fd' \in [Slots -> Conns \cup {NoConn}]
    BY <1>16 DEF DropAfterSend, Deactivate
  <2>3. end' \in [Conns -> {"none", "backlog", "open", "closed"}]
    BY <1>16 DEF DropAfterSend, Deactivate
  <2> QED BY <1>16, <2>1, <2>2, <2>3 DEF DropAfterSend
<1>17. CASE ReleaseTest
  <2>1. CASE out' = [at |-> "release"] /\ UNCHANGED <<outq, sending>>
    BY <1>17, <2>1 DEF ReleaseTest, OutStates, Idle
  <2>2. CASE out' = Idle /\ OutQ!Finish(Sender)
    BY <1>17, <2>2 DEF ReleaseTest, OutQ!Finish, OutStates
  <2> QED BY <1>17, <2>1, <2>2 DEF ReleaseTest
<1>18. CASE Release
  BY <1>18 DEF Release, OutQ!Finish, OutStates
<1>19. CASE NudgeBegin
  BY <1>19 DEF NudgeBegin
<1>20. ASSUME NEW s \in Slots, NudgeSlot(s) PROVE TInv'
  <2>1. CASE fd[s] # NoConn
    <3>1. [slot |-> s, conn |-> fd[s], num |-> 0] \in Item
      BY <2>1 DEF Item
    <3>2. outq' \in Seq(Item) /\ UNCHANGED sending
      <4>1. OutQ!Accept([slot |-> s, conn |-> fd[s], num |-> 0])
        BY <1>20, <2>1 DEF NudgeSlot
      <4> QED BY <3>1, <4>1 DEF OutQ!Accept
    <3> QED BY <1>20, <3>2 DEF NudgeSlot
  <2>2. CASE fd[s] = NoConn
    BY <1>20, <2>2 DEF NudgeSlot
  <2> QED BY <2>1, <2>2
<1>21. CASE UNCHANGED vars
  BY <1>21 DEF vars
<1> QED
  BY <1>1, <1>2, <1>3, <1>4, <1>5, <1>6, <1>7, <1>8, <1>9, <1>10, <1>11, <1>12,
     <1>13, <1>14, <1>15, <1>16, <1>17, <1>18, <1>19, <1>20, <1>21
  DEF Next, Client, Server, Inbound, Worker, Outbound, Config

\* TypeOK: the variables of the connection table have their types.
THEOREM TypeCorrect == Spec => []TypeOK
<1>1. TInv => TypeOK
  BY DEF TInv
<1> QED BY <1>1, InitTypes, TypesInductive, PTL DEF Spec

-----------------------------------------------------------------------------
(* Where a request is *)

Key(i) == <<i.conn, i.num>>
Pending(r) == \E k \in DOMAIN pendq : Key(pendq[k]) = r
Served(r) == \E w \in Workers : work[w] # NoItem /\ Key(work[w]) = r
Queued(r) == \E k \in DOMAIN outq : Key(outq[k]) = r
Sent(r) == out.at = "send" /\ Key(sending[Sender]) = r
Answered(r) == \E c \in Conns : \E k \in DOMAIN got[c] : got[c][k] = r

\* In one place at most.
Exclusive ==
    \A r \in Requests :
        /\ Pending(r) => ~Served(r) /\ ~Queued(r) /\ ~Sent(r) /\ ~Answered(r)
        /\ Served(r) => ~Queued(r) /\ ~Sent(r) /\ ~Answered(r)
        /\ Queued(r) => ~Sent(r) /\ ~Answered(r)
        /\ Sent(r) => ~Answered(r)

\* Once in a place; notifications, with number 0, may repeat, but are only sent.
PendingOnce ==
    /\ \A k \in DOMAIN pendq : pendq[k].num > 0
    /\ \A j, k \in DOMAIN pendq : j # k => Key(pendq[j]) # Key(pendq[k])
WorkersApart ==
    /\ \A w \in Workers : work[w] # NoItem => work[w].num > 0
    /\ \A v, w \in Workers : v # w /\ work[v] # NoItem /\ work[w] # NoItem
                                => Key(work[v]) # Key(work[w])
QueuedOnce ==
    \A j, k \in DOMAIN outq : j # k /\ outq[j].num > 0 => Key(outq[j]) # Key(outq[k])

\* Whatever is anywhere was read.
Fresh ==
    \A r \in Requests :
        Pending(r) \/ Served(r) \/ Queued(r) \/ Sent(r) \/ Answered(r) => r[2] <= read[r[1]]

OnceInv == Exclusive /\ PendingOnce /\ WorkersApart /\ QueuedOnce /\ AnsweredOnce /\ Fresh

places == <<pendq, work, outq, sending, got, read>>

\* A step that moves nothing.
LEMMA NothingMoves ==
    ASSUME OnceInv, UNCHANGED places, out'.at = "send" => out.at = "send"
    PROVE  OnceInv'
<1> USE DEF places
<1>1. /\ \A r \in Requests : Pending(r)' <=> Pending(r)
      /\ \A r \in Requests : Served(r)' <=> Served(r)
      /\ \A r \in Requests : Queued(r)' <=> Queued(r)
      /\ \A r \in Requests : Sent(r)' => Sent(r)
      /\ \A r \in Requests : Answered(r)' <=> Answered(r)
  BY DEF Pending, Served, Queued, Sent, Answered
<1>2. Exclusive' /\ Fresh'
  BY <1>1 DEF OnceInv, Exclusive, Fresh
<1>3. PendingOnce' /\ WorkersApart' /\ QueuedOnce' /\ AnsweredOnce'
  BY DEF OnceInv, PendingOnce, WorkersApart, QueuedOnce, AnsweredOnce
<1> QED BY <1>2, <1>3 DEF OnceInv

\* A request that is read is new: it comes after all that were read before.
LEMMA ReadMoves ==
    ASSUME TInv, OnceInv, NEW s \in Slots, ReadRequest(s)
    PROVE  OnceInv'
<1> DEFINE c == fd[s]
           i == [slot |-> s, conn |-> c, num |-> read[c] + 1]
<1>1. c \in Conns /\ read[c] \in 0..MaxRequests /\ read \in [Conns -> 0..MaxRequests]
  BY ServerAssumption DEF TInv, TypeOK, ReadRequest
<1>2. /\ pendq' = Append(pendq, i)
      /\ read' = [read EXCEPT ![c] = @ + 1]
      /\ UNCHANGED <<work, outq, sending, out, got>>
  BY DEF ReadRequest, PendQ!Accept, clients
<1>3. pendq \in Seq(Item)
  BY DEF TInv, TypeOK
<1>4. Key(i) = <<c, read[c] + 1>> /\ i.num > 0
  BY <1>1 DEF Key
<1> HIDE DEF i, c
<1>5. \A r \in Requests : Pending(r)' => Pending(r) \/ r = Key(i)
  BY <1>2, <1>3 DEF Pending
<1>6. \A r \in Requests : /\ Served(r)' <=> Served(r)
                          /\ Queued(r)' <=> Queued(r)
                          /\ Sent(r)' <=> Sent(r)
                          /\ Answered(r)' <=> Answered(r)
  BY <1>2 DEF Served, Queued, Sent, Answered
<1>7. ASSUME NEW r \in Requests, r = Key(i)
      PROVE  ~Pending(r) /\ ~Served(r) /\ ~Queued(r) /\ ~Sent(r) /\ ~Answered(r)
  <2>1. r[1] = c /\ r[2] = read[c] + 1
    BY <1>7, <1>4
  <2>2. ~(r[2] <= read[r[1]])
    BY <2>1, <1>1
  <2> QED BY <2>2 DEF OnceInv, Fresh
<1>8. Exclusive'
  BY <1>5, <1>6, <1>7 DEF OnceInv, Exclusive
<1>9. Fresh'
  <2>1. ASSUME NEW r \in Requests PROVE read[r[1]] <= read'[r[1]]
    BY <1>1, <1>2 DEF Requests
  <2>2. read'[c] = read[c] + 1
    BY <1>1, <1>2
  <2>3. ASSUME NEW r \in Requests, r = Key(i) PROVE r[2] <= read'[r[1]]
    BY <2>2, <2>3, <1>1, <1>4
  <2>4. ASSUME NEW r \in Requests, r[2] <= read[r[1]] PROVE r[2] <= read'[r[1]]
    BY <2>1, <2>4, <1>1, <1>2 DEF Requests
  <2> QED BY <2>3, <2>4, <1>5, <1>6 DEF OnceInv, Fresh
<1>10. PendingOnce'
  <2>1. ASSUME NEW k \in DOMAIN pendq PROVE Key(pendq[k]) # Key(i)
    <3>1. SUFFICES ASSUME Key(pendq[k]) = Key(i) PROVE FALSE
      OBVIOUS
    <3>2. pendq[k] \in Item /\ pendq[k].num > 0
      BY <1>3 DEF OnceInv, PendingOnce
    <3>3. Key(pendq[k]) \in Requests
      BY <3>2, ServerAssumption DEF Key, Item, Requests
    <3>4. Pending(Key(i))
      BY <3>1 DEF Pending
    <3> QED BY <3>1, <3>3, <3>4, <1>7
  <2>2. Len(pendq') = Len(pendq) + 1 /\ DOMAIN pendq' = 1..(Len(pendq) + 1)
    BY <1>2, <1>3
  <2>3. /\ \A k \in DOMAIN pendq : pendq'[k] = pendq[k]
        /\ pendq'[Len(pendq) + 1] = i
    BY <1>2, <1>3
  <2>4. \A k \in DOMAIN pendq' : k \in DOMAIN pendq \/ k = Len(pendq) + 1
    BY <2>2, <1>3
  <2> QED BY <2>1, <2>3, <2>4, <1>4 DEF OnceInv, PendingOnce
<1>11. WorkersApart' /\ QueuedOnce' /\ AnsweredOnce'
  BY <1>2 DEF OnceInv, WorkersApart, QueuedOnce, AnsweredOnce
<1> QED BY <1>8, <1>9, <1>10, <1>11 DEF OnceInv

\* A worker takes the request at the head.
LEMMA ServeMoves ==
    ASSUME TInv, OnceInv, NEW w \in Workers, Serve(w)
    PROVE  OnceInv'
<1> DEFINE i == Head(pendq)
<1>1. /\ pendq # <<>> /\ pendq' = Tail(pendq)
      /\ work[w] = NoItem /\ work' = [work EXCEPT ![w] = i]
      /\ UNCHANGED <<outq, sending, out, got, read>>
  BY DEF Serve, PendQ!Start, clients
<1>2. pendq \in Seq(Item) /\ work \in [Workers -> Item \cup {NoItem}]
  BY DEF TInv, TypeOK
<1>3. /\ i = pendq[1] /\ i \in Item /\ 1 \in DOMAIN pendq
      /\ DOMAIN pendq' = 1..(Len(pendq) - 1)
      /\ \A k \in DOMAIN pendq' : k + 1 \in DOMAIN pendq /\ k + 1 # 1 /\ pendq'[k] = pendq[k + 1]
  BY <1>1, <1>2
<1> HIDE DEF i
<1>4. \A r \in Requests : Pending(r)' => Pending(r) /\ r # Key(i)
  <2>1. \A k \in DOMAIN pendq' : Key(pendq'[k]) # Key(i)
    BY <1>3 DEF OnceInv, PendingOnce
  <2> QED BY <2>1, <1>3 DEF Pending
<1>5. \A r \in Requests : Served(r)' => Served(r) \/ r = Key(i)
  BY <1>1, <1>2 DEF Served
<1>6. Pending(Key(i)) /\ i.num > 0
  BY <1>3 DEF Pending, OnceInv, PendingOnce
<1>7. Key(i) \in Requests
  BY <1>3, <1>6, ServerAssumption DEF Key, Item, Requests
<1>8. \A r \in Requests : /\ Queued(r)' <=> Queued(r)
                          /\ Sent(r)' <=> Sent(r)
                          /\ Answered(r)' <=> Answered(r)
  BY <1>1 DEF Queued, Sent, Answered
<1>9. Exclusive'
  BY <1>4, <1>5, <1>6, <1>7, <1>8 DEF OnceInv, Exclusive
<1>10. Fresh'
  BY <1>1, <1>4, <1>5, <1>6, <1>7, <1>8 DEF OnceInv, Fresh
<1>11. PendingOnce'
  <2>1. ASSUME NEW j \in DOMAIN pendq', NEW k \in DOMAIN pendq', j # k
        PROVE  Key(pendq'[j]) # Key(pendq'[k])
    <3>1. j + 1 # k + 1
      BY <2>1, <1>2, <1>3
    <3> QED BY <3>1, <1>3 DEF OnceInv, PendingOnce
  <2> QED BY <2>1, <1>3 DEF OnceInv, PendingOnce
<1>12. WorkersApart'
  <2>1. \A v \in Workers : v # w => work'[v] = work[v]
    BY <1>1, <1>2
  <2>2. work'[w] = i
    BY <1>1, <1>2
  <2>3. \A v \in Workers : work[v] # NoItem => Key(work[v]) # Key(i)
    BY <1>6, <1>7 DEF OnceInv, Exclusive, Served
  <2> QED BY <2>1, <2>2, <2>3, <1>6 DEF OnceInv, WorkersApart
<1>13. QueuedOnce' /\ AnsweredOnce'
  BY <1>1 DEF OnceInv, QueuedOnce, AnsweredOnce
<1> QED BY <1>9, <1>10, <1>11, <1>12, <1>13 DEF OnceInv

\* Behind the last item, nothing comes twice.
LEMMA QueuedAppend ==
    ASSUME NEW i \in Item, outq \in Seq(Item), outq' = Append(outq, i), QueuedOnce,
           i.num > 0 => ~Queued(Key(i))
    PROVE  /\ QueuedOnce'
           /\ \A r \in Requests : Queued(r)' => Queued(r) \/ r = Key(i)
<1>1. /\ DOMAIN outq' = 1..(Len(outq) + 1) /\ DOMAIN outq = 1..Len(outq)
      /\ \A k \in DOMAIN outq : outq'[k] = outq[k] /\ outq[k] \in Item
      /\ outq'[Len(outq) + 1] = i
      /\ Len(outq) + 1 \notin DOMAIN outq
  OBVIOUS
<1>2. \A k \in DOMAIN outq' : k \in DOMAIN outq \/ k = Len(outq) + 1
  BY <1>1
<1>3. ASSUME NEW j \in DOMAIN outq', NEW k \in DOMAIN outq', j # k, outq'[j].num > 0
      PROVE  Key(outq'[j]) # Key(outq'[k])
  <2>1. CASE j \in DOMAIN outq /\ k \in DOMAIN outq
    BY <1>1, <1>3, <2>1 DEF QueuedOnce
  <2>2. CASE j \in DOMAIN outq /\ k = Len(outq) + 1
    <3>1. SUFFICES ASSUME Key(outq[j]) = Key(i) PROVE FALSE
      BY <1>1, <2>2
    <3>2. i.num > 0
      BY <3>1, <1>1, <1>3, <2>2 DEF Key
    <3> QED BY <3>1, <3>2, <2>2 DEF Queued
  <2>3. CASE j = Len(outq) + 1 /\ k \in DOMAIN outq
    <3>1. i.num > 0
      BY <1>1, <1>3, <2>3
    <3> QED BY <3>1, <1>1, <2>3 DEF Queued
  <2> QED BY <1>1, <1>3, <2>1, <2>2, <2>3
<1>4. QueuedOnce'
  BY <1>3 DEF QueuedOnce
<1>5. \A r \in Requests : Queued(r)' => Queued(r) \/ r = Key(i)
  BY <1>1, <1>2 DEF Queued
<1> QED BY <1>4, <1>5

\* A worker hands its request on.
LEMMA RespondMoves ==
    ASSUME TInv, OnceInv, NEW w \in Workers, Respond(w)
    PROVE  OnceInv'
<1> DEFINE i == work[w]
<1>1. /\ i # NoItem /\ work' = [work EXCEPT ![w] = NoItem]
      /\ outq' = Append(outq, i)
      /\ UNCHANGED <<pendq, sending, out, got, read>>
  BY DEF Respond, PendQ!Finish, OutQ!Accept, clients
<1>2. outq \in Seq(Item) /\ work \in [Workers -> Item \cup {NoItem}] /\ i \in Item
  BY <1>1 DEF TInv, TypeOK
<1>3. i.num > 0 /\ Served(Key(i))
  BY <1>1 DEF OnceInv, WorkersApart, Served
<1>4. Key(i) \in Requests
  BY <1>2, <1>3, ServerAssumption DEF Key, Item, Requests
<1>5. ~Queued(Key(i)) /\ ~Pending(Key(i)) /\ ~Sent(Key(i)) /\ ~Answered(Key(i))
  BY <1>3, <1>4 DEF OnceInv, Exclusive
<1>6. QueuedOnce' /\ \A r \in Requests : Queued(r)' => Queued(r) \/ r = Key(i)
  <2> HIDE DEF i
  <2> QED BY <1>1, <1>2, <1>5, QueuedAppend DEF OnceInv
<1>7. \A r \in Requests : Served(r)' => Served(r) /\ r # Key(i)
  BY <1>1, <1>2 DEF Served, OnceInv, WorkersApart
<1> HIDE DEF i
<1>8. \A r \in Requests : /\ Pending(r)' <=> Pending(r)
                          /\ Sent(r)' <=> Sent(r)
                          /\ Answered(r)' <=> Answered(r)
  BY <1>1 DEF Pending, Sent, Answered
<1>9. Exclusive'
  BY <1>5, <1>6, <1>7, <1>8 DEF OnceInv, Exclusive
<1>10. Fresh'
  BY <1>1, <1>3, <1>4, <1>6, <1>7, <1>8 DEF OnceInv, Fresh
<1>11. WorkersApart'
  BY <1>1, <1>2 DEF OnceInv, WorkersApart
<1>12. PendingOnce' /\ AnsweredOnce'
  BY <1>1 DEF OnceInv, PendingOnce, AnsweredOnce
<1> QED BY <1>6, <1>9, <1>10, <1>11, <1>12 DEF OnceInv

\* The config thread adds notifications, which are nobody's requests.
LEMMA NudgeMoves ==
    ASSUME TInv, OnceInv, NEW s \in Slots, NudgeSlot(s)
    PROVE  OnceInv'
<1>1. CASE fd[s] = NoConn
  BY <1>1, NothingMoves DEF NudgeSlot, places, clients
<1>2. CASE fd[s] # NoConn
  <2> DEFINE i == [slot |-> s, conn |-> fd[s], num |-> 0]
  <2>1. OutQ!Accept(i) /\ UNCHANGED <<pendq, work, out, got, read>>
    BY <1>2 DEF NudgeSlot, clients
  <2>2. i \in Item /\ outq \in Seq(Item) /\ i.num = 0
    BY <1>2, ServerAssumption DEF TInv, TypeOK, Item
  <2>3. Key(i) \notin Requests
    BY DEF Key, Requests
  <2> HIDE DEF i
  <2>4. outq' = Append(outq, i) /\ UNCHANGED sending
    BY <2>1 DEF OutQ!Accept
  <2>5. QueuedOnce' /\ \A r \in Requests : Queued(r)' => Queued(r)
    BY <2>2, <2>3, <2>4, QueuedAppend DEF OnceInv
  <2>6. \A r \in Requests : /\ Pending(r)' <=> Pending(r)
                            /\ Served(r)' <=> Served(r)
                            /\ Sent(r)' <=> Sent(r)
                            /\ Answered(r)' <=> Answered(r)
    BY <2>1, <2>4 DEF Pending, Served, Sent, Answered
  <2>7. Exclusive' /\ Fresh'
    BY <2>1, <2>5, <2>6 DEF OnceInv, Exclusive, Fresh
  <2>8. PendingOnce' /\ WorkersApart' /\ AnsweredOnce'
    BY <2>1 DEF OnceInv, PendingOnce, WorkersApart, AnsweredOnce
  <2> QED BY <2>5, <2>7, <2>8 DEF OnceInv
<1> QED BY <1>1, <1>2

\* The outbound thread takes the item at the head.
LEMMA TakeMoves ==
    ASSUME TInv, OnceInv, TakeResponse
    PROVE  OnceInv'
<1> DEFINE i == Head(outq)
<1>1. /\ outq # <<>> /\ outq' = Tail(outq)
      /\ sending[Sender] = NoItem /\ sending' = [sending EXCEPT ![Sender] = i]
      /\ out' = [at |-> "send"]
      /\ UNCHANGED <<pendq, work, got, read>>
  BY DEF TakeResponse, OutQ!Start, clients
<1>2. outq \in Seq(Item) /\ sending \in [{Sender} -> Item \cup {NoItem}]
  BY DEF TInv, TypeOK
<1>3. /\ i = outq[1] /\ i \in Item /\ 1 \in DOMAIN outq
      /\ DOMAIN outq' = 1..(Len(outq) - 1)
      /\ \A k \in DOMAIN outq' : k + 1 \in DOMAIN outq /\ k + 1 # 1 /\ outq'[k] = outq[k + 1]
  BY <1>1, <1>2
<1> HIDE DEF i
<1>4. \A r \in Requests : Queued(r)' => Queued(r) /\ r # Key(i)
  <2>1. ASSUME NEW r \in Requests, NEW k \in DOMAIN outq', Key(outq'[k]) = r
        PROVE  r # Key(i)
    <3>1. outq[k + 1] \in Item /\ Key(outq[k + 1]) \in Requests
      BY <1>2, <1>3, <2>1
    <3>2. outq[k + 1].num > 0
      BY <3>1, ServerAssumption DEF Key, Item, Requests
    <3> QED BY <3>2, <1>3, <2>1 DEF OnceInv, QueuedOnce
  <2>2. \A r \in Requests : Queued(r)' => Queued(r)
    BY <1>3 DEF Queued
  <2> QED BY <2>1, <2>2 DEF Queued
<1>5. \A r \in Requests : Sent(r)' => r = Key(i)
  BY <1>1, <1>2 DEF Sent
<1>6. Queued(Key(i))
  BY <1>3 DEF Queued
<1>7. \A r \in Requests : /\ Pending(r)' <=> Pending(r)
                          /\ Served(r)' <=> Served(r)
                          /\ Answered(r)' <=> Answered(r)
  BY <1>1 DEF Pending, Served, Answered
<1>8. Exclusive'
  BY <1>4, <1>5, <1>6, <1>7 DEF OnceInv, Exclusive
<1>9. Fresh'
  BY <1>1, <1>4, <1>5, <1>6, <1>7 DEF OnceInv, Fresh
<1>10. QueuedOnce'
  <2>1. ASSUME NEW j \in DOMAIN outq', NEW k \in DOMAIN outq', j # k, outq'[j].num > 0
        PROVE  Key(outq'[j]) # Key(outq'[k])
    <3>1. j + 1 # k + 1
      BY <2>1, <1>2, <1>3
    <3> QED BY <2>1, <3>1, <1>3 DEF OnceInv, QueuedOnce
  <2> QED BY <2>1 DEF QueuedOnce
<1>11. PendingOnce' /\ WorkersApart' /\ AnsweredOnce'
  BY <1>1 DEF OnceInv, PendingOnce, WorkersApart, AnsweredOnce
<1> QED BY <1>8, <1>9, <1>10, <1>11 DEF OnceInv

\* The response goes to whoever has the slot, or nowhere: it is not sent again.
LEMMA SendMoves ==
    ASSUME TInv, OnceInv, SendResponse
    PROVE  OnceInv'
<1> DEFINE i == sending[Sender]
           c == fd[i.slot]
<1>1. UNCHANGED <<pendq, work, outq, sending, read>> /\ out.at = "send"
  BY DEF SendResponse, queues
<1>2. i \in Item /\ i.slot \in Slots /\ got \in [Conns -> Seq(Requests)]
  BY <1>1, OutboundAt DEF TInv, TypeOK, Item
<1>3. CASE UNCHANGED got
  BY <1>1, <1>3, NothingMoves DEF places
<1>4. CASE /\ Peer(i.slot) = "open" /\ i.num # 0
           /\ got' = [got EXCEPT ![c] = Append(@, Key(i))]
           /\ out' = [at |-> "count", ok |-> TRUE]
  <2>1. c \in Conns /\ Key(i) \in Requests
    BY <1>2, <1>4, ServerAssumption DEF Peer, TInv, TypeOK, Key, Item, Requests
  <2>2. Sent(Key(i))
    BY <1>1 DEF Sent
  <2>3. ~Answered(Key(i)) /\ ~Pending(Key(i)) /\ ~Served(Key(i)) /\ ~Queued(Key(i))
    BY <2>1, <2>2 DEF OnceInv, Exclusive
  <2> HIDE DEF i, c
  <2>4. /\ \A d \in Conns : d # c => got'[d] = got[d]
        /\ got'[c] = Append(got[c], Key(i)) /\ got[c] \in Seq(Requests)
    BY <1>2, <1>4, <2>1
  <2>5. /\ DOMAIN got'[c] = 1..(Len(got[c]) + 1) /\ DOMAIN got[c] = 1..Len(got[c])
        /\ \A k \in DOMAIN got[c] : got'[c][k] = got[c][k]
        /\ got'[c][Len(got[c]) + 1] = Key(i)
        /\ \A k \in DOMAIN got'[c] : k \in DOMAIN got[c] \/ k = Len(got[c]) + 1
    BY <2>4
  <2>6. \A r \in Requests : Answered(r)' => Answered(r) \/ r = Key(i)
    BY <2>4, <2>5 DEF Answered
  <2>7. \A r \in Requests : ~Sent(r)'
    BY <1>4 DEF Sent
  <2>8. \A r \in Requests : /\ Pending(r)' <=> Pending(r)
                            /\ Served(r)' <=> Served(r)
                            /\ Queued(r)' <=> Queued(r)
    BY <1>1 DEF Pending, Served, Queued
  <2>9. Exclusive'
    BY <2>3, <2>6, <2>7, <2>8 DEF OnceInv, Exclusive
  <2>10. Fresh'
    BY <1>1, <2>1, <2>2, <2>6, <2>7, <2>8 DEF OnceInv, Fresh
  <2>11. AnsweredOnce'
    <3>1. ASSUME NEW d \in Conns, NEW k \in DOMAIN got'[d]
          PROVE  \/ k \in DOMAIN got[d] /\ got'[d][k] = got[d][k] /\ got[d][k] # Key(i)
                 \/ d = c /\ k = Len(got[c]) + 1 /\ got'[d][k] = Key(i)
      BY <2>3, <2>4, <2>5 DEF Answered
    <3>2. ASSUME NEW d \in Conns, NEW e \in Conns, NEW j \in DOMAIN got'[d],
                 NEW k \in DOMAIN got'[e], <<d, j>> # <<e, k>>
          PROVE  got'[d][j] # got'[e][k]
      BY <3>1, <3>2 DEF OnceInv, AnsweredOnce
    <3> QED BY <3>2 DEF AnsweredOnce
  <2>12. PendingOnce' /\ WorkersApart' /\ QueuedOnce'
    BY <1>1 DEF OnceInv, PendingOnce, WorkersApart, QueuedOnce
  <2> QED BY <2>9, <2>10, <2>11, <2>12 DEF OnceInv
<1> QED BY <1>3, <1>4 DEF SendResponse, Deliver, Key

-----------------------------------------------------------------------------
\* Nothing is anywhere at the beginning.
LEMMA InitOnce == Init => OnceInv
<1> SUFFICES ASSUME Init PROVE OnceInv
  OBVIOUS
<1>1. /\ pendq = <<>> /\ outq = <<>> /\ out = Idle
      /\ work = [w \in Workers |-> NoItem] /\ got = [c \in Conns |-> <<>>]
  BY DEF Init, PendQ!Init, OutQ!Init
<1>2. \A r \in Requests : ~Pending(r) /\ ~Served(r) /\ ~Queued(r) /\ ~Sent(r) /\ ~Answered(r)
  BY <1>1 DEF Pending, Served, Queued, Sent, Answered, Idle
<1>3. Exclusive /\ Fresh
  BY <1>2 DEF Exclusive, Fresh
<1>4. PendingOnce /\ WorkersApart /\ QueuedOnce /\ AnsweredOnce
  BY <1>1 DEF PendingOnce, WorkersApart, QueuedOnce, AnsweredOnce
<1> QED BY <1>3, <1>4 DEF OnceInv

\* Every step keeps each request in one place.
LEMMA OnceInductive == TInv /\ OnceInv /\ [Next]_vars => OnceInv'
<1> SUFFICES ASSUME TInv, OnceInv, [Next]_vars PROVE OnceInv'
  OBVIOUS
<1>1. ASSUME NEW c \in Conns, Connect(c) \/ Request(c) \/ Hangup(c) \/ Accept(c)
      PROVE  OnceInv'
  BY <1>1, NothingMoves
  DEF Connect, Request, Hangup, Accept, places, clients, queues
<1>2. ASSUME NEW s \in Slots, Drop(s) PROVE OnceInv'
  BY <1>2, NothingMoves DEF Drop, places, clients, queues
<1>3. CASE Activate \/ CountRead \/ CountStore
  BY <1>3, NothingMoves DEF Activate, CountRead, CountStore, places, clients, queues
<1>4. CASE UncountRead \/ DropAfterSend
  BY <1>4, NothingMoves DEF UncountRead, DropAfterSend, places, clients, queues
<1>5. CASE NudgeBegin \/ UNCHANGED vars
  BY <1>5, NothingMoves DEF NudgeBegin, vars, places, clients, queues
<1>6. CASE UncountStore \/ ReleaseTest \/ Release
  <2>1. /\ UNCHANGED <<pendq, work, got, read, outq>>
        /\ out.at # "send" /\ out'.at # "send"
    BY <1>6 DEF UncountStore, ReleaseTest, Release, OutQ!Finish, clients, Idle
  <2>2. /\ \A r \in Requests : Pending(r)' <=> Pending(r)
        /\ \A r \in Requests : Served(r)' <=> Served(r)
        /\ \A r \in Requests : Queued(r)' <=> Queued(r)
        /\ \A r \in Requests : ~Sent(r)'
        /\ \A r \in Requests : Answered(r)' <=> Answered(r)
    BY <2>1 DEF Pending, Served, Queued, Sent, Answered
  <2>3. Exclusive' /\ Fresh'
    BY <2>1, <2>2 DEF OnceInv, Exclusive, Fresh
  <2>4. PendingOnce' /\ WorkersApart' /\ QueuedOnce' /\ AnsweredOnce'
    BY <2>1 DEF OnceInv, PendingOnce, WorkersApart, QueuedOnce, AnsweredOnce
  <2> QED BY <2>3, <2>4 DEF OnceInv
<1> QED
  BY <1>1, <1>2, <1>3, <1>4, <1>5, <1>6, ReadMoves, ServeMoves, RespondMoves, NudgeMoves,
     TakeMoves, SendMoves
  DEF Next, Client, Server, Inbound, Worker, Outbound, Config

\* AnsweredOnce: a response leaves the server at most once, to whomever,
\* however slots are reused and clients come and go.
THEOREM AnsweredAtMostOnce == Spec => []AnsweredOnce
<1>1. OnceInv => AnsweredOnce
  BY DEF OnceInv
<1> QED BY <1>1, InitTypes, TypesInductive, InitOnce, OnceInductive, PTL DEF Spec

-----------------------------------------------------------------------------
(* Clients that wait for their answers *)

Polite == Closing # "any" /\ (Notify => Closing = "never")

\* A client that left got all it asked for.
Mannered == \A c \in Conns : link[c] \in {"away", "open"} \/ (link[c] = "fin" /\ Closing = "idle")
Behind == \A c \in Conns : /\ read[c] <= sent[c]
                           /\ link[c] = "fin" => read[c] = sent[c]
Arrived == \A c \in Conns : end[c] # "none" => link[c] # "away"

\* Whoever has an item coming holds the line, in the slot the item names.
Kept == \A i \in Unsent : fd[i.slot] = i.conn /\ link[i.conn] = "open"
OnlyRequests == ~Notify => left = {} /\ \A i \in Unsent : i.num > 0

\* The slot that is being filled was free, and is nobody else's.
Activating == in.at = "activate" =>
    fd[in.slot] = NoConn /\ used[in.slot] /\ end[in.conn] = "backlog"

\* The outbound thread never comes to deactivate a slot.
NeverFails == /\ out.at \in {"idle", "send", "count", "store"}
              /\ out.at \in {"count", "store"} => out.ok = TRUE

Courtesy == Mannered /\ Behind /\ Arrived
PInv == Courtesy /\ Kept /\ OnlyRequests /\ Activating /\ NeverFails /\ TableConsistent

-----------------------------------------------------------------------------
(* What is not sent *)

\* An unsent item is an item; if it is a request it was read and has no answer.
LEMMA UnsentItems ==
    ASSUME TInv, OnceInv, NEW i \in Unsent
    PROVE  /\ i \in Item
           /\ i.num > 0 => /\ Key(i) \in Requests /\ ~Answered(Key(i))
                           /\ i.num <= read[i.conn]
<1>1. i \in Item /\ (Pending(Key(i)) \/ Queued(Key(i)) \/ Served(Key(i)) \/ Sent(Key(i)))
  <2>1. CASE \E k \in DOMAIN pendq : i = pendq[k]
    BY <2>1 DEF TInv, TypeOK, Pending
  <2>2. CASE \E k \in DOMAIN outq : i = outq[k]
    BY <2>2 DEF TInv, TypeOK, Queued
  <2>3. CASE \E w \in Workers : work[w] # NoItem /\ i = work[w]
    BY <2>3 DEF TInv, TypeOK, Served
  <2>4. CASE out.at = "send" /\ i = sending[Sender]
    BY <2>4, OutboundAt DEF Sent
  <2> QED BY <2>1, <2>2, <2>3, <2>4 DEF Unsent
<1>2. ASSUME i.num > 0
      PROVE  Key(i) \in Requests /\ ~Answered(Key(i)) /\ i.num <= read[i.conn]
  <2>1. Key(i) \in Requests
    BY <1>1, <1>2, ServerAssumption DEF Key, Item, Requests
  <2>2. ~Answered(Key(i)) /\ Key(i)[2] <= read[Key(i)[1]]
    BY <1>1, <2>1 DEF OnceInv, Exclusive, Fresh
  <2> QED BY <2>1, <2>2 DEF Key
<1> QED BY <1>1, <1>2

\* A step that hands nothing on.
LEMMA UnsentStays ==
    ASSUME UNCHANGED <<pendq, work, outq>>,
           out'.at = "send" => out.at = "send" /\ UNCHANGED sending
    PROVE  Unsent' \subseteq Unsent
  BY DEF Unsent

\* Items change hands.
LEMMA UnsentMoves ==
    ASSUME TInv, (\E w \in Workers : Serve(w) \/ Respond(w)) \/ TakeResponse
    PROVE  Unsent' \subseteq Unsent
<1>1. /\ pendq \in Seq(Item) /\ outq \in Seq(Item)
      /\ work \in [Workers -> Item \cup {NoItem}] /\ sending \in [{Sender} -> Item \cup {NoItem}]
  BY DEF TInv, TypeOK
<1>2. ASSUME NEW w \in Workers, Serve(w) PROVE Unsent' \subseteq Unsent
  <2>1. /\ pendq # <<>> /\ pendq' = Tail(pendq) /\ work' = [work EXCEPT ![w] = Head(pendq)]
        /\ UNCHANGED <<outq, sending, out>>
    BY <1>2 DEF Serve, PendQ!Start
  <2>2. \A k \in DOMAIN pendq' : k + 1 \in DOMAIN pendq /\ pendq'[k] = pendq[k + 1]
    BY <1>1, <2>1
  <2>3. 1 \in DOMAIN pendq /\ Head(pendq) = pendq[1]
    BY <1>1, <2>1
  <2>4. \A v \in Workers : work'[v] # NoItem => work'[v] = work[v] \/ work'[v] = pendq[1]
    BY <1>1, <2>1, <2>3
  <2> QED BY <2>1, <2>2, <2>3, <2>4 DEF Unsent
<1>3. ASSUME NEW w \in Workers, Respond(w) PROVE Unsent' \subseteq Unsent
  <2>1. /\ work[w] # NoItem /\ work' = [work EXCEPT ![w] = NoItem]
        /\ outq' = Append(outq, work[w])
        /\ UNCHANGED <<pendq, sending, out>>
    BY <1>3 DEF Respond, PendQ!Finish, OutQ!Accept
  <2>2. \A k \in DOMAIN outq' : (k \in DOMAIN outq /\ outq'[k] = outq[k]) \/ outq'[k] = work[w]
    BY <1>1, <2>1
  <2>3. \A v \in Workers : work'[v] # NoItem => work'[v] = work[v]
    BY <1>1, <2>1
  <2> QED BY <2>1, <2>2, <2>3 DEF Unsent
<1>4. CASE TakeResponse
  <2>1. /\ outq # <<>> /\ outq' = Tail(outq) /\ sending' = [sending EXCEPT ![Sender] = Head(outq)]
        /\ UNCHANGED <<pendq, work>>
    BY <1>4 DEF TakeResponse, OutQ!Start
  <2>2. \A k \in DOMAIN outq' : k + 1 \in DOMAIN outq /\ outq'[k] = outq[k + 1]
    BY <1>1, <2>1
  <2>3. 1 \in DOMAIN outq /\ sending'[Sender] = outq[1]
    BY <1>1, <2>1
  <2> QED BY <2>1, <2>2, <2>3 DEF Unsent
<1> QED BY <1>2, <1>3, <1>4

\* A request is read, or a notification is queued.
LEMMA UnsentGrows ==
    ASSUME TInv, NEW i,
           \/ pendq' = Append(pendq, i) /\ UNCHANGED outq
           \/ outq' = Append(outq, i) /\ UNCHANGED pendq,
           UNCHANGED <<work, sending, out>>
    PROVE  Unsent' \subseteq Unsent \cup {i}
<1>1. pendq \in Seq(Item) /\ outq \in Seq(Item)
  BY DEF TInv, TypeOK
<1>2. \A k \in DOMAIN pendq' : (k \in DOMAIN pendq /\ pendq'[k] = pendq[k]) \/ pendq'[k] = i
  BY <1>1
<1>3. \A k \in DOMAIN outq' : (k \in DOMAIN outq /\ outq'[k] = outq[k]) \/ outq'[k] = i
  BY <1>1
<1> QED BY <1>2, <1>3 DEF Unsent

-----------------------------------------------------------------------------
LEMMA PoliteInit == Init => PInv
<1> SUFFICES ASSUME Init PROVE PInv
  OBVIOUS
<1>1. Unsent = {}
  BY DEF Init, PendQ!Init, OutQ!Init, Unsent, Idle
<1>2. Courtesy
  BY DEF Init, Courtesy, Mannered, Behind, Arrived
<1>3. Kept /\ OnlyRequests
  BY <1>1 DEF Init, Kept, OnlyRequests
<1>4. Activating /\ NeverFails /\ TableConsistent
  BY DEF Init, Activating, Polling, NeverFails, Idle, TableConsistent
<1> QED BY <1>2, <1>3, <1>4 DEF PInv

\* Whoever hangs up has all its answers, so nothing of its is under way.
LEMMA HangupWaits ==
    ASSUME Polite, TInv, OnceInv, PInv, NEW c \in Conns, Hangup(c)
    PROVE  /\ Closing = "idle" /\ ~Notify
           /\ read[c] = sent[c]
           /\ \A i \in Unsent : i.conn # c
<1>1. Closing = "idle" /\ Outstanding(c) = {} /\ ~Notify
  BY DEF Hangup, Polite
<1>2. sent[c] \in Nat /\ read[c] \in Nat /\ sent[c] <= MaxRequests /\ got \in [Conns -> Seq(Requests)]
  BY ServerAssumption DEF TInv, TypeOK
<1>3. ASSUME NEW n \in 1..sent[c] PROVE <<c, n>> \in Requests /\ Answered(<<c, n>>)
  <2>1. PICK k \in DOMAIN got[c] : got[c][k] = <<c, n>>
    BY <1>1, <1>3 DEF Outstanding
  <2>2. <<c, n>> \in Requests
    BY <1>2, ServerAssumption DEF Requests
  <2> QED BY <2>1, <2>2 DEF Answered
<1>4. read[c] = sent[c]
  <2>1. read[c] <= sent[c]
    BY DEF PInv, Courtesy, Behind
  <2>2. CASE sent[c] = 0
    BY <1>2, <2>1, <2>2
  <2>3. CASE sent[c] # 0
    <3>1. sent[c] \in 1..sent[c]
      BY <1>2, <2>3
    <3>2. <<c, sent[c]>>[2] <= read[<<c, sent[c]>>[1]]
      BY <1>3, <3>1 DEF OnceInv, Fresh
    <3> QED BY <1>2, <2>1, <3>2
  <2> QED BY <2>2, <2>3
<1>5. ASSUME NEW i \in Unsent, i.conn = c PROVE FALSE
  <2>1. i \in Item /\ i.num > 0
    BY <1>1, UnsentItems DEF PInv, OnlyRequests
  <2>2. ~Answered(<<c, i.num>>) /\ i.num <= read[c]
    BY <1>5, <2>1, UnsentItems DEF Key
  <2>3. i.num \in 1..sent[c]
    BY <1>2, <1>4, <2>1, <2>2 DEF Item
  <2> QED BY <1>3, <2>2, <2>3
<1> QED BY <1>1, <1>4, <1>5

\* The clients.
LEMMA PoliteClient ==
    ASSUME Polite, TInv, OnceInv, PInv, NEW c \in Conns, Connect(c) \/ Request(c) \/ Hangup(c)
    PROVE  PInv'
<1>1. UNCHANGED <<got, read, fd, used, pendq, work, outq, sending, in, out, left>>
  BY DEF Connect, Request, Hangup, table, queues, config
<1>2. Unsent' \subseteq Unsent
  BY <1>1, UnsentStays
<1>3. TypeOK /\ Courtesy
  BY DEF TInv, PInv
<1>4. OnlyRequests' /\ NeverFails'
  BY <1>1, <1>2 DEF PInv, OnlyRequests, NeverFails
<1>5. CASE Connect(c)
  <2>1. /\ link[c] = "away" /\ link' = [link EXCEPT ![c] = "open"]
        /\ end' = [end EXCEPT ![c] = "backlog"] /\ UNCHANGED sent
    BY <1>5 DEF Connect
  <2>2. end[c] = "none"
    BY <1>3, <2>1 DEF Courtesy, Arrived
  <2>3. /\ link'[c] = "open" /\ end'[c] = "backlog"
        /\ \A d \in Conns \ {c} : link'[d] = link[d] /\ end'[d] = end[d]
    BY <1>3, <2>1 DEF TypeOK
  <2>4. Courtesy'
    BY <1>1, <1>3, <2>1, <2>3 DEF Courtesy, Mannered, Behind, Arrived
  <2>5. Kept'
    <3> SUFFICES ASSUME NEW i \in Unsent PROVE fd[i.slot] = i.conn /\ link'[i.conn] = "open"
      BY <1>1, <1>2 DEF Kept
    <3>1. i.conn \in Conns
      BY UnsentItems DEF Item
    <3> QED BY <2>3, <3>1 DEF PInv, Kept
  <2>6. Activating'
    <3>1. in.at = "activate" => in.conn \in Conns
      BY InboundAt DEF TInv
    <3> QED BY <1>1, <2>2, <2>3, <3>1 DEF PInv, Activating
  <2>7. TableConsistent'
    <3>1. \A s \in Slots : fd[s] # NoConn => fd[s] \in Conns /\ fd[s] # c
      BY <1>3, <2>2 DEF PInv, TableConsistent, TypeOK
    <3> QED BY <1>1, <2>2, <2>3, <3>1 DEF PInv, TableConsistent
  <2> QED BY <1>4, <2>4, <2>5, <2>6, <2>7 DEF PInv
<1>6. CASE Request(c)
  <2>1. link[c] = "open" /\ UNCHANGED <<link, end>> /\ sent' = [sent EXCEPT ![c] = @ + 1]
    BY <1>6 DEF Request
  <2>2. sent'[c] = sent[c] + 1 /\ \A d \in Conns \ {c} : sent'[d] = sent[d]
    BY <1>3, <2>1 DEF TypeOK
  <2>3. Behind'
    <3> SUFFICES ASSUME NEW d \in Conns
                 PROVE  read[d] <= sent'[d] /\ (link[d] = "fin" => read[d] = sent'[d])
      BY <1>1, <2>1 DEF Behind
    <3>1. read[d] \in Nat /\ sent[d] \in Nat
      BY <1>3, ServerAssumption DEF TypeOK
    <3>2. read[d] <= sent[d] /\ (link[d] = "fin" => read[d] = sent[d])
      BY <1>3 DEF Courtesy, Behind
    <3> QED BY <2>1, <2>2, <3>1, <3>2
  <2>4. Mannered' /\ Arrived'
    BY <1>1, <1>3, <2>1 DEF Courtesy, Mannered, Arrived
  <2>5. Kept' /\ Activating' /\ TableConsistent'
    BY <1>1, <1>2, <2>1 DEF PInv, Kept, Activating, TableConsistent
  <2> QED BY <1>4, <2>3, <2>4, <2>5 DEF PInv, Courtesy
<1>7. CASE Hangup(c)
  <2>1. /\ link[c] = "open" /\ Closing = "idle" /\ link' = [link EXCEPT ![c] = "fin"]
        /\ UNCHANGED <<sent, end>>
    BY <1>7, HangupWaits DEF Hangup
  <2>2. link'[c] = "fin" /\ \A d \in Conns \ {c} : link'[d] = link[d]
    BY <1>3, <2>1 DEF TypeOK
  <2>3. read[c] = sent[c] /\ \A i \in Unsent : i.conn # c
    BY <1>7, HangupWaits
  <2>4. Courtesy'
    BY <1>1, <1>3, <2>1, <2>2, <2>3 DEF Courtesy, Mannered, Behind, Arrived
  <2>5. Kept'
    <3> SUFFICES ASSUME NEW i \in Unsent PROVE fd[i.slot] = i.conn /\ link'[i.conn] = "open"
      BY <1>1, <1>2 DEF Kept
    <3>1. i.conn \in Conns
      BY UnsentItems DEF Item
    <3> QED BY <2>2, <2>3, <3>1 DEF PInv, Kept
  <2>6. Activating' /\ TableConsistent'
    BY <1>1, <2>1 DEF PInv, Activating, TableConsistent
  <2> QED BY <1>4, <2>4, <2>5, <2>6 DEF PInv
<1> QED BY <1>5, <1>6, <1>7

\* Items are handed on; counts go up and down.
LEMMA PoliteWork ==
    ASSUME Polite, TInv, OnceInv, PInv,
           \/ CountRead \/ CountStore
           \/ \E w \in Workers : Worker(w)
           \/ Outbound
    PROVE  PInv' /\ UNCHANGED <<link, sent, end, read, fd, used, left>>
<1>1. ~DropAfterSend /\ ~ReleaseTest /\ ~Release
  BY DEF PInv, NeverFails, DropAfterSend, ReleaseTest, Release
<1>2. SendResponse => /\ sending[Sender] \in Unsent
                      /\ Peer(sending[Sender].slot) = "open"
                      /\ fd[sending[Sender].slot] = sending[Sender].conn
  <2> SUFFICES ASSUME SendResponse
               PROVE  /\ sending[Sender] \in Unsent
                      /\ Peer(sending[Sender].slot) = "open"
                      /\ fd[sending[Sender].slot] = sending[Sender].conn
    OBVIOUS
  <2> DEFINE i == sending[Sender]
  <2>1. i \in Unsent
    BY DEF SendResponse, Unsent
  <2>2. i \in Item
    BY <2>1, UnsentItems
  <2>3. fd[i.slot] = i.conn /\ link[i.conn] = "open" /\ i.conn # NoConn
    BY <2>1, <2>2, ServerAssumption DEF PInv, Kept, Item
  <2> QED BY <2>1, <2>3 DEF Peer
<1>3. UNCHANGED <<link, sent, end, read, fd, used, left>>
  <2>1. SendResponse => UNCHANGED link
    BY <1>2 DEF SendResponse
  <2> QED BY <1>1, <2>1 DEF CountRead, CountStore, Worker, Serve, Respond, Outbound, TakeResponse,
             SendResponse, UncountRead, UncountStore, clients, table, config
<1>4. Unsent' \subseteq Unsent
  <2>1. CASE CountRead \/ CountStore
    BY <2>1, UnsentStays DEF CountRead, CountStore, queues
  <2>2. CASE SendResponse
    <3>1. out' = [at |-> "count", ok |-> TRUE]
      BY <1>2, <2>2 DEF SendResponse
    <3>2. UNCHANGED queues
      BY <2>2 DEF SendResponse
    <3> QED BY <3>1, <3>2, UnsentStays DEF queues
  <2>3. CASE UncountRead \/ UncountStore
    <3>1. out'.at # "send" /\ UNCHANGED <<pendq, work, outq>>
      BY <1>1, <2>3 DEF UncountRead, UncountStore, OutQ!Finish, queues, Idle
    <3> QED BY <3>1, UnsentStays
  <2> QED BY <1>1, <2>1, <2>2, <2>3, UnsentMoves DEF Worker, Outbound
<1>5. Courtesy' /\ Kept' /\ OnlyRequests' /\ TableConsistent'
  BY <1>3, <1>4 DEF PInv, Courtesy, Mannered, Behind, Arrived, Kept, OnlyRequests, TableConsistent
<1>6. Activating'
  <2>1. UNCHANGED in \/ in'.at # "activate"
    BY <1>1 DEF CountRead, CountStore, Worker, Serve, Respond, Outbound, TakeResponse,
             SendResponse, UncountRead, UncountStore, Polling
  <2> QED BY <1>3, <2>1 DEF PInv, Activating
<1>7. NeverFails'
  <2>1. CASE UNCHANGED out
    BY <2>1 DEF PInv, NeverFails
  <2>2. CASE TakeResponse
    BY <2>2 DEF TakeResponse, NeverFails
  <2>3. CASE SendResponse
    <3>1. out' = [at |-> "count", ok |-> TRUE]
      BY <1>2, <2>3 DEF SendResponse
    <3> QED BY <3>1 DEF NeverFails
  <2>4. CASE UncountRead
    <3>1. out.ok = TRUE /\ out'.at = "store" /\ out'.ok = out.ok
      BY <2>4 DEF PInv, UncountRead, NeverFails
    <3> QED BY <3>1 DEF NeverFails
  <2>5. CASE UncountStore
    <3>1. out.ok = TRUE
      BY <2>5 DEF PInv, UncountStore, NeverFails
    <3>2. out' = Idle
      BY <2>5, <3>1 DEF UncountStore
    <3> QED BY <3>2 DEF NeverFails, Idle
  <2> QED BY <1>1, <2>1, <2>2, <2>3, <2>4, <2>5 DEF CountRead, CountStore, Worker, Serve, Respond, Outbound
<1> QED BY <1>3, <1>5, <1>6, <1>7 DEF PInv

\* A slot that is not used has no connection.
LEMMA PoliteAccept ==
    ASSUME Polite, TInv, OnceInv, PInv, NEW c \in Conns, Accept(c)
    PROVE  PInv' /\ UNCHANGED <<sent, got>>
<1>1. TypeOK
  BY DEF TInv
<1>2. /\ end[c] = "backlog"
      /\ UNCHANGED <<link, sent, got, read, pendq, work, outq, sending, out, left>>
  BY DEF Accept, clients, queues, config
<1>3. Unsent' \subseteq Unsent
  BY <1>2, UnsentStays
<1>4. OnlyRequests' /\ NeverFails'
  BY <1>2, <1>3 DEF PInv, OnlyRequests, NeverFails
<1>5. \A s \in Slots : fd[s] # NoConn => fd[s] \in Conns /\ fd[s] # c
  BY <1>1, <1>2 DEF PInv, TableConsistent, TypeOK
<1>6. CASE FreeSlots = {}
  <2>1. end' = [end EXCEPT ![c] = "closed"] /\ UNCHANGED <<fd, used, in>>
    BY <1>6 DEF Accept, table
  <2>2. end'[c] = "closed" /\ \A d \in Conns \ {c} : end'[d] = end[d]
    BY <1>1, <2>1 DEF TypeOK
  <2>3. Courtesy'
    BY <1>2, <2>2 DEF PInv, Courtesy, Mannered, Behind, Arrived
  <2>4. Kept'
    BY <1>2, <1>3, <2>1 DEF PInv, Kept
  <2>5. TableConsistent'
    BY <1>2, <1>5, <2>1, <2>2 DEF PInv, TableConsistent
  <2>6. Activating'
    BY <1>6, <2>1 DEF Accept, Activating, Polling
  <2> QED BY <1>2, <1>4, <2>3, <2>4, <2>5, <2>6 DEF PInv
<1>7. CASE FreeSlots # {}
  <2>1. FirstFree \in Slots /\ used[FirstFree] = FALSE
    BY <1>1, <1>7, FirstFreeSlot DEF FreeSlots, TypeOK
  <2>2. /\ used' = [used EXCEPT ![FirstFree] = TRUE]
        /\ Deactivate(FirstFree)
        /\ in' = [at |-> "activate", slot |-> FirstFree, conn |-> c]
    BY <1>7 DEF Accept
  <2>3. fd[FirstFree] = NoConn
    BY <2>1 DEF PInv, TableConsistent
  <2>4. \A s \in Slots : fd'[s] = fd[s] /\ (used[s] => used'[s])
    BY <1>1, <2>1, <2>2, <2>3 DEF Deactivate, TypeOK
  <2>5. \A d \in Conns : end'[d] = end[d]
    BY <1>1, <2>2, <2>3, ServerAssumption DEF Deactivate, TypeOK
  <2>6. Courtesy'
    BY <1>2, <2>5 DEF PInv, Courtesy, Mannered, Behind, Arrived
  <2>7. Kept'
    <3> SUFFICES ASSUME NEW i \in Unsent PROVE fd'[i.slot] = i.conn /\ link[i.conn] = "open"
      BY <1>2, <1>3 DEF Kept
    <3>1. i.slot \in Slots
      BY UnsentItems DEF Item
    <3> QED BY <2>4, <3>1 DEF PInv, Kept
  <2>8. TableConsistent'
    BY <1>1, <1>5, <2>4, <2>5 DEF PInv, TableConsistent
  <2>9. Activating'
    BY <1>1, <1>2, <2>1, <2>2, <2>3, <2>4, <2>5 DEF Activating, TypeOK
  <2> QED BY <1>2, <1>4, <2>6, <2>7, <2>8, <2>9 DEF PInv
<1> QED BY <1>6, <1>7

\* The slot is given to the new connection, which has none yet.
LEMMA PoliteActivate ==
    ASSUME Polite, TInv, OnceInv, PInv, Activate
    PROVE  PInv' /\ UNCHANGED <<sent, got>>
<1> DEFINE s == in.slot
           c == in.conn
<1>1. TypeOK /\ s \in Slots /\ c \in Conns /\ fd[s] = NoConn /\ end[c] = "backlog"
  BY InboundAt DEF TInv, PInv, Activating, Activate
<1>2. /\ used' = [used EXCEPT ![s] = TRUE]
      /\ fd' = [fd EXCEPT ![s] = c]
      /\ end' = [end EXCEPT ![c] = "open"]
      /\ in' = Polling
      /\ UNCHANGED <<link, sent, got, read, pendq, work, outq, sending, out, left>>
  BY DEF Activate, clients, queues, config
<1> HIDE DEF s, c
<1>3. Unsent' \subseteq Unsent
  BY <1>2, UnsentStays
<1>4. OnlyRequests' /\ NeverFails' /\ Activating'
  BY <1>2, <1>3 DEF PInv, OnlyRequests, NeverFails, Activating, Polling
<1>5. /\ fd'[s] = c /\ used'[s] /\ end'[c] = "open"
      /\ \A u \in Slots \ {s} : fd'[u] = fd[u] /\ used'[u] = used[u]
      /\ \A d \in Conns \ {c} : end'[d] = end[d]
  BY <1>1, <1>2 DEF TypeOK
<1>6. Courtesy'
  BY <1>1, <1>2, <1>5 DEF PInv, Courtesy, Mannered, Behind, Arrived
<1>7. Kept'
  <2> SUFFICES ASSUME NEW i \in Unsent PROVE fd'[i.slot] = i.conn /\ link[i.conn] = "open"
    BY <1>2, <1>3 DEF Kept
  <2>1. i.slot \in Slots /\ i.conn # NoConn
    BY UnsentItems, ServerAssumption DEF Item
  <2>2. i.slot # s
    BY <1>1, <2>1 DEF PInv, Kept
  <2> QED BY <1>5, <2>1, <2>2 DEF PInv, Kept
<1>8. TableConsistent'
  <2>1. \A u \in Slots : fd[u] # NoConn => fd[u] \in Conns /\ fd[u] # c
    BY <1>1 DEF PInv, TableConsistent, TypeOK
  <2>2. \A u, v \in Slots : u # v /\ fd'[u] # NoConn => fd'[u] # fd'[v]
    BY <1>1, <1>5, <2>1 DEF PInv, TableConsistent
  <2>3. \A u \in Slots : fd'[u] # NoConn => used'[u] /\ end'[fd'[u]] = "open"
    BY <1>1, <1>5, <2>1 DEF PInv, TableConsistent
  <2>4. \A d \in Conns : end'[d] = "open" => \E u \in Slots : fd'[u] = d
    <3> SUFFICES ASSUME NEW d \in Conns, d # c, end[d] = "open" PROVE \E u \in Slots : fd'[u] = d
      BY <1>1, <1>5
    <3>1. PICK u \in Slots : fd[u] = d
      BY DEF PInv, TableConsistent
    <3>2. u # s
      BY <1>1, <3>1, ServerAssumption
    <3> QED BY <1>5, <3>1, <3>2
  <2> QED BY <2>2, <2>3, <2>4 DEF TableConsistent
<1> QED BY <1>2, <1>4, <1>6, <1>7, <1>8 DEF PInv

\* A request is read from a client that waits for the answer.
LEMMA PoliteRead ==
    ASSUME Polite, TInv, OnceInv, PInv, NEW s \in Slots, ReadRequest(s)
    PROVE  PInv' /\ UNCHANGED <<sent, got>>
<1> DEFINE c == fd[s]
           i == [slot |-> s, conn |-> c, num |-> read[c] + 1]
<1>1. /\ TypeOK /\ c # NoConn /\ c \in Conns /\ read[c] < sent[c]
      /\ read[c] \in Nat /\ sent[c] \in Nat
  BY ServerAssumption DEF TInv, TypeOK, ReadRequest
<1>2. /\ pendq' = Append(pendq, i)
      /\ read' = [read EXCEPT ![c] = @ + 1]
      /\ in' = [at |-> "count", slot |-> s]
      /\ UNCHANGED <<link, sent, got, end, fd, used, work, outq, sending, out, left>>
  BY DEF ReadRequest, PendQ!Accept, clients, table, config
<1>3. Unsent' \subseteq Unsent \cup {i}
  <2> HIDE DEF i
  <2> QED BY <1>2, UnsentGrows
<1>4. link[c] = "open"
  <2>1. end[c] = "open"
    BY <1>1 DEF PInv, TableConsistent
  <2> QED BY <1>1, <2>1 DEF PInv, Courtesy, Mannered, Behind, Arrived
<1>5. i.num > 0 /\ i.slot = s /\ i.conn = c
  BY <1>1
<1> HIDE DEF i
<1>6. Kept' /\ OnlyRequests'
  BY <1>2, <1>3, <1>4, <1>5 DEF PInv, Kept, OnlyRequests
<1> HIDE DEF c
<1>7. Behind'
  <2>1. read'[c] = read[c] + 1 /\ \A d \in Conns \ {c} : read'[d] = read[d]
    BY <1>1, <1>2 DEF TypeOK
  <2>2. read'[c] <= sent[c]
    BY <1>1, <2>1
  <2> QED BY <1>2, <1>4, <2>1, <2>2 DEF PInv, Courtesy, Behind
<1>8. Mannered' /\ Arrived' /\ Activating' /\ NeverFails' /\ TableConsistent'
  BY <1>2 DEF PInv, Courtesy, Mannered, Arrived, Activating, NeverFails, TableConsistent
<1> QED BY <1>2, <1>6, <1>7, <1>8 DEF PInv, Courtesy

\* The connection that is dropped is that of a client that left.
LEMMA PoliteDrop ==
    ASSUME Polite, TInv, OnceInv, PInv, NEW s \in Slots, Drop(s)
    PROVE  PInv' /\ UNCHANGED <<sent, got>>
<1> DEFINE c == fd[s]
<1>1. /\ TypeOK /\ in = Polling
      /\ fd' = [fd EXCEPT ![s] = NoConn]
      /\ end' = [d \in Conns |-> IF d = c THEN "closed" ELSE end[d]]
      /\ used' = [used EXCEPT ![s] = pend[s] # 0]
      /\ UNCHANGED <<link, sent, got, read, pendq, work, outq, sending, in, out, left>>
  BY DEF TInv, Drop, Deactivate, clients, queues, config
<1>2. c \in Conns /\ link[c] = "fin"
  <2>1. c # NoConn /\ link[c] \in {"fin", "rst", "broken"}
    BY DEF Drop, Peer
  <2> QED BY <1>1, <2>1 DEF TypeOK, PInv, Courtesy, Mannered
<1> HIDE DEF c
<1>3. Unsent' \subseteq Unsent
  BY <1>1, UnsentStays
<1>4. OnlyRequests' /\ NeverFails' /\ Activating'
  BY <1>1, <1>3 DEF PInv, OnlyRequests, NeverFails, Activating, Polling
<1>5. /\ fd'[s] = NoConn /\ \A u \in Slots \ {s} : fd'[u] = fd[u] /\ used'[u] = used[u]
      /\ end'[c] = "closed" /\ \A d \in Conns \ {c} : end'[d] = end[d]
  BY <1>1, <1>2 DEF TypeOK
<1>6. Courtesy'
  BY <1>1, <1>2, <1>5 DEF PInv, Courtesy, Mannered, Behind, Arrived
<1>7. Kept'
  <2> SUFFICES ASSUME NEW i \in Unsent PROVE fd'[i.slot] = i.conn /\ link[i.conn] = "open"
    BY <1>1, <1>3 DEF Kept
  <2>1. i.slot \in Slots /\ fd[i.slot] = i.conn /\ link[i.conn] = "open"
    BY UnsentItems DEF Item, PInv, Kept
  <2>2. i.slot # s
    BY <1>2, <2>1 DEF c
  <2> QED BY <1>5, <2>1, <2>2
<1>8. TableConsistent'
  <2>1. \A u \in Slots \ {s} : fd[u] # c
    BY <1>2, ServerAssumption DEF PInv, TableConsistent, c
  <2>2. \A u \in Slots : fd[u] \in Conns \cup {NoConn}
    BY <1>1 DEF TypeOK
  <2>3. \A u \in Slots : fd'[u] # NoConn => used'[u] /\ end'[fd'[u]] = "open"
    BY <1>5, <2>1, <2>2 DEF PInv, TableConsistent
  <2>4. \A d \in Conns : end'[d] = "open" => \E u \in Slots : fd'[u] = d
    <3> SUFFICES ASSUME NEW d \in Conns, d # c, end[d] = "open" PROVE \E u \in Slots : fd'[u] = d
      BY <1>5
    <3>1. PICK u \in Slots : fd[u] = d
      BY DEF PInv, TableConsistent
    <3> QED BY <1>5, <3>1 DEF c
  <2> QED BY <1>5, <2>3, <2>4 DEF PInv, TableConsistent
<1> QED BY <1>1, <1>4, <1>6, <1>7, <1>8 DEF PInv

\* Notifications, where no client ever leaves.
LEMMA PoliteConfig ==
    ASSUME Polite, TInv, OnceInv, PInv, Config
    PROVE  PInv' /\ UNCHANGED <<sent, got>>
<1>1. UNCHANGED <<link, sent, got, end, read, fd, used, pendq, work, sending, in, out>>
  BY DEF Config, NudgeBegin, NudgeSlot, OutQ!Accept, clients, table, queues
<1>2. Mannered' /\ Behind' /\ Arrived' /\ Activating' /\ NeverFails' /\ TableConsistent'
  BY <1>1 DEF PInv, Courtesy, Mannered, Behind, Arrived, Activating, NeverFails, TableConsistent
<1>3. CASE NudgeBegin
  <2>1. Notify /\ UNCHANGED outq
    BY <1>3 DEF NudgeBegin, queues
  <2>2. Unsent' \subseteq Unsent
    BY <1>1, <2>1, UnsentStays
  <2> QED BY <1>1, <1>2, <2>1, <2>2 DEF PInv, Courtesy, Kept, OnlyRequests
<1>4. ASSUME NEW s \in Slots, NudgeSlot(s) PROVE Kept' /\ OnlyRequests'
  <2> DEFINE i == [slot |-> s, conn |-> fd[s], num |-> 0]
  <2>1. Notify /\ Closing = "never"
    BY <1>4, ServerAssumption DEF NudgeSlot, PInv, OnlyRequests, Polite
  <2>2. CASE fd[s] # NoConn
    <3>1. outq' = Append(outq, i)
      BY <1>4, <2>2 DEF NudgeSlot, OutQ!Accept
    <3>2. Unsent' \subseteq Unsent \cup {i}
      <4> HIDE DEF i
      <4> QED BY <1>1, <3>1, UnsentGrows
    <3>3. fd[s] \in Conns /\ end[fd[s]] = "open"
      BY <2>2 DEF TInv, TypeOK, PInv, TableConsistent
    <3>4. link[fd[s]] = "open"
      BY <2>1, <3>3 DEF PInv, Courtesy, Mannered, Arrived
    <3> QED BY <1>1, <2>1, <3>2, <3>4 DEF PInv, Kept, OnlyRequests
  <2>3. CASE fd[s] = NoConn
    <3>1. UNCHANGED outq
      BY <1>4, <2>3 DEF NudgeSlot
    <3>2. Unsent' \subseteq Unsent
      BY <1>1, <3>1, UnsentStays
    <3> QED BY <1>1, <2>1, <3>2 DEF PInv, Kept, OnlyRequests
  <2> QED BY <2>2, <2>3
<1> QED BY <1>1, <1>2, <1>3, <1>4 DEF Config, PInv, Courtesy

-----------------------------------------------------------------------------
LEMMA PoliteInductive ==
    ASSUME Polite
    PROVE  TInv /\ OnceInv /\ PInv /\ [Next]_vars => PInv'
<1> SUFFICES ASSUME TInv, OnceInv, PInv, [Next]_vars PROVE PInv'
  OBVIOUS
<1>1. CASE UNCHANGED vars
  <2>1. Unsent' = Unsent
    BY <1>1 DEF vars, queues, Unsent
  <2> QED BY <1>1, <2>1 DEF vars, clients, table, queues, config, PInv, Courtesy, Mannered,
             Behind, Arrived, Kept, OnlyRequests, Activating, NeverFails, TableConsistent
<1>2. CASE Client
  BY <1>2, PoliteClient DEF Client
<1>3. CASE Inbound
  BY <1>3, PoliteAccept, PoliteActivate, PoliteRead, PoliteDrop, PoliteWork DEF Inbound
<1>4. CASE (\E w \in Workers : Worker(w)) \/ Outbound
  BY <1>4, PoliteWork
<1> QED BY <1>1, <1>2, <1>3, <1>4, PoliteConfig DEF Next, Server

\* Whoever has an answer coming stays connected, in every reachable state.
THEOREM PoliteInvariant ==
    ASSUME Polite
    PROVE  Spec => [](TInv /\ OnceInv /\ PInv)
<1>1. Init => TInv /\ OnceInv /\ PInv
  BY InitTypes, InitOnce, PoliteInit
<1>2. TInv /\ OnceInv /\ PInv /\ [Next]_vars => (TInv /\ OnceInv /\ PInv)'
  BY TypesInductive, OnceInductive, PoliteInductive
<1> QED BY <1>1, <1>2, PTL DEF Spec

\* SlotKeepsConnection: clientIdx, which names a slot, still names the client
\* when the response is sent.
THEOREM SlotsKept ==
    ASSUME Polite
    PROVE  Spec => []SlotKeepsConnection
<1>1. PInv => SlotKeepsConnection
  BY DEF PInv, Kept, SlotKeepsConnection
<1> QED BY <1>1, PoliteInvariant, PTL

\* TableConsistent: pPollFds and the used flags agree with the connections.  It
\* says nothing of the counts, which may drift (see UsedUntilSent).
THEOREM TableAgrees ==
    ASSUME Polite
    PROVE  Spec => []TableConsistent
<1>1. PInv => TableConsistent
  BY DEF PInv
<1> QED BY <1>1, PoliteInvariant, PTL

-----------------------------------------------------------------------------
(* The promise to the clients *)

\* A response that is sent answers a request of the client it is sent to.
LEMMA SendAnswers ==
    ASSUME Polite, TInv, OnceInv, PInv, SendResponse
    PROVE  UNCHANGED <<sent, got>> \/ \E c \in Conns : ReplySpec!Answer(c) /\ UNCHANGED sent
<1> DEFINE i == sending[Sender]
<1>1. UNCHANGED sent /\ i \in Unsent
  BY DEF SendResponse, Unsent
<1>2. i \in Item /\ i.conn \in Conns /\ fd[i.slot] = i.conn /\ link[i.conn] = "open"
  BY <1>1, UnsentItems DEF PInv, Kept, Item
<1>3. Peer(i.slot) = "open"
  BY <1>2, ServerAssumption DEF Peer
<1>4. Deliver(i.conn, i)
  BY <1>2, <1>3 DEF SendResponse
<1>5. CASE i.num = 0
  BY <1>1, <1>4, <1>5 DEF Deliver
<1>6. CASE i.num # 0
  <2>1. i.num \in 0..MaxRequests /\ i.num > 0
    BY <1>2, <1>6, ServerAssumption DEF Item
  <2>2. ~Answered(<<i.conn, i.num>>) /\ i.num <= read[i.conn]
    BY <1>1, <2>1, UnsentItems DEF Key
  <2>3. i.num \in 1..sent[i.conn]
    <3>1. read[i.conn] <= sent[i.conn] /\ read[i.conn] \in Nat /\ sent[i.conn] \in Nat
      BY <1>2, ServerAssumption DEF TInv, TypeOK, PInv, Courtesy, Behind
    <3> QED BY <2>1, <2>2, <3>1, ServerAssumption
  <2>4. got' = [got EXCEPT ![i.conn] = Append(@, <<i.conn, i.num>>)]
    BY <1>4, <1>6 DEF Deliver
  <2>5. ~ReplySpec!Answered(i.conn, <<i.conn, i.num>>)
    BY <1>2, <2>2 DEF Answered, ReplySpec!Answered
  <2>6. ReplySpec!Answer(i.conn)
    BY <1>1, <2>3, <2>4, <2>5 DEF ReplySpec!Answer
  <2> QED BY <1>1, <1>2, <2>6
<1> QED BY <1>5, <1>6

\* ImplementsReply: the threads, the queues and the table of slots together
\* keep the promise of RequestReply; each step answers one request of the
\* client it is sent to, or is none of the clients' business.
THEOREM RepliesImplemented ==
    ASSUME Polite
    PROVE  Spec => ImplementsReply
<1>1. Init => ReplySpec!Init
  BY DEF Init, ReplySpec!Init
<1>2. ASSUME TInv, OnceInv, PInv, [Next]_vars
      PROVE  ReplySpec!Next \/ UNCHANGED <<sent, got>>
  <2>1. ASSUME NEW c \in Conns, Request(c) PROVE ReplySpec!Next
    BY <2>1 DEF Request, ReplySpec!Next, ReplySpec!Ask
  <2>2. ASSUME NEW c \in Conns, Connect(c) \/ Hangup(c) PROVE UNCHANGED <<sent, got>>
    BY <2>2 DEF Connect, Hangup
  <2>3. CASE Inbound
    BY <1>2, <2>3, PoliteAccept, PoliteActivate, PoliteRead, PoliteDrop
    DEF Inbound, CountRead, CountStore, clients
  <2>4. CASE SendResponse
    BY <1>2, <2>4, SendAnswers DEF ReplySpec!Next
  <2>5. ASSUME NEW w \in Workers, Worker(w) PROVE UNCHANGED <<sent, got>>
    BY <2>5 DEF Worker, Serve, Respond, clients
  <2>6. CASE Outbound /\ ~SendResponse
    BY <2>6 DEF Outbound, TakeResponse, UncountRead, UncountStore, DropAfterSend, ReleaseTest,
            Release, clients
  <2>7. CASE UNCHANGED vars
    BY <2>7 DEF vars, clients
  <2>8. CASE Config
    BY <1>2, <2>8, PoliteConfig
  <2> QED BY <1>2, <2>1, <2>2, <2>3, <2>4, <2>5, <2>6, <2>7, <2>8 DEF Next, Client, Server
<1>3. TInv /\ OnceInv /\ PInv /\ [Next]_vars => [ReplySpec!Next]_ReplySpec!vars
  BY <1>2 DEF ReplySpec!vars
<1> QED BY <1>1, <1>3, PoliteInvariant, PTL DEF Spec, ImplementsReply, ReplySpec!Spec
=============================================================================
