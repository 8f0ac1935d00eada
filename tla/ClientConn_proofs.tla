-------------------------- MODULE ClientConn_proofs --------------------------
(***************************************************************************)
(* Proofs about ClientConn, for any callers, threads, servers, number of   *)
(* calls and configuration changes and any failure of a server: the types, *)
(* that tokens are conserved, and that the connections are swapped only    *)
(* while no thread has a token.  The types need the tokens (no sem_post    *)
(* exceeds NTokens) and the tokens need the types.                         *)
(***************************************************************************)
EXTENDS ClientConn, FiniteSetTheorems, SequenceTheorems, TLAPS

\* The threads that have a token.
Inside == {t \in Threads : at[t] \in Critical}

\* A thread that is not idle has an item, a call that is not over a buffer.
AtWork == /\ \A t \in Threads : at[t] # "idle" => cur[t] \in Items
          /\ \A c \in Callers : call[c] # "idle" => calls[c] > 0

\* hfsConfigChanged: how many tokens the configuration thread has.
Holding == /\ change \in {"idle", "connect"} => held = 0
           /\ change = "hold" => held < NTokens
           /\ change = "flush" => held = NTokens
           /\ change = "release" => held > 0

\* Each change swaps once at most.
SwapsLeft == /\ swaps <= updates
             /\ change \in {"connect", "hold", "flush"} => swaps < updates

CInv == TypeOK /\ TokensConserved /\ AtWork /\ Holding /\ SwapsLeft

-----------------------------------------------------------------------------
(* Tokens *)

LEMMA InsideFinite == IsFiniteSet(Inside) /\ Cardinality(Inside) \in Nat
<1>1. Inside \subseteq Threads
  BY DEF Inside
<1> QED BY <1>1, FS_Subset, FS_CardinalityType, ClientAssumption

\* sem_wait: one more thread has a token.
LEMMA Enters ==
    ASSUME TypeOK, NEW t \in Threads, at[t] \notin Critical, NEW place \in Critical,
           at' = [at EXCEPT ![t] = place]
    PROVE  Cardinality(Inside') = Cardinality(Inside) + 1
<1>1. Inside' = Inside \cup {t} /\ t \notin Inside
  BY DEF TypeOK, Inside
<1> QED BY <1>1, InsideFinite, FS_AddElement

\* sem_post: one less.
LEMMA Leaves ==
    ASSUME TypeOK, NEW t \in Threads, at[t] \in Critical, NEW place, place \notin Critical,
           at' = [at EXCEPT ![t] = place]
    PROVE  Cardinality(Inside') = Cardinality(Inside) - 1 /\ Cardinality(Inside) > 0
<1>1. Inside' = Inside \ {t} /\ t \in Inside
  BY DEF TypeOK, Inside
<1>2. Cardinality(Inside') = Cardinality(Inside) - 1
  BY <1>1, InsideFinite, FS_RemoveElement
<1>3. Cardinality(Inside) # 0
  BY <1>1, InsideFinite, FS_EmptySet
<1> QED BY <1>2, <1>3, InsideFinite

\* A thread goes from one place to another without waiting or posting.
LEMMA Stays ==
    ASSUME TypeOK, NEW t \in Threads, NEW place, at[t] \in Critical <=> place \in Critical,
           at' = [at EXCEPT ![t] = place]
    PROVE  Inside' = Inside
  BY DEF TypeOK, Inside

\* The two halves of the count.
LEMMA Count == TokensConserved <=> tokens + held + Cardinality(Inside) = NTokens
  BY DEF TokensConserved, Inside

LEMMA CountLater == TokensConserved' <=> tokens' + held' + Cardinality(Inside') = NTokens
  BY DEF TokensConserved, Inside

LEMMA Uncounted ==
    ASSUME TokensConserved, Inside' = Inside, UNCHANGED <<tokens, held>>
    PROVE  TokensConserved'
  BY Count, CountLater

-----------------------------------------------------------------------------
\* The state the client starts in.
LEMMA InitClient == Init => CInv
<1> SUFFICES ASSUME Init PROVE CInv
  OBVIOUS
<1> USE ClientAssumption DEF Init
<1>1. TypeOK
  <2>1. target \in [Items -> Servers]
    OBVIOUS
  <2>2. outq \in Seq(Items) /\ in \in InStates
    BY DEF InStates
  <2>3. at \in [Threads -> {"idle", "token"} \cup Critical]
    OBVIOUS
  <2>4. tokens \in 0..NTokens /\ held \in 0..NTokens
    OBVIOUS
  <2>5. updates \in 0..MaxUpdates /\ swaps \in 0..MaxUpdates /\ calls \in [Callers -> 0..MaxCalls]
    OBVIOUS
  <2>6. /\ call \in [Callers -> {"idle", "waiting", "retrying"}]
        /\ status \in [Items -> {"none", "ok", "refused", "failed"}]
        /\ signal \in [Items -> Nat]
        /\ cur \in [Threads -> Items \cup {NoItem}]
    OBVIOUS
  <2>7. /\ mutex \in [Servers -> Threads \cup {Nobody}]
        /\ list \in [Servers -> SUBSET Items]
        /\ fd \in [Servers -> {"up", "closed"}]
        /\ wire \in [Servers -> SUBSET Items]
        /\ dead \in SUBSET Servers
        /\ change \in {"idle", "connect", "hold", "flush", "release"}
        /\ stream \in [full : 0..MaxFull, cut : BOOLEAN]
    OBVIOUS
  <2> HIDE DEF Init
  <2> QED BY <2>1, <2>2, <2>3, <2>4, <2>5, <2>6, <2>7 DEF TypeOK
<1>2. TokensConserved
  <2>1. Inside = {}
    BY DEF Inside, Critical
  <2> QED BY <2>1, Count, FS_EmptySet
<1>3. AtWork /\ Holding /\ SwapsLeft
  BY DEF AtWork, Holding, SwapsLeft
<1> QED BY <1>1, <1>2, <1>3 DEF CInv

\* A step of a caller.
LEMMA CallerSteps ==
    ASSUME CInv, NEW c \in Callers, (\E s \in Servers : Call(c, s)) \/ GoOn(c)
    PROVE  CInv'
<1> USE ClientAssumption DEF CInv, conns, config, sending
<1>1. UNCHANGED <<at, cur, tokens, conns, dead, in, config>>
  BY DEF Call, GoOn, Retry, Return
<1>2. TokensConserved' /\ Holding' /\ SwapsLeft'
  BY <1>1 DEF TokensConserved, Holding, SwapsLeft
<1>3. ASSUME NEW s \in Servers, Call(c, s) PROVE TypeOK' /\ AtWork'
  <2>1. /\ call' = [call EXCEPT ![c] = "waiting"]
        /\ calls' = [calls EXCEPT ![c] = @ + 1]
        /\ calls[c] \in 0..MaxCalls - 1
        /\ target' = [target EXCEPT ![<<c, calls[c] + 1>>] = s]
        /\ outq' = Append(outq, <<c, calls[c] + 1>>)
        /\ UNCHANGED <<status, signal>>
    BY <1>3 DEF Call, TypeOK
  <2>2. <<c, calls[c] + 1>> \in Items
    BY <2>1 DEF Items
  <2>3. outq' \in Seq(Items) /\ target' \in [Items -> Servers]
    BY <2>1, <2>2 DEF TypeOK
  <2>4. calls' \in [Callers -> 0..MaxCalls]
    BY <2>1 DEF TypeOK
  <2>5. TypeOK'
    BY <1>1, <2>1, <2>3, <2>4 DEF TypeOK
  <2>6. AtWork'
    BY <1>1, <2>1 DEF TypeOK, AtWork
  <2> QED BY <2>5, <2>6
<1>4. CASE Retry(c)
  <2>1. TypeOK /\ AtWork
    OBVIOUS
  <2> HIDE DEF CInv
  <2>2. call[c] = "waiting" /\ signal[Current(c)] > 0
    BY <1>4 DEF Retry
  <2>3. calls[c] > 0 /\ calls[c] \in 0..MaxCalls
    BY <2>1, <2>2 DEF AtWork, TypeOK
  <2>4. Current(c) \in Items
    BY <2>3 DEF Current, Items
  <2>5. /\ call' = [call EXCEPT ![c] = "retrying"]
        /\ target' = [target EXCEPT ![Current(c)] = Backup[@]]
        /\ outq' = Append(outq, Current(c))
        /\ signal' = [signal EXCEPT ![Current(c)] = @ - 1]
        /\ UNCHANGED <<status, calls>>
    BY <1>4 DEF Retry
  <2>6. outq' \in Seq(Items) /\ target' \in [Items -> Servers] /\ signal' \in [Items -> Nat]
    BY <2>1, <2>2, <2>4, <2>5 DEF TypeOK
  <2>7. TypeOK'
    BY <1>1, <2>1, <2>5, <2>6 DEF TypeOK
  <2>8. AtWork'
    BY <1>1, <2>1, <2>3, <2>5 DEF TypeOK, AtWork
  <2> QED BY <1>2, <2>7, <2>8 DEF CInv
<1>5. CASE Return(c)
  <2>1. Current(c) \in Items /\ signal[Current(c)] \in Nat \ {0}
    BY <1>5 DEF Return, AtWork, TypeOK, Current, Items
  <2>2. /\ call' = [call EXCEPT ![c] = "idle"]
        /\ signal' = [signal EXCEPT ![Current(c)] = @ - 1]
        /\ UNCHANGED <<status, calls, target, outq>>
    BY <1>5 DEF Return
  <2>3. signal' \in [Items -> Nat]
    BY <2>1, <2>2 DEF TypeOK
  <2>4. TypeOK'
    BY <1>1, <2>2, <2>3 DEF TypeOK
  <2>5. AtWork'
    BY <1>1, <2>2 DEF TypeOK, AtWork
  <2> HIDE DEF CInv
  <2> QED BY <1>2, <2>4, <2>5 DEF CInv
<1> QED BY <1>2, <1>3, <1>4, <1>5 DEF GoOn

\* A step of an outbound thread.
LEMMA OutboundSteps ==
    ASSUME CInv, NEW t \in Threads, Outbound(t)
    PROVE  CInv'
<1>1. TypeOK /\ AtWork /\ TokensConserved /\ Holding /\ SwapsLeft
  BY DEF CInv
<1> USE ClientAssumption DEF callers, conns, config
<1>2. UNCHANGED <<call, calls, config, target, in, dead>>
  BY DEF Outbound, Take, TakeToken, Lock, Send, SendFails, Drop, Unlock, PostToken
<1>3. Holding' /\ SwapsLeft'
  BY <1>1, <1>2 DEF Holding, SwapsLeft
<1>4. CASE Take(t)
  <2>1. Head(outq) \in Items /\ Tail(outq) \in Seq(Items)
    BY <1>1, <1>4 DEF Take, TypeOK
  <2>2. TypeOK'
    BY <1>1, <1>2, <1>4, <2>1 DEF Take, TypeOK
  <2>3. AtWork'
    BY <1>1, <1>2, <1>4, <2>1 DEF Take, TypeOK, AtWork
  <2>4. Inside' = Inside
    BY <1>1, <1>4, Stays DEF Take, Critical
  <2> QED BY <1>1, <1>3, <1>4, <2>2, <2>3, <2>4, Uncounted DEF CInv, Take
<1>5. CASE TakeToken(t)
  <2>1. tokens \in 1..NTokens
    BY <1>1, <1>5 DEF TakeToken, TypeOK
  <2>2. TypeOK'
    BY <1>1, <1>2, <1>5, <2>1 DEF TakeToken, TypeOK, Critical
  <2>3. AtWork'
    BY <1>1, <1>2, <1>5 DEF TakeToken, TypeOK, AtWork
  <2>4. Cardinality(Inside') = Cardinality(Inside) + 1
    BY <1>1, <1>5, Enters DEF TakeToken, Critical
  <2>5. TokensConserved'
    BY <1>1, <1>5, <2>1, <2>4, Count, CountLater, InsideFinite DEF TakeToken, TypeOK
  <2> QED BY <1>3, <2>2, <2>3, <2>5 DEF CInv
<1>6. CASE Lock(t)
  <2>1. cur[t] \in Items
    BY <1>1, <1>6 DEF Lock, AtWork
  <2>2. TypeOK'
    BY <1>1, <1>2, <1>6, <2>1 DEF Lock, TypeOK, Critical
  <2>3. AtWork'
    BY <1>1, <1>2, <1>6 DEF Lock, TypeOK, AtWork
  <2>4. Inside' = Inside
    BY <1>1, <1>6, Stays DEF Lock, Critical
  <2> QED BY <1>1, <1>3, <1>6, <2>2, <2>3, <2>4, Uncounted DEF CInv, Lock
<1>7. CASE Send(t)
  <2>1. cur[t] \in Items
    BY <1>1, <1>7 DEF Send, AtWork
  <2>2. wire' \in [Servers -> SUBSET Items]
    <3>1. PutOnWire(target[cur[t]], cur[t]) \/ UNCHANGED wire
      BY <1>7 DEF Send
    <3>2. wire \in [Servers -> SUBSET Items]
      BY <1>1 DEF TypeOK
    <3> QED BY <2>1, <3>1, <3>2 DEF PutOnWire
  <2>3. TypeOK'
    <3>1. at' \in [Threads -> {"idle", "token"} \cup Critical]
      BY <1>1, <1>7 DEF Send, TypeOK, Critical
    <3>2. UNCHANGED <<status, signal, outq, cur, tokens, mutex, list, fd, stream>>
      BY <1>7 DEF Send
    <3> QED BY <1>1, <1>2, <2>2, <3>1, <3>2 DEF TypeOK
  <2>4. AtWork'
    BY <1>1, <1>2, <1>7 DEF Send, TypeOK, AtWork
  <2>5. Inside' = Inside
    BY <1>1, <1>7, Stays DEF Send, Critical
  <2> QED BY <1>1, <1>3, <1>7, <2>3, <2>4, <2>5, Uncounted DEF CInv, Send
<1>8. CASE SendFails(t)
  <2>1. cur[t] \in Items
    BY <1>1, <1>8 DEF SendFails, AtWork
  <2>2. wire' \in [Servers -> SUBSET Items] /\ stream' \in [full : 0..MaxFull, cut : BOOLEAN]
    <3>1. wire \in [Servers -> SUBSET Items] /\ stream \in [full : 0..MaxFull, cut : BOOLEAN]
      BY <1>1 DEF TypeOK
    <3>2. CASE UNCHANGED <<wire, stream>>
      BY <3>1, <3>2
    <3>3. ASSUME stream.full < MaxFull, NEW part \in BOOLEAN,
                 stream' = [full |-> stream.full + 1, cut |-> stream.cut \/ part],
                 PutOnWire(target[cur[t]], cur[t]) \/ UNCHANGED wire
          PROVE  wire' \in [Servers -> SUBSET Items] /\ stream' \in [full : 0..MaxFull, cut : BOOLEAN]
      <4>1. wire' \in [Servers -> SUBSET Items]
        BY <2>1, <3>1, <3>3 DEF PutOnWire
      <4>2. stream.full + 1 \in 0..MaxFull
        BY <3>1, <3>3
      <4> QED BY <3>1, <3>3, <4>1, <4>2
    <3> QED BY <1>8, <3>2, <3>3 DEF SendFails, SendError
  <2>3. TypeOK'
    <3>1. at' \in [Threads -> {"idle", "token"} \cup Critical]
      BY <1>1, <1>8 DEF SendFails, TypeOK, Critical
    <3>2. list' \in [Servers -> SUBSET Items]
      BY <1>1, <1>8 DEF SendFails, TypeOK
    <3>3. /\ status' \in [Items -> {"none", "ok", "refused", "failed"}]
          /\ signal' \in [Items -> Nat]
      BY <1>1, <1>8, <2>1 DEF SendFails, TypeOK
    <3>4. UNCHANGED <<outq, cur, tokens, mutex, fd>>
      BY <1>8 DEF SendFails
    <3> QED BY <1>1, <1>2, <2>2, <3>1, <3>2, <3>3, <3>4 DEF TypeOK
  <2>4. AtWork'
    BY <1>1, <1>2, <1>8 DEF SendFails, TypeOK, AtWork
  <2>5. Inside' = Inside
    BY <1>1, <1>8, Stays DEF SendFails, Critical
  <2> QED BY <1>1, <1>3, <1>8, <2>3, <2>4, <2>5, Uncounted DEF CInv, SendFails
<1>9. CASE Drop(t)
  <2>1. TypeOK'
    BY <1>1, <1>2, <1>9 DEF Drop, TypeOK, Critical
  <2>2. AtWork'
    BY <1>1, <1>2, <1>9 DEF Drop, TypeOK, AtWork
  <2>3. Inside' = Inside
    BY <1>1, <1>9, Stays DEF Drop, Critical
  <2> QED BY <1>1, <1>3, <1>9, <2>1, <2>2, <2>3, Uncounted DEF CInv, Drop
<1>10. CASE Unlock(t)
  <2>1. TypeOK'
    BY <1>1, <1>2, <1>10 DEF Unlock, TypeOK, Critical
  <2>2. AtWork'
    BY <1>1, <1>2, <1>10 DEF Unlock, TypeOK, AtWork
  <2>3. Inside' = Inside
    BY <1>1, <1>10, Stays DEF Unlock, Critical
  <2> QED BY <1>1, <1>3, <1>10, <2>1, <2>2, <2>3, Uncounted DEF CInv, Unlock
<1>11. CASE PostToken(t)
  <2>1. Cardinality(Inside') = Cardinality(Inside) - 1 /\ Cardinality(Inside) > 0
    BY <1>1, <1>11, Leaves DEF PostToken, Critical
  <2>2. tokens' = tokens + 1 /\ tokens' \in 0..NTokens
    BY <1>1, <1>11, <2>1, Count, InsideFinite DEF PostToken, TypeOK
  <2>3. TypeOK'
    BY <1>1, <1>2, <1>11, <2>2 DEF PostToken, TypeOK
  <2>4. AtWork'
    BY <1>1, <1>2, <1>11 DEF PostToken, TypeOK, AtWork
  <2>5. TokensConserved'
    BY <1>1, <1>2, <2>1, <2>2, Count, CountLater, InsideFinite DEF TypeOK
  <2> QED BY <1>3, <2>3, <2>4, <2>5 DEF CInv
<1> QED
  BY <1>4, <1>5, <1>6, <1>7, <1>8, <1>9, <1>10, <1>11 DEF Outbound

\* A step of the inbound thread, or a server that dies.
LEMMA InboundSteps ==
    ASSUME CInv, (\E s \in Servers : Inbound(s) \/ ServerDies(s)) \/ InboundGoesOn
    PROVE  CInv'
<1>1. TypeOK /\ AtWork /\ TokensConserved /\ Holding /\ SwapsLeft
  BY DEF CInv
<1> USE ClientAssumption DEF callers, conns, config, sending
<1>2. UNCHANGED <<call, calls, target, sending, tokens, mutex, config>>
  BY DEF Inbound, Receive, Lose, ServerDies, InboundGoesOn, Unlink, Signal
<1>3. AtWork' /\ TokensConserved' /\ Holding' /\ SwapsLeft'
  BY <1>1, <1>2 DEF AtWork, TokensConserved, Holding, SwapsLeft
<1>4. ASSUME NEW s \in Servers, Receive(s) PROVE TypeOK'
  <2>1. PICK i \in wire[s] :
           /\ wire' = [wire EXCEPT ![s] = @ \ {i}]
           /\ \E answer \in {"ok", "refused"} : status' = [status EXCEPT ![i] = answer]
           /\ in' = [at |-> "unlink", server |-> s, item |-> i]
    BY <1>4 DEF Receive
  <2>2. i \in Items
    BY <1>1 DEF TypeOK
  <2>3. in' \in InStates
    BY <2>1, <2>2 DEF InStates
  <2>4. status' \in [Items -> {"none", "ok", "refused", "failed"}]
    BY <1>1, <2>1 DEF TypeOK
  <2>5. wire' \in [Servers -> SUBSET Items]
    BY <1>1, <2>1 DEF TypeOK
  <2> QED BY <1>1, <1>2, <1>4, <2>3, <2>4, <2>5 DEF TypeOK, Receive
<1>5. ASSUME NEW s \in Servers, Lose(s) PROVE TypeOK'
  <2>1. wire' \in [Servers -> SUBSET Items] /\ fd' \in [Servers -> {"up", "closed"}]
    BY <1>1, <1>5 DEF TypeOK, Lose
  <2> QED BY <1>1, <1>5, <2>1 DEF TypeOK, Lose
<1>6. ASSUME NEW s \in Servers, ServerDies(s) PROVE TypeOK'
  <2>1. wire' \in [Servers -> SUBSET Items]
    BY <1>1, <1>6 DEF TypeOK, ServerDies
  <2> QED BY <1>1, <1>6, <2>1 DEF TypeOK, ServerDies
<1>7. in.at \in {"unlink", "signal"} => in.server \in Servers /\ in.item \in Items
  BY <1>1 DEF TypeOK, InStates, Polling
<1>8. CASE Unlink
  <2>1. in \in [at : {"unlink", "signal"}, server : Servers, item : Items]
    BY <1>1, <1>8 DEF Unlink, TypeOK, InStates, Polling
  <2>2. in' \in InStates
    BY <1>8, <2>1 DEF Unlink, InStates
  <2>3. list' \in [Servers -> SUBSET Items]
    BY <1>1, <1>8 DEF Unlink, TypeOK
  <2>4. UNCHANGED <<status, signal, fd, wire, stream, dead>>
    BY <1>8 DEF Unlink
  <2>5. TypeOK'
    BY <1>1, <1>2, <2>2, <2>3, <2>4 DEF TypeOK
  <2> QED BY <1>3, <2>5 DEF CInv
<1>9. CASE Signal
  <2>1. in' \in InStates
    BY <1>9 DEF Signal, InStates
  <2>2. signal' \in [Items -> Nat]
    BY <1>1, <1>7, <1>9 DEF Signal, TypeOK
  <2>3. UNCHANGED <<status, list, fd, wire, stream, dead>>
    BY <1>9 DEF Signal
  <2>4. TypeOK'
    BY <1>1, <1>2, <2>1, <2>2, <2>3 DEF TypeOK
  <2> QED BY <1>3, <2>4 DEF CInv
<1> QED BY <1>3, <1>4, <1>5, <1>6, <1>8, <1>9 DEF CInv, Inbound, InboundGoesOn

\* A step of the configuration thread.
LEMMA ConfigSteps ==
    ASSUME CInv, ConfigChanged \/ ConfigGoesOn
    PROVE  CInv'
<1>1. TypeOK /\ AtWork /\ TokensConserved /\ Holding /\ SwapsLeft
  BY DEF CInv
<1> USE ClientAssumption DEF callers, conns, sending
<1>2. UNCHANGED <<callers, sending, dead, in>>
  BY DEF ConfigChanged, ConfigGoesOn, ConnectServers, Hold, Swap, GiveUp, ReleaseClient
<1>3. AtWork' /\ Inside' = Inside
  BY <1>1, <1>2 DEF AtWork, Inside
<1>4. CASE ConfigChanged
  <2>1. updates' \in 0..MaxUpdates /\ updates' = updates + 1
    BY <1>1, <1>4 DEF ConfigChanged, TypeOK
  <2>2. TypeOK' /\ Holding' /\ SwapsLeft'
    BY <1>1, <1>4, <2>1 DEF ConfigChanged, TypeOK, Holding, SwapsLeft
  <2> QED BY <1>1, <1>3, <1>4, <2>2, Uncounted DEF ConfigChanged, CInv
<1>5. CASE ConnectServers
  <2>1. TypeOK' /\ Holding' /\ SwapsLeft'
    BY <1>1, <1>5 DEF ConnectServers, TypeOK, Holding, SwapsLeft
  <2> QED BY <1>1, <1>3, <1>5, <2>1, Uncounted DEF ConnectServers, CInv
<1>6. CASE Hold
  <2>1. /\ tokens' = tokens - 1 /\ held' = held + 1
        /\ tokens' \in 0..NTokens /\ held' \in 0..NTokens
    BY <1>1, <1>6 DEF Hold, TypeOK, Holding
  <2>2. TypeOK'
    BY <1>1, <1>6, <2>1 DEF Hold, TypeOK
  <2>3. Holding' /\ SwapsLeft'
    BY <1>1, <1>6, <2>1 DEF Hold, Holding, SwapsLeft
  <2>4. TokensConserved'
    BY <1>1, <1>3, <2>1, Count, CountLater, InsideFinite DEF TypeOK
  <2> QED BY <1>3, <2>2, <2>3, <2>4 DEF CInv
<1>7. CASE Swap
  <2>1. swaps' = swaps + 1 /\ swaps' \in 0..MaxUpdates
    BY <1>1, <1>7 DEF Swap, TypeOK, SwapsLeft
  <2>2. TypeOK'
    BY <1>1, <1>7, <2>1 DEF Swap, TypeOK
  <2>3. Holding' /\ SwapsLeft'
    BY <1>1, <1>7, <2>1 DEF Swap, Holding, SwapsLeft, TypeOK
  <2> QED BY <1>1, <1>3, <1>7, <2>2, <2>3, Uncounted DEF Swap, CInv
<1>8. CASE GiveUp
  <2>1. TypeOK' /\ Holding' /\ SwapsLeft'
    BY <1>1, <1>8 DEF GiveUp, TypeOK, Holding, SwapsLeft
  <2> QED BY <1>1, <1>3, <1>8, <2>1, Uncounted DEF GiveUp, CInv
<1>9. CASE ReleaseClient
  <2>1. /\ tokens' = tokens + 1 /\ held' = held - 1
        /\ tokens' \in 0..NTokens /\ held' \in 0..NTokens
    BY <1>1, <1>9, Count, InsideFinite DEF ReleaseClient, TypeOK, Holding
  <2>2. TypeOK'
    BY <1>1, <1>9, <2>1 DEF ReleaseClient, TypeOK
  <2>3. Holding' /\ SwapsLeft'
    BY <1>1, <1>9, <2>1 DEF ReleaseClient, Holding, SwapsLeft, TypeOK
  <2>4. TokensConserved'
    BY <1>1, <1>3, <2>1, Count, CountLater, InsideFinite DEF TypeOK
  <2> QED BY <1>3, <2>2, <2>3, <2>4 DEF CInv
<1> QED BY <1>4, <1>5, <1>6, <1>7, <1>8, <1>9 DEF ConfigGoesOn

-----------------------------------------------------------------------------
LEMMA ClientInductive == CInv /\ [Next]_vars => CInv'
<1> SUFFICES ASSUME CInv, [Next]_vars PROVE CInv'
  OBVIOUS
<1>1. CASE UNCHANGED vars
  BY <1>1 DEF vars, callers, sending, conns, config, CInv, TypeOK, TokensConserved, AtWork,
              Holding, SwapsLeft
<1> QED
  BY <1>1, CallerSteps, OutboundSteps, InboundSteps, ConfigSteps DEF Next

\* The inductive invariant holds in every reachable state.
THEOREM ClientInvariant == Spec => []CInv
  BY InitClient, ClientInductive, PTL DEF Spec

\* TypeOK: the variables of the request path have their types; in particular
\* the semaphore never has more tokens than hfsBuildClientKernel gave it.
THEOREM ClientTypes == Spec => []TypeOK
<1>1. CInv => TypeOK
  BY DEF CInv
<1> QED BY <1>1, ClientInvariant, PTL

\* TokensConserved: on every path through clientOutBoundProcessing and
\* hfsConfigChanged what was waited for is posted.
THEOREM TokensKept == Spec => []TokensConserved
<1>1. CInv => TokensConserved
  BY DEF CInv
<1> QED BY <1>1, ClientInvariant, PTL

\* hfsHoldClient: no outbound thread has a token while connections are swapped,
\* none uses a connection that is replaced.
THEOREM SwapExcludesThreads ==
    Spec => [][swaps' # swaps => \A t \in Threads : at[t] \notin Critical]_vars
<1>1. ASSUME CInv, [Next]_vars, swaps' # swaps
      PROVE  \A t \in Threads : at[t] \notin Critical
  <2>1. Swap
    BY <1>1 DEF Next, Call, GoOn, Retry, Return, Outbound, Take, TakeToken, Lock, Send,
       SendFails, Drop, Unlock, PostToken, Inbound, Receive, Lose, InboundGoesOn, Unlink, Signal,
       ServerDies, ConfigChanged, ConfigGoesOn, ConnectServers, Hold, GiveUp, ReleaseClient,
       vars, config
  <2>2. held = NTokens
    BY <1>1, <2>1 DEF CInv, Holding, Swap
  <2>3. Cardinality(Inside) = 0
    BY <1>1, <2>2, Count, InsideFinite, ClientAssumption DEF CInv, TypeOK
  <2>4. Inside = {}
    BY <2>3, InsideFinite, FS_EmptySet
  <2> QED BY <2>4 DEF Inside
<1>2. CInv /\ [Next]_vars => [swaps' # swaps => \A t \in Threads : at[t] \notin Critical]_vars
  BY <1>1
<1> QED BY <1>2, ClientInvariant, PTL DEF Spec
=============================================================================
