-------------------------- MODULE ClientItems_proofs --------------------------
(***************************************************************************)
(* Proofs about the buffers of ClientConn's requests, for any callers,     *)
(* threads and servers.                                                    *)
(*                                                                         *)
(* Until its caller is signalled a buffer is in one place only: queued,    *)
(* with an outbound thread that has still to send it, on the wire, or with *)
(* the inbound thread (Exclusive, Alone); that is why no completion is     *)
(* signalled twice, whatever fails.  What is on a wire is on the list of   *)
(* its connection (Listed), so that a swap that finds the lists empty cuts *)
(* nobody off.  Both end with a request that was cut off in the middle: it *)
(* has failed, and yet the server may answer it.                           *)
(*                                                                         *)
(* As long as servers live and connections have room (Untroubled) a        *)
(* connection's list has nothing else, only what is being sent on it or    *)
(* whose response is not unlinked (Linked), and the mutex keeps the        *)
(* inbound thread from signalling a caller whose buffer the sender still   *)
(* uses (Locked, Unsigned): nobody uses a buffer that was freed, and no    *)
(* change of the configuration makes a call fail.                          *)
(***************************************************************************)
EXTENDS ClientConn_proofs

Sending == {"token", "lock", "send"}

Queued(i) == \E k \in DOMAIN outq : outq[k] = i
Handled(i) == \E t \in Threads : at[t] \in Sending /\ cur[t] = i
OnWire(i) == \E s \in Servers : i \in wire[s]
Returned(i) == in # Polling /\ in.item = i

Exclusive ==
    \A i \in Items :
        /\ Queued(i) => ~Handled(i) /\ ~OnWire(i) /\ ~Returned(i) /\ signal[i] = 0
        /\ Handled(i) => ~OnWire(i) /\ ~Returned(i) /\ signal[i] = 0
        /\ OnWire(i) => ~Returned(i) /\ signal[i] = 0
        /\ Returned(i) => signal[i] = 0
        /\ signal[i] <= 1

\* Once in the queue, with one thread, on the connection it is meant for.
QueuedOnce == \A j, k \in DOMAIN outq : outq[j] = outq[k] => j = k
HandledOnce == \A t, u \in Threads :
    (at[t] \in Sending /\ at[u] \in Sending /\ cur[t] = cur[u]) => t = u
OnItsWire == \A s \in Servers : \A i \in wire[s] : target[i] = s
Alone == QueuedOnce /\ HandledOnce /\ OnItsWire

\* The caller of a buffer that is anywhere waits for it.
Travels(i) == Queued(i) \/ Handled(i) \/ OnWire(i) \/ Returned(i) \/ signal[i] > 0
Awaited == \A i \in Items : Travels(i) => Live(i)

WayInv == Exclusive /\ Alone /\ Awaited

-----------------------------------------------------------------------------
(* The queue *)

LEMMA QueueGrows ==
    ASSUME outq \in Seq(Items), NEW x \in Items, outq' = Append(outq, x)
    PROVE  /\ \A i \in Items : Queued(i)' <=> Queued(i) \/ i = x
           /\ QueuedOnce /\ ~Queued(x) => QueuedOnce'
<1>1. /\ DOMAIN outq' = DOMAIN outq \cup {Len(outq) + 1}
      /\ Len(outq) + 1 \notin DOMAIN outq
      /\ outq'[Len(outq) + 1] = x
      /\ \A k \in DOMAIN outq : outq'[k] = outq[k]
  OBVIOUS
<1> QED BY <1>1 DEF Queued, QueuedOnce

LEMMA QueueShrinks ==
    ASSUME outq \in Seq(Items), outq # <<>>, outq' = Tail(outq)
    PROVE  /\ Head(outq) \in Items /\ Queued(Head(outq))
           /\ QueuedOnce => /\ QueuedOnce'
                            /\ \A i \in Items : Queued(i)' <=> Queued(i) /\ i # Head(outq)
<1>1. /\ Len(outq) \in Nat \ {0} /\ DOMAIN outq = 1..Len(outq) /\ Head(outq) = outq[1]
      /\ DOMAIN outq' = 1..Len(outq) - 1
      /\ \A k \in 1..Len(outq) - 1 : outq'[k] = outq[k + 1]
  OBVIOUS
<1>2. Head(outq) \in Items /\ Queued(Head(outq))
  BY <1>1 DEF Queued
<1>3. ASSUME QueuedOnce PROVE QueuedOnce'
  BY <1>1, <1>3 DEF QueuedOnce
<1>4. ASSUME QueuedOnce, NEW i \in Items PROVE Queued(i)' <=> Queued(i) /\ i # Head(outq)
  <2>1. ASSUME Queued(i)' PROVE Queued(i) /\ i # Head(outq)
    <3>1. PICK k \in 1..Len(outq) - 1 : outq[k + 1] = i
      BY <1>1, <2>1 DEF Queued
    <3>2. k + 1 \in DOMAIN outq /\ 1 \in DOMAIN outq /\ k + 1 # 1
      BY <1>1
    <3> QED BY <1>1, <1>4, <3>1, <3>2 DEF Queued, QueuedOnce
  <2>2. ASSUME Queued(i), i # Head(outq) PROVE Queued(i)'
    <3>1. PICK k \in 1..Len(outq) : outq[k] = i
      BY <1>1, <2>2 DEF Queued
    <3>2. k - 1 \in 1..Len(outq) - 1 /\ outq'[k - 1] = i
      BY <1>1, <2>2, <3>1
    <3> QED BY <1>1, <3>2 DEF Queued
  <2> QED BY <2>1, <2>2
<1> QED BY <1>2, <1>3, <1>4

LEMMA QueueStays ==
    ASSUME UNCHANGED outq
    PROVE  (\A i \in Items : Queued(i)' <=> Queued(i)) /\ (QueuedOnce => QueuedOnce')
  BY DEF Queued, QueuedOnce

-----------------------------------------------------------------------------
(* The threads *)

\* A thread takes an item from the queue.
LEMMA ThreadTakes ==
    ASSUME TypeOK, NEW t \in Threads, NEW x \in Items, at[t] \notin Sending,
           at' = [at EXCEPT ![t] = "token"], cur' = [cur EXCEPT ![t] = x]
    PROVE  /\ \A i \in Items : Handled(i)' <=> Handled(i) \/ i = x
           /\ HandledOnce /\ ~Handled(x) => HandledOnce'
<1>1. /\ at'[t] = "token" /\ cur'[t] = x
      /\ \A u \in Threads \ {t} : at'[u] = at[u] /\ cur'[u] = cur[u]
  BY DEF TypeOK
<1> QED BY <1>1 DEF Handled, HandledOnce, Sending

\* A thread goes on towards the send with the item it has.
LEMMA ThreadGoesOn ==
    ASSUME TypeOK, NEW t \in Threads, NEW place \in Sending, at[t] \in Sending,
           at' = [at EXCEPT ![t] = place], UNCHANGED cur
    PROVE  /\ \A i \in Items : Handled(i)' <=> Handled(i)
           /\ HandledOnce => HandledOnce'
<1>1. at'[t] \in Sending /\ \A u \in Threads \ {t} : at'[u] = at[u]
  BY DEF TypeOK
<1> QED BY <1>1 DEF Handled, HandledOnce

\* A thread is done with the send.
LEMMA ThreadSent ==
    ASSUME TypeOK, NEW t \in Threads, NEW place, place \notin Sending, at[t] \in Sending,
           at' = [at EXCEPT ![t] = place], UNCHANGED cur
    PROVE  HandledOnce => /\ HandledOnce'
                          /\ \A i \in Items : Handled(i)' <=> Handled(i) /\ i # cur[t]
<1>1. at'[t] \notin Sending /\ \A u \in Threads \ {t} : at'[u] = at[u]
  BY DEF TypeOK
<1> QED BY <1>1 DEF Handled, HandledOnce

\* A thread that has sent goes on.
LEMMA ThreadEnds ==
    ASSUME TypeOK, NEW t \in Threads, NEW place, place \notin Sending, at[t] \notin Sending,
           at' = [at EXCEPT ![t] = place], \A u \in Threads \ {t} : cur'[u] = cur[u]
    PROVE  /\ \A i \in Items : Handled(i)' <=> Handled(i)
           /\ HandledOnce => HandledOnce'
<1>1. at'[t] \notin Sending /\ \A u \in Threads \ {t} : at'[u] = at[u]
  BY DEF TypeOK
<1> QED BY <1>1 DEF Handled, HandledOnce

LEMMA ThreadsStay ==
    ASSUME UNCHANGED <<at, cur>>
    PROVE  (\A i \in Items : Handled(i)' <=> Handled(i)) /\ (HandledOnce => HandledOnce')
  BY DEF Handled, HandledOnce

-----------------------------------------------------------------------------
(* The wire and the callers *)

\* Responses are lost, or the wire is as it was.
LEMMA WireShrinks ==
    ASSUME UNCHANGED target, \A s \in Servers : wire'[s] \subseteq wire[s]
    PROVE  (\A i \in Items : OnWire(i)' => OnWire(i)) /\ (OnItsWire => OnItsWire')
  BY DEF OnWire, OnItsWire

\* A caller that goes on with its buffer, or a step of another thread.
LEMMA CallersStay ==
    ASSUME UNCHANGED <<call, calls>>
    PROVE  \A i \in Items : Live(i)' <=> Live(i)
  BY DEF Live

\* What Exclusive and Awaited say of one item.
LEMMA Apart ==
    ASSUME WayInv, NEW i \in Items
    PROVE  /\ Queued(i) => ~Handled(i) /\ ~OnWire(i) /\ ~Returned(i) /\ signal[i] = 0
           /\ Handled(i) => ~OnWire(i) /\ ~Returned(i) /\ signal[i] = 0
           /\ OnWire(i) => ~Returned(i) /\ signal[i] = 0
           /\ Returned(i) => signal[i] = 0
           /\ signal[i] <= 1
           /\ ~Live(i) => /\ ~Queued(i) /\ ~Handled(i) /\ ~OnWire(i) /\ ~Returned(i)
                          /\ ~(signal[i] > 0)
  BY DEF WayInv, Exclusive, Awaited, Travels

-----------------------------------------------------------------------------
LEMMA WayInit == Init => WayInv
<1> SUFFICES ASSUME Init PROVE WayInv
  OBVIOUS
<1>1. \A i \in Items : ~Queued(i) /\ ~Handled(i) /\ ~OnWire(i) /\ ~Returned(i) /\ signal[i] = 0
  BY DEF Init, Queued, Handled, OnWire, Returned, Sending
<1>2. Alone
  BY DEF Init, Alone, QueuedOnce, HandledOnce, OnItsWire, Sending
<1> QED BY <1>1, <1>2 DEF WayInv, Exclusive, Awaited, Travels

\* Call: the new buffer is nowhere yet.
LEMMA WayCall ==
    ASSUME CInv, WayInv, NEW c \in Callers, NEW s \in Servers, Call(c, s)
    PROVE  WayInv'
<1> DEFINE x == <<c, calls[c] + 1>>
<1>1. TypeOK /\ calls[c] \in Nat /\ x \in Items
  <2>1. TypeOK /\ calls[c] \in 0..MaxCalls /\ calls[c] < MaxCalls
    BY DEF CInv, TypeOK, Call
  <2> QED BY <2>1, ClientAssumption DEF Items
<1>2. /\ call[c] = "idle"
      /\ call' = [call EXCEPT ![c] = "waiting"]
      /\ calls' = [calls EXCEPT ![c] = @ + 1]
      /\ target' = [target EXCEPT ![x] = s]
      /\ outq' = Append(outq, x)
      /\ UNCHANGED <<signal, at, cur, wire, in>>
  BY DEF Call, conns
<1>3. ~Live(x)
  BY <1>1 DEF Live
<1>4. \A i \in Items : Live(i) => Live(i)' /\ i # x
  BY <1>1, <1>2 DEF Live, TypeOK
<1>5. \A i \in Items : i = x => Live(i)'
  BY <1>1, <1>2 DEF Live, TypeOK
<1>6. outq \in Seq(Items)
  BY <1>1 DEF TypeOK
<1>7. (\A i \in Items : Queued(i)' <=> Queued(i) \/ i = x) /\ (QueuedOnce /\ ~Queued(x) => QueuedOnce')
  BY <1>1, <1>2, <1>6, QueueGrows
<1>8. (\A i \in Items : Handled(i)' <=> Handled(i)) /\ (HandledOnce => HandledOnce')
  BY <1>2, ThreadsStay
<1>9. \A i \in Items : (OnWire(i)' <=> OnWire(i)) /\ (Returned(i)' <=> Returned(i))
  BY <1>2 DEF OnWire, Returned
<1>10. \A i \in Items \ {x} : target'[i] = target[i]
  BY <1>1, <1>2 DEF TypeOK
<1>11. /\ ~Queued(x) /\ ~Handled(x) /\ ~OnWire(x) /\ ~Returned(x) /\ ~(signal[x] > 0)
       /\ signal[x] \in Nat
  BY <1>1, <1>3, Apart DEF TypeOK
<1> HIDE DEF x
<1>12. OnItsWire'
  <2>1. \A u \in Servers : \A i \in wire[u] : i \in Items /\ i # x
    BY <1>1, <1>11 DEF OnWire, TypeOK
  <2> QED BY <1>2, <1>10, <2>1 DEF WayInv, Alone, OnItsWire
<1>13. Alone'
  BY <1>7, <1>8, <1>11, <1>12 DEF WayInv, Alone
<1>14. Exclusive'
  BY <1>2, <1>7, <1>8, <1>9, <1>11 DEF WayInv, Exclusive
<1>15. Awaited'
  BY <1>2, <1>4, <1>5, <1>7, <1>8, <1>9 DEF WayInv, Awaited, Travels
<1> QED BY <1>13, <1>14, <1>15 DEF WayInv

\* Retry: the completion was waited for, the buffer is nowhere else.
LEMMA WayRetry ==
    ASSUME CInv, WayInv, NEW c \in Callers, Retry(c)
    PROVE  WayInv'
<1> DEFINE x == Current(c)
<1>1. TypeOK /\ x \in Items /\ call[c] = "waiting" /\ signal[x] > 0
  <2>1. TypeOK /\ AtWork /\ call[c] = "waiting" /\ signal[x] > 0
    BY DEF CInv, Retry
  <2>2. calls[c] > 0 /\ calls[c] \in 0..MaxCalls
    BY <2>1 DEF AtWork, TypeOK
  <2> QED BY <2>1, <2>2, ClientAssumption DEF Items, Current
<1>2. /\ call' = [call EXCEPT ![c] = "retrying"]
      /\ signal' = [signal EXCEPT ![x] = @ - 1]
      /\ target' = [target EXCEPT ![x] = Backup[@]]
      /\ outq' = Append(outq, x)
      /\ UNCHANGED <<calls, at, cur, wire, in>>
  BY DEF Retry, conns
<1>3. \A i \in Items : Live(i)' <=> Live(i)
  BY <1>1, <1>2 DEF Live, TypeOK
<1>4. outq \in Seq(Items) /\ signal[x] \in Nat
  BY <1>1 DEF TypeOK
<1>5. (\A i \in Items : Queued(i)' <=> Queued(i) \/ i = x) /\ (QueuedOnce /\ ~Queued(x) => QueuedOnce')
  BY <1>1, <1>2, <1>4, QueueGrows
<1>6. (\A i \in Items : Handled(i)' <=> Handled(i)) /\ (HandledOnce => HandledOnce')
  BY <1>2, ThreadsStay
<1>7. \A i \in Items : (OnWire(i)' <=> OnWire(i)) /\ (Returned(i)' <=> Returned(i))
  BY <1>2 DEF OnWire, Returned
<1>8. \A i \in Items \ {x} : target'[i] = target[i] /\ signal'[i] = signal[i]
  BY <1>1, <1>2 DEF TypeOK
<1>9. /\ ~Queued(x) /\ ~Handled(x) /\ ~OnWire(x) /\ ~Returned(x) /\ signal[x] = 1 /\ Live(x)
  BY <1>1, <1>4, Apart
<1>10. signal'[x] = 0
  BY <1>1, <1>2, <1>9 DEF TypeOK
<1> HIDE DEF x
<1>11. OnItsWire'
  <2>1. \A u \in Servers : \A i \in wire[u] : i \in Items /\ i # x
    BY <1>1, <1>9 DEF OnWire, TypeOK
  <2> QED BY <1>2, <1>8, <2>1 DEF WayInv, Alone, OnItsWire
<1>12. Alone'
  BY <1>5, <1>6, <1>9, <1>11 DEF WayInv, Alone
<1>13. Exclusive'
  BY <1>5, <1>6, <1>7, <1>8, <1>9, <1>10 DEF WayInv, Exclusive
<1>14. Awaited'
  BY <1>3, <1>5, <1>6, <1>7, <1>8, <1>9 DEF WayInv, Awaited, Travels
<1> QED BY <1>12, <1>13, <1>14 DEF WayInv

\* Return: the buffer that is freed is nowhere.
LEMMA WayReturn ==
    ASSUME CInv, WayInv, NEW c \in Callers, Return(c)
    PROVE  WayInv'
<1> DEFINE x == Current(c)
<1>1. TypeOK /\ x \in Items /\ call[c] # "idle" /\ signal[x] > 0
  BY DEF CInv, AtWork, TypeOK, Return, Items, Current
<1>2. /\ call' = [call EXCEPT ![c] = "idle"]
      /\ signal' = [signal EXCEPT ![x] = @ - 1]
      /\ UNCHANGED <<calls, target, outq, at, cur, wire, in>>
  BY DEF Return, conns, sending
<1>3. \A i \in Items : Live(i)' <=> Live(i) /\ i # x
  BY <1>1, <1>2 DEF Live, TypeOK, Items, Current
<1>4. (\A i \in Items : Queued(i)' <=> Queued(i)) /\ (QueuedOnce => QueuedOnce')
  BY <1>2, QueueStays
<1>5. (\A i \in Items : Handled(i)' <=> Handled(i)) /\ (HandledOnce => HandledOnce')
  BY <1>2, ThreadsStay
<1>6. /\ \A i \in Items : (OnWire(i)' <=> OnWire(i)) /\ (Returned(i)' <=> Returned(i))
      /\ OnItsWire => OnItsWire'
  BY <1>2 DEF OnWire, Returned, OnItsWire
<1>7. \A i \in Items \ {x} : signal'[i] = signal[i]
  BY <1>1, <1>2 DEF TypeOK
<1>8. signal[x] \in Nat
  BY <1>1 DEF TypeOK
<1>9. ~Queued(x) /\ ~Handled(x) /\ ~OnWire(x) /\ ~Returned(x) /\ signal[x] = 1
  BY <1>1, <1>8, Apart
<1>10. signal'[x] = 0
  BY <1>1, <1>2, <1>9 DEF TypeOK
<1> HIDE DEF x
<1>11. Alone'
  BY <1>4, <1>5, <1>6 DEF WayInv, Alone
<1>12. Exclusive'
  BY <1>4, <1>5, <1>6, <1>7, <1>9, <1>10 DEF WayInv, Exclusive
<1>13. Awaited'
  BY <1>3, <1>4, <1>5, <1>6, <1>7, <1>9, <1>10 DEF WayInv, Awaited, Travels
<1> QED BY <1>11, <1>12, <1>13 DEF WayInv

-----------------------------------------------------------------------------
\* Take: from the queue to the thread.
LEMMA WayTake ==
    ASSUME CInv, WayInv, NEW t \in Threads, Take(t)
    PROVE  WayInv'
<1> DEFINE x == Head(outq)
<1>1. /\ TypeOK /\ outq \in Seq(Items) /\ outq # <<>> /\ at[t] \notin Sending
      /\ outq' = Tail(outq)
      /\ at' = [at EXCEPT ![t] = "token"] /\ cur' = [cur EXCEPT ![t] = x]
      /\ UNCHANGED <<call, calls, target, signal, wire, in>>
  BY DEF CInv, TypeOK, Take, Sending, conns
<1>2. x \in Items /\ Queued(x) /\ QueuedOnce' /\ \A i \in Items : Queued(i)' <=> Queued(i) /\ i # x
  BY <1>1, QueueShrinks DEF WayInv, Alone
<1>3. ~Handled(x) /\ ~OnWire(x) /\ ~Returned(x) /\ signal[x] = 0
  BY <1>2, Apart
<1> HIDE DEF x
<1>4. (\A i \in Items : Handled(i)' <=> Handled(i) \/ i = x) /\ HandledOnce'
  BY <1>1, <1>2, <1>3, ThreadTakes DEF WayInv, Alone
<1>5. /\ \A i \in Items : (OnWire(i)' <=> OnWire(i)) /\ (Returned(i)' <=> Returned(i))
      /\ OnItsWire'
  BY <1>1 DEF OnWire, Returned, OnItsWire, WayInv, Alone
<1>6. \A i \in Items : Live(i)' <=> Live(i)
  BY <1>1, CallersStay
<1>7. Exclusive'
  BY <1>1, <1>2, <1>3, <1>4, <1>5 DEF WayInv, Exclusive
<1>8. Awaited'
  BY <1>1, <1>2, <1>4, <1>5, <1>6 DEF WayInv, Awaited, Travels
<1> QED BY <1>2, <1>4, <1>5, <1>7, <1>8 DEF WayInv, Alone

\* Send: from the thread to the wire, or lost.
LEMMA WaySend ==
    ASSUME CInv, WayInv, NEW t \in Threads, Send(t)
    PROVE  WayInv'
<1> DEFINE x == cur[t]
<1>1. /\ TypeOK /\ at[t] = "send" /\ x \in Items
      /\ wire' = wire \/ wire' = [wire EXCEPT ![target[x]] = @ \cup {x}]
      /\ at' = [at EXCEPT ![t] = "unlock"]
      /\ UNCHANGED <<call, calls, target, signal, outq, cur, in>>
  BY DEF CInv, AtWork, Send, PutOnWire, callers
<1>2. Handled(x)
  BY <1>1 DEF Handled, Sending
<1>3. ~Queued(x) /\ ~OnWire(x) /\ ~Returned(x) /\ signal[x] = 0
  BY <1>1, <1>2, Apart
<1>4. (\A i \in Items : Handled(i)' <=> Handled(i) /\ i # x) /\ HandledOnce'
  BY <1>1, ThreadSent DEF WayInv, Alone, Sending
<1>5. (\A i \in Items : Queued(i)' <=> Queued(i)) /\ QueuedOnce'
  BY <1>1, QueueStays DEF WayInv, Alone
<1>6. \A s \in Servers : \A i \in wire'[s] : i \in wire[s] \/ (i = x /\ s = target[x])
  BY <1>1 DEF TypeOK
<1>7. \A i \in Items : (OnWire(i)' => OnWire(i) \/ i = x) /\ (Returned(i)' <=> Returned(i))
  <2>1. UNCHANGED in
    BY <1>1
  <2> HIDE DEF x
  <2> QED BY <1>6, <2>1 DEF OnWire, Returned
<1>8. OnItsWire'
  <2>1. \A s \in Servers : \A i \in wire[s] : target[i] = s
    BY DEF WayInv, Alone, OnItsWire
  <2>2. UNCHANGED target
    BY <1>1
  <2> HIDE DEF x
  <2> QED BY <1>6, <2>1, <2>2 DEF OnItsWire
<1>9. \A i \in Items : Live(i)' <=> Live(i)
  BY <1>1, CallersStay
<1> HIDE DEF x
<1>10. Exclusive'
  BY <1>1, <1>3, <1>4, <1>5, <1>7 DEF WayInv, Exclusive
<1>11. Awaited'
  BY <1>1, <1>2, <1>4, <1>5, <1>7, <1>9 DEF WayInv, Awaited, Travels
<1> QED BY <1>4, <1>5, <1>8, <1>10, <1>11 DEF WayInv, Alone

\* A send that fails without cutting the request off leaves the wire alone.
LEMMA NothingCut ==
    ASSUME NEW t \in Threads, SendFails(t), ~stream'.cut
    PROVE  UNCHANGED wire
  BY DEF SendFails, SendError

\* SendFails: from the thread to its caller.
LEMMA WaySendFails ==
    ASSUME CInv, WayInv, NEW t \in Threads, SendFails(t), ~stream'.cut
    PROVE  WayInv'
<1> DEFINE x == cur[t]
<1>1. /\ TypeOK /\ at[t] = "send" /\ x \in Items
      /\ signal' = [signal EXCEPT ![x] = @ + 1]
      /\ at' = [at EXCEPT ![t] = "drop"]
      /\ UNCHANGED <<call, calls, target, outq, cur, in>>
  BY DEF CInv, AtWork, SendFails
<1>11. UNCHANGED wire
  BY NothingCut
<1>2. Handled(x)
  BY <1>1 DEF Handled, Sending
<1>3. ~Queued(x) /\ ~OnWire(x) /\ ~Returned(x) /\ signal[x] = 0
  BY <1>1, <1>2, Apart
<1>4. (\A i \in Items : Handled(i)' <=> Handled(i) /\ i # x) /\ HandledOnce'
  BY <1>1, ThreadSent DEF WayInv, Alone, Sending
<1>5. (\A i \in Items : Queued(i)' <=> Queued(i)) /\ QueuedOnce'
  BY <1>1, QueueStays DEF WayInv, Alone
<1>6. /\ \A i \in Items : (OnWire(i)' <=> OnWire(i)) /\ (Returned(i)' <=> Returned(i))
      /\ OnItsWire'
  BY <1>1, <1>11 DEF OnWire, Returned, OnItsWire, WayInv, Alone
<1>7. signal'[x] = 1 /\ \A i \in Items \ {x} : signal'[i] = signal[i]
  BY <1>1, <1>3 DEF TypeOK
<1>8. \A i \in Items : Live(i)' <=> Live(i)
  BY <1>1, CallersStay
<1> HIDE DEF x
<1>9. Exclusive'
  BY <1>1, <1>3, <1>4, <1>5, <1>6, <1>7 DEF WayInv, Exclusive
<1>10. Awaited'
  BY <1>1, <1>2, <1>4, <1>5, <1>6, <1>7, <1>8 DEF WayInv, Awaited, Travels
<1> QED BY <1>4, <1>5, <1>6, <1>9, <1>10 DEF WayInv, Alone

\* The other steps of an outbound thread: towards the send, or after it.
LEMMA WayOutbound ==
    ASSUME CInv, WayInv, NEW t \in Threads, Outbound(t), ~stream'.cut
    PROVE  WayInv'
<1>1. TypeOK
  BY DEF CInv
<1>2. ASSUME TakeToken(t) \/ Lock(t) \/ Drop(t) \/ Unlock(t) \/ PostToken(t)
      PROVE  WayInv'
  <2>1. UNCHANGED <<call, calls, target, signal, outq, in>>
    BY <1>2 DEF TakeToken, Lock, Drop, Unlock, PostToken, callers
  <2>2. (\A i \in Items : Handled(i)' <=> Handled(i)) /\ (HandledOnce => HandledOnce')
    <3>1. CASE TakeToken(t) \/ Lock(t)
      BY <1>1, <3>1, ThreadGoesOn DEF TakeToken, Lock, Sending
    <3>2. CASE Drop(t) \/ Unlock(t)
      BY <1>1, <3>2, ThreadEnds DEF Drop, Unlock, Sending
    <3>3. CASE PostToken(t)
      <4>1. /\ at[t] \notin Sending /\ at' = [at EXCEPT ![t] = "idle"] /\ "idle" \notin Sending
            /\ \A u \in Threads \ {t} : cur'[u] = cur[u]
        BY <1>1, <3>3 DEF PostToken, Sending, TypeOK
      <4> QED BY <1>1, <4>1, ThreadEnds
    <3> QED BY <1>2, <3>1, <3>2, <3>3
  <2>3. \A s \in Servers : wire'[s] \subseteq wire[s]
    BY <1>1, <1>2 DEF TakeToken, Lock, Drop, Unlock, PostToken, conns, TypeOK
  <2>4. (\A i \in Items : OnWire(i)' => OnWire(i)) /\ OnItsWire'
    BY <2>1, <2>3, WireShrinks DEF WayInv, Alone
  <2>5. (\A i \in Items : Queued(i)' <=> Queued(i)) /\ QueuedOnce'
    BY <2>1, QueueStays DEF WayInv, Alone
  <2>6. \A i \in Items : (Returned(i)' <=> Returned(i)) /\ (Live(i)' <=> Live(i))
    BY <2>1, CallersStay DEF Returned
  <2>7. Exclusive'
    BY <2>1, <2>2, <2>4, <2>5, <2>6 DEF WayInv, Exclusive
  <2>8. Awaited'
    BY <2>1, <2>2, <2>4, <2>5, <2>6 DEF WayInv, Awaited, Travels
  <2> QED BY <2>2, <2>4, <2>5, <2>7, <2>8 DEF WayInv, Alone
<1> QED BY <1>2, WayTake, WaySend, WaySendFails DEF Outbound

\* Receive: from the wire to the inbound thread.
LEMMA WayReceive ==
    ASSUME CInv, WayInv, NEW s \in Servers, Receive(s)
    PROVE  WayInv'
<1>1. PICK x \in wire[s] : /\ wire' = [wire EXCEPT ![s] = @ \ {x}]
                           /\ in' = [at |-> "unlink", server |-> s, item |-> x]
  BY DEF Receive
<1>2. /\ TypeOK /\ x \in Items /\ in = Polling
      /\ UNCHANGED <<call, calls, target, signal, outq, at, cur>>
  BY DEF CInv, TypeOK, Receive, sending
<1>3. OnWire(x)
  BY DEF OnWire
<1>4. ~Queued(x) /\ ~Handled(x) /\ ~Returned(x) /\ signal[x] = 0
  BY <1>2, <1>3, Apart
<1>5. \A u \in Servers : wire'[u] \subseteq wire[u]
  BY <1>1, <1>2 DEF TypeOK
<1>6. (\A i \in Items : OnWire(i)' => OnWire(i)) /\ OnItsWire'
  BY <1>2, <1>5, WireShrinks DEF WayInv, Alone
<1>7. ~OnWire(x)'
  BY <1>1, <1>2 DEF OnWire, WayInv, Alone, OnItsWire, TypeOK
<1>8. \A i \in Items : Returned(i)' <=> i = x
  BY <1>1 DEF Returned, Polling
<1>9. (\A i \in Items : Queued(i)' <=> Queued(i)) /\ QueuedOnce'
  BY <1>2, QueueStays DEF WayInv, Alone
<1>10. (\A i \in Items : Handled(i)' <=> Handled(i)) /\ HandledOnce'
  BY <1>2, ThreadsStay DEF WayInv, Alone
<1>11. \A i \in Items : (Live(i)' <=> Live(i))
  BY <1>2, CallersStay
<1>12. Exclusive'
  BY <1>2, <1>4, <1>6, <1>7, <1>8, <1>9, <1>10 DEF WayInv, Exclusive
<1>13. Awaited'
  BY <1>2, <1>3, <1>6, <1>8, <1>9, <1>10, <1>11 DEF WayInv, Awaited, Travels
<1> QED BY <1>6, <1>9, <1>10, <1>12, <1>13 DEF WayInv, Alone

\* Signal: from the inbound thread to the caller.
LEMMA WaySignal ==
    ASSUME CInv, WayInv, Signal
    PROVE  WayInv'
<1> DEFINE x == in.item
<1>1. /\ TypeOK /\ in # Polling /\ in' = Polling
      /\ signal' = [signal EXCEPT ![x] = @ + 1]
      /\ UNCHANGED <<call, calls, target, outq, at, cur, wire>>
  BY DEF CInv, Signal, conns, sending, Polling
<1>2. x \in Items
  BY <1>1 DEF TypeOK, InStates
<1>3. Returned(x)
  BY <1>1 DEF Returned
<1>4. ~Queued(x) /\ ~Handled(x) /\ ~OnWire(x) /\ signal[x] = 0
  BY <1>2, <1>3, Apart
<1>5. signal'[x] = 1 /\ \A i \in Items \ {x} : signal'[i] = signal[i]
  BY <1>1, <1>2, <1>4 DEF TypeOK
<1>6. \A i \in Items : ~Returned(i)' /\ (OnWire(i)' <=> OnWire(i)) /\ (Live(i)' <=> Live(i))
  BY <1>1, CallersStay DEF Returned, OnWire
<1>7. (\A i \in Items : Queued(i)' <=> Queued(i)) /\ QueuedOnce'
  BY <1>1, QueueStays DEF WayInv, Alone
<1>8. (\A i \in Items : Handled(i)' <=> Handled(i)) /\ HandledOnce' /\ OnItsWire'
  BY <1>1, ThreadsStay DEF WayInv, Alone, OnItsWire
<1> HIDE DEF x
<1>9. Exclusive'
  BY <1>4, <1>5, <1>6, <1>7, <1>8 DEF WayInv, Exclusive
<1>10. Awaited'
  BY <1>3, <1>5, <1>6, <1>7, <1>8 DEF WayInv, Awaited, Travels
<1> QED BY <1>7, <1>8, <1>9, <1>10 DEF WayInv, Alone

\* Lost responses, and steps that touch no buffer.
LEMMA WayElse ==
    ASSUME CInv, WayInv,
           \/ \E s \in Servers : Lose(s) \/ ServerDies(s)
           \/ Unlink \/ ConfigChanged \/ ConfigGoesOn \/ UNCHANGED vars
    PROVE  WayInv'
<1>1. UNCHANGED <<call, calls, target, signal, outq, at, cur>>
  BY DEF Lose, ServerDies, Unlink, ConfigChanged, ConfigGoesOn, ConnectServers, Hold, Swap,
         GiveUp, ReleaseClient, vars, callers, sending
<1>2. \A s \in Servers : wire'[s] \subseteq wire[s]
  <2>1. wire \in [Servers -> SUBSET Items]
    BY DEF CInv, TypeOK
  <2>2. ASSUME NEW s \in Servers, Lose(s) \/ ServerDies(s)
        PROVE  \A u \in Servers : wire'[u] \subseteq wire[u]
    BY <2>1, <2>2 DEF Lose, ServerDies
  <2>3. UNCHANGED wire \/ wire' = [s \in Servers |-> {}] \/ \E s \in Servers : Lose(s) \/ ServerDies(s)
    BY DEF Unlink, ConfigChanged, ConfigGoesOn, ConnectServers, Hold, Swap, GiveUp,
           ReleaseClient, vars, conns
  <2> QED BY <2>2, <2>3
<1>3. \A i \in Items : Returned(i)' <=> Returned(i)
  <2>1. CASE UNCHANGED in
    BY <2>1 DEF Returned
  <2>2. CASE Unlink
    BY <2>2 DEF Unlink, Returned, CInv, TypeOK, InStates, Polling
  <2> QED BY <2>1, <2>2 DEF Lose, ServerDies, ConfigChanged, ConfigGoesOn, ConnectServers, Hold,
             Swap, GiveUp, ReleaseClient, vars
<1>4. (\A i \in Items : OnWire(i)' => OnWire(i)) /\ OnItsWire'
  BY <1>1, <1>2, WireShrinks DEF WayInv, Alone
<1>5. (\A i \in Items : Queued(i)' <=> Queued(i)) /\ QueuedOnce'
  BY <1>1, QueueStays DEF WayInv, Alone
<1>6. (\A i \in Items : Handled(i)' <=> Handled(i)) /\ HandledOnce'
  BY <1>1, ThreadsStay DEF WayInv, Alone
<1>7. \A i \in Items : Live(i)' <=> Live(i)
  BY <1>1, CallersStay
<1>8. Exclusive'
  BY <1>1, <1>3, <1>4, <1>5, <1>6 DEF WayInv, Exclusive
<1>9. Awaited'
  BY <1>1, <1>3, <1>4, <1>5, <1>6, <1>7 DEF WayInv, Awaited, Travels
<1> QED BY <1>4, <1>5, <1>6, <1>8, <1>9 DEF WayInv, Alone

LEMMA WayInductive == CInv /\ WayInv /\ [Next]_vars /\ ~stream'.cut => WayInv'
<1> SUFFICES ASSUME CInv, WayInv, [Next]_vars, ~stream'.cut PROVE WayInv'
  OBVIOUS
<1>1. ASSUME NEW c \in Callers, GoOn(c) PROVE WayInv'
  BY <1>1, WayRetry, WayReturn DEF GoOn
<1>2. ASSUME NEW s \in Servers, Inbound(s) PROVE WayInv'
  BY <1>2, WayReceive, WayElse DEF Inbound
<1>3. CASE InboundGoesOn
  BY <1>3, WaySignal, WayElse DEF InboundGoesOn
<1> QED BY <1>1, <1>2, <1>3, WayCall, WayOutbound, WayElse DEF Next

\* What a request that was cut off ends.
CutIsFull == stream.cut => stream.full > 0
WayUncut == CutIsFull /\ (~stream.cut => WayInv)

\* What failed stays recorded.
LEMMA HistoryStays ==
    ASSUME CInv, [Next]_vars
    PROVE  /\ stream.cut => stream'.cut
           /\ Untroubled' => Untroubled
           /\ CutIsFull => CutIsFull'
<1>1. stream \in [full : 0..MaxFull, cut : BOOLEAN] /\ MaxFull \in Nat
  BY ClientAssumption DEF CInv, TypeOK
<1>2. CASE UNCHANGED <<stream, dead>>
  BY <1>2 DEF Untroubled, CutIsFull
<1>3. ASSUME NEW s \in Servers, ServerDies(s)
      PROVE  dead' # {} /\ UNCHANGED stream
  BY <1>3 DEF ServerDies
<1>4. ASSUME NEW t \in Threads, SendFails(t)
      PROVE  /\ UNCHANGED dead
             /\ \/ UNCHANGED stream
                \/ stream'.full = stream.full + 1 /\ (stream.cut => stream'.cut)
  BY <1>1, <1>4 DEF SendFails, SendError
<1>5. \/ UNCHANGED <<stream, dead>>
      \/ \E s \in Servers : ServerDies(s)
      \/ \E t \in Threads : SendFails(t)
  BY DEF Next, Call, GoOn, Retry, Return, Outbound, Take, TakeToken, Lock, Send, conns,
     Drop, Unlock, PostToken, Inbound, Receive, Lose, InboundGoesOn, Unlink, Signal,
     ConfigChanged, ConfigGoesOn, ConnectServers, Hold, Swap, GiveUp, ReleaseClient, vars
<1>6. ASSUME NEW t \in Threads, SendFails(t)
      PROVE  /\ stream.cut => stream'.cut
             /\ Untroubled' => Untroubled
             /\ CutIsFull => CutIsFull'
  BY <1>1, <1>2, <1>4, <1>6 DEF Untroubled, CutIsFull
<1> QED BY <1>2, <1>3, <1>5, <1>6 DEF Untroubled, CutIsFull

\* Until a request is cut off a buffer is in one place at a time, in every
\* reachable state.
THEOREM WayInvariant == Spec => [](CInv /\ WayUncut)
<1>1. Init => CInv /\ WayUncut
  BY InitClient, WayInit DEF Init, WayUncut, CutIsFull
<1>2. CInv /\ WayUncut /\ [Next]_vars => (CInv /\ WayUncut)'
  BY ClientInductive, WayInductive, HistoryStays DEF WayUncut
<1> QED BY <1>1, <1>2, PTL DEF Spec

\* SignalledOnce: whatever fails, short of a request that is cut off in the
\* middle, a semaphore is posted once for a wait; no caller frees or resends a
\* buffer because of an earlier completion.
THEOREM CompletionsOnce == Spec => []SignalledOnce
<1>1. CInv /\ WayUncut => SignalledOnce
  <2> SUFFICES ASSUME CInv, WayInv, NEW i \in Items
               PROVE  signal[i] <= IF Live(i) THEN 1 ELSE 0
    BY DEF SignalledOnce, WayUncut
  <2>1. signal[i] \in Nat
    BY DEF CInv, TypeOK
  <2> QED BY <2>1, Apart
<1> QED BY <1>1, WayInvariant, PTL

-----------------------------------------------------------------------------
(* Swaps *)

\* What is sent or on a wire is on the list of its connection, whatever fails.
Listed ==
    /\ \A s \in Servers : wire[s] \subseteq list[s]
    /\ \A t \in Threads : at[t] = "send" => cur[t] \in list[target[cur[t]]]

\* A thread that is sending has an item whose caller waits, on no wire.
LEMMA BeingSent ==
    ASSUME CInv, WayInv, NEW t \in Threads, at[t] = "send"
    PROVE  /\ cur[t] \in Items /\ Handled(cur[t]) /\ Live(cur[t]) /\ signal[cur[t]] = 0
           /\ ~OnWire(cur[t]) /\ ~Returned(cur[t]) /\ target[cur[t]] \in Servers
<1>1. cur[t] \in Items /\ Handled(cur[t])
  BY DEF CInv, AtWork, Handled, Sending
<1>2. target[cur[t]] \in Servers
  BY <1>1 DEF CInv, TypeOK
<1> QED BY <1>1, <1>2, Apart

\* Nothing is taken off a list that has still to be on it.
LEMMA ListedStays ==
    ASSUME Listed, UNCHANGED <<cur, target>>,
           \A s \in Servers : wire'[s] \subseteq wire[s],
           \A t \in Threads : at'[t] = "send" => at[t] = "send" /\ target[cur[t]] \in Servers,
           \A s \in Servers : \A i \in list[s] \ list'[s] :
               i \notin wire'[s] /\ \A t \in Threads : at'[t] = "send" => cur[t] # i
    PROVE  Listed'
<1>1. \A s \in Servers : wire'[s] \subseteq list'[s]
  BY DEF Listed
<1>2. ASSUME NEW t \in Threads, at'[t] = "send" PROVE cur'[t] \in list'[target'[cur'[t]]]
  <2>1. at[t] = "send" /\ target[cur[t]] \in Servers /\ cur[t] \in list[target[cur[t]]]
    BY <1>2 DEF Listed
  <2> QED BY <1>2, <2>1
<1> QED BY <1>1, <1>2 DEF Listed

\* A call and a retry give an address only to a buffer nobody is sending.
LEMMA ListedCaller ==
    ASSUME CInv, WayInv, Listed, NEW c \in Callers, (\E s \in Servers : Call(c, s)) \/ GoOn(c)
    PROVE  Listed'
<1>1. UNCHANGED <<cur, at, wire, list>>
  BY DEF Call, GoOn, Retry, Return, conns, sending
<1>2. ASSUME NEW t \in Threads, at[t] = "send" PROVE target'[cur[t]] = target[cur[t]]
  <2>1. /\ TypeOK /\ cur[t] \in Items /\ Live(cur[t]) /\ signal[cur[t]] = 0
    BY <1>2, BeingSent DEF CInv
  <2>2. CASE \E s \in Servers : Call(c, s)
    <3>1. cur[t] # <<c, calls[c] + 1>>
      <4> SUFFICES ASSUME cur[t] = <<c, calls[c] + 1>> PROVE FALSE
        OBVIOUS
      <4>1. call[c] = "idle"
        BY <2>2 DEF Call
      <4> QED BY <2>1, <4>1 DEF Live
    <3> QED BY <2>1, <2>2, <3>1 DEF Call, TypeOK
  <2>3. CASE GoOn(c)
    BY <2>1, <2>3 DEF GoOn, Retry, Return, TypeOK
  <2> QED BY <2>2, <2>3
<1> QED BY <1>1, <1>2 DEF Listed

LEMMA ListedOutbound ==
    ASSUME CInv, WayInv, Listed, NEW t \in Threads, Outbound(t), ~stream'.cut
    PROVE  Listed'
<1> DEFINE x == cur[t]
<1>1. TypeOK /\ UNCHANGED target
  BY DEF CInv, Outbound, Take, TakeToken, Lock, Send, SendFails, Drop, Unlock, PostToken, callers
<1>2. \A u \in Threads : at[u] = "send" => cur[u] \in Items /\ target[cur[u]] \in Servers
  BY BeingSent
<1>3. CASE Lock(t)
  <2>1. x \in Items /\ target[x] \in Servers
    BY <1>1, <1>3 DEF CInv, AtWork, Lock, TypeOK
  <2>2. /\ list' = [list EXCEPT ![target[x]] = @ \cup {x}] /\ at' = [at EXCEPT ![t] = "send"]
        /\ UNCHANGED <<cur, wire>>
    BY <1>3 DEF Lock
  <2>3. x \in list'[target[x]] /\ \A s \in Servers : list[s] \subseteq list'[s]
    BY <1>1, <2>1, <2>2 DEF TypeOK
  <2>4. \A u \in Threads \ {t} : at'[u] = at[u]
    BY <1>1, <2>2 DEF TypeOK
  <2> QED BY <1>1, <1>2, <2>2, <2>3, <2>4 DEF Listed
<1>4. CASE Send(t)
  <2>1. x \in list[target[x]] /\ target[x] \in Servers
    BY <1>2, <1>4 DEF Listed, Send
  <2>2. \A s \in Servers : wire'[s] \subseteq wire[s] \cup (IF s = target[x] THEN {x} ELSE {})
    BY <1>1, <1>4 DEF Send, PutOnWire, TypeOK
  <2>3. UNCHANGED <<list, cur>> /\ at' = [at EXCEPT ![t] = "unlock"]
    BY <1>4 DEF Send
  <2>4. \A u \in Threads : at'[u] = "send" => at[u] = "send"
    BY <1>1, <2>3 DEF TypeOK
  <2> QED BY <1>1, <2>1, <2>2, <2>3, <2>4 DEF Listed
<1>5. CASE SendFails(t)
  <2>1. at[t] = "send" /\ ~OnWire(x)
    BY <1>5, BeingSent DEF SendFails
  <2>2. /\ list' = [list EXCEPT ![target[x]] = @ \ {x}] /\ at' = [at EXCEPT ![t] = "drop"]
        /\ UNCHANGED <<cur, wire>>
    BY <1>5, NothingCut DEF SendFails
  <2>3. \A s \in Servers : \A i \in list[s] \ list'[s] : i = x
    BY <1>1, <2>2 DEF TypeOK
  <2>4. \A u \in Threads : at'[u] = "send" => at[u] = "send" /\ u # t
    BY <1>1, <2>2 DEF TypeOK
  <2>5. \A u \in Threads : at'[u] = "send" => cur[u] # x
    BY <2>1, <2>4 DEF WayInv, Alone, HandledOnce, Sending
  <2>6. \A s \in Servers : x \notin wire'[s]
    BY <2>1, <2>2 DEF OnWire
  <2> QED BY <1>1, <1>2, <2>2, <2>3, <2>4, <2>5, <2>6, ListedStays
<1>6. CASE TakeToken(t) \/ Drop(t) \/ Unlock(t)
  <2>1. UNCHANGED <<list, cur>> /\ \A u \in Threads : at'[u] = "send" => at[u] = "send"
    BY <1>1, <1>6 DEF TakeToken, Drop, Unlock, TypeOK, conns
  <2>2. \A s \in Servers : wire'[s] \subseteq wire[s]
    BY <1>1, <1>6 DEF TakeToken, Drop, Unlock, TypeOK, conns
  <2> QED BY <1>1, <1>2, <2>1, <2>2, ListedStays
<1>7. CASE Take(t) \/ PostToken(t)
  <2>1. UNCHANGED <<list, wire>>
        /\ \A u \in Threads : at'[u] = "send" => at[u] = "send" /\ cur'[u] = cur[u]
    BY <1>1, <1>7 DEF Take, PostToken, TypeOK, conns
  <2> QED BY <1>1, <2>1 DEF Listed
<1> QED BY <1>3, <1>4, <1>5, <1>6, <1>7 DEF Outbound

\* hfsHoldClient has all the tokens: no thread is inside.
LEMMA NobodyInside ==
    ASSUME CInv, Swap
    PROVE  \A t \in Threads : at[t] \notin Critical
<1>1. Cardinality(Inside) = 0
  BY Count, InsideFinite, ClientAssumption DEF CInv, Holding, Swap, TypeOK
<1>2. Inside = {}
  BY <1>1, InsideFinite, FS_EmptySet
<1> QED BY <1>2 DEF Inside

LEMMA ListedElse ==
    ASSUME CInv, WayInv, Listed,
           \/ \E s \in Servers : Inbound(s) \/ ServerDies(s)
           \/ InboundGoesOn \/ ConfigChanged \/ ConfigGoesOn \/ UNCHANGED vars
    PROVE  Listed'
<1>1. TypeOK
  BY DEF CInv
<1>2. UNCHANGED <<at, cur, target>>
  BY DEF Inbound, InboundGoesOn, Receive, Lose, ServerDies, Unlink, Signal, ConfigChanged,
         ConfigGoesOn, ConnectServers, Hold, Swap, GiveUp, ReleaseClient, vars, callers, sending
<1>3. \A u \in Threads : at[u] = "send" => target[cur[u]] \in Servers
  BY BeingSent
<1>4. \A s \in Servers : wire'[s] \subseteq wire[s]
  <2>1. ASSUME NEW s \in Servers, Inbound(s) \/ ServerDies(s)
        PROVE  \A u \in Servers : wire'[u] \subseteq wire[u]
    <3>1. PICK kept \in SUBSET wire[s] : wire' = [wire EXCEPT ![s] = kept]
      BY <2>1 DEF Inbound, Receive, Lose, ServerDies
    <3> QED BY <1>1, <3>1 DEF TypeOK
  <2>2. CASE InboundGoesOn \/ ConfigChanged \/ ConfigGoesOn \/ UNCHANGED vars
    BY <1>1, <2>2 DEF InboundGoesOn, Unlink, Signal, ConfigChanged, ConfigGoesOn, ConnectServers,
                      Hold, Swap, GiveUp, ReleaseClient, vars, conns
  <2> QED BY <2>1, <2>2
<1>5. CASE UNCHANGED list
  BY <1>2, <1>3, <1>4, <1>5, ListedStays
<1>6. CASE Unlink
  <2>1. in.item \in Items /\ Returned(in.item)
    BY <1>1, <1>6 DEF Unlink, TypeOK, InStates, Returned, Polling
  <2>2. ~OnWire(in.item) /\ ~Handled(in.item)
    BY <2>1, Apart
  <2>3. \A s \in Servers : \A i \in list[s] \ list'[s] : i = in.item
    BY <1>1, <1>6 DEF Unlink, TypeOK
  <2>4. \A s \in Servers : in.item \notin wire'[s]
    BY <1>4, <2>2 DEF OnWire
  <2>5. \A t \in Threads : at'[t] = "send" => cur[t] # in.item
    BY <1>2, <2>2 DEF Handled, Sending
  <2> QED BY <1>2, <1>3, <1>4, <2>3, <2>4, <2>5, ListedStays
<1>7. CASE Swap
  <2>1. \A t \in Threads : at[t] # "send"
    BY <1>7, NobodyInside DEF Critical
  <2>2. \A s \in Servers : wire'[s] = {}
    BY <1>7 DEF Swap
  <2> QED BY <1>2, <2>1, <2>2 DEF Listed
<1>8. UNCHANGED list \/ Unlink \/ Swap
  BY DEF Inbound, InboundGoesOn, Receive, Lose, ServerDies, Signal, ConfigChanged, ConfigGoesOn,
         ConnectServers, Hold, GiveUp, ReleaseClient, vars, conns
<1> QED BY <1>5, <1>6, <1>7, <1>8

ListedUncut == ~stream.cut => Listed

\* Until a request is cut off lists have what is on the wires.
THEOREM ListedInvariant == Spec => [](CInv /\ WayUncut /\ ListedUncut)
<1>1. Init => CInv /\ WayUncut /\ ListedUncut
  BY InitClient, WayInit DEF Init, Listed, ListedUncut, WayUncut, CutIsFull
<1>2. CInv /\ WayUncut /\ ListedUncut /\ [Next]_vars => (CInv /\ WayUncut /\ ListedUncut)'
  <2> SUFFICES ASSUME CInv, WayUncut, ListedUncut, [Next]_vars
               PROVE  (CInv /\ WayUncut /\ ListedUncut)'
    OBVIOUS
  <2>1. CInv' /\ WayUncut'
    BY ClientInductive, WayInductive, HistoryStays DEF WayUncut
  <2>2. ASSUME ~stream'.cut PROVE Listed'
    <3>1. WayInv /\ Listed
      BY <2>2, HistoryStays DEF WayUncut, ListedUncut
    <3> QED BY <2>2, <3>1, ListedCaller, ListedOutbound, ListedElse DEF Next
  <2> QED BY <2>1, <2>2 DEF ListedUncut
<1> QED BY <1>1, <1>2, PTL DEF Spec

\* SwapOnlyWhenQuiet: hfsWaitForInFlight looks at the lists only; that is
\* enough, whatever fails, until a request is cut off, for what is on a wire is
\* on a list.
THEOREM SwapsAreQuiet == Spec => SwapOnlyWhenQuiet
<1>1. ASSUME CInv, WayInv, Listed, [Next]_vars, swaps' # swaps
      PROVE  /\ \A s \in Servers : list[s] = {} /\ wire[s] = {}
             /\ \A t \in Threads : at[t] \notin Critical
  <2>1. Swap
    BY <1>1 DEF Next, Call, GoOn, Retry, Return, Outbound, Take, TakeToken, Lock, Send,
       SendFails, Drop, Unlock, PostToken, Inbound, Receive, Lose, InboundGoesOn, Unlink, Signal,
       ServerDies, ConfigChanged, ConfigGoesOn, ConnectServers, Hold, GiveUp, ReleaseClient,
       vars, config
  <2>2. \A s \in Servers : list[s] = {}
    BY <2>1 DEF Swap
  <2> QED BY <1>1, <2>1, <2>2, NobodyInside DEF Listed
<1>2. CInv /\ WayUncut /\ ListedUncut /\ [Next]_vars
        => [swaps' # swaps /\ ~stream.cut
              => /\ \A s \in Servers : list[s] = {} /\ wire[s] = {}
                 /\ \A t \in Threads : at[t] \notin Critical]_vars
  BY <1>1 DEF WayUncut, ListedUncut
<1> QED BY <1>2, ListedInvariant, PTL DEF Spec, SwapOnlyWhenQuiet
-----------------------------------------------------------------------------
(* Servers that live *)

Unlinking(i) == in.at = "unlink" /\ in.item = i
Pending(i) == OnWire(i) \/ Unlinking(i) \/ \E t \in Threads : at[t] = "send" /\ cur[t] = i

AllUp == /\ dead = {}
         /\ \A s \in Servers : fd[s] = "up"
         /\ \A t \in Threads : at[t] # "drop"

\* The mutex a thread has is that of the connection it sends on.
Locked == \A t \in Threads : at[t] \in {"send", "unlock"} => mutex[target[cur[t]]] = t

\* The caller of a buffer that was sent is not signalled before the unlock.
Unsigned == \A t \in Threads : at[t] = "unlock" => OnWire(cur[t]) \/ Unlinking(cur[t])

\* A connection's list has what is in flight on it.
Linked == \A s \in Servers : \A i \in Items : i \in list[s] <=> s = target[i] /\ Pending(i)
Unlinked == in.at = "unlink" => in.server = target[in.item]

\* A completion comes with a server's answer.
Answered == \A i \in Items : signal[i] > 0 \/ Returned(i) => status[i] \in {"ok", "refused"}

Steady == AllUp /\ Locked /\ Unsigned /\ Linked /\ Unlinked /\ Answered

\* A buffer that is in flight has its caller waiting, and what a thread sends
\* or has sent is in flight.
LEMMA InFlight ==
    ASSUME CInv, WayInv, Unsigned
    PROVE  /\ \A i \in Items : Pending(i) => Live(i) /\ signal[i] = 0
           /\ \A t \in Threads : at[t] \in {"send", "unlock"} => cur[t] \in Items /\ Pending(cur[t])
<1>1. ASSUME NEW i \in Items, Pending(i) PROVE Live(i) /\ signal[i] = 0
  <2>1. OnWire(i) \/ Returned(i) \/ Handled(i)
    BY <1>1 DEF Pending, Unlinking, Returned, Polling, Handled, Sending
  <2> QED BY <2>1, Apart
<1>2. ASSUME NEW t \in Threads, at[t] \in {"send", "unlock"} PROVE cur[t] \in Items /\ Pending(cur[t])
  BY <1>2 DEF CInv, AtWork, Unsigned, Pending
<1> QED BY <1>1, <1>2

\* A step that leaves what is in flight, and the locks, as they are.
LEMMA FlightStays ==
    ASSUME CInv, WayInv, Steady,
           UNCHANGED <<dead, fd, wire, in, mutex, list>>,
           \A t \in Threads : /\ at'[t] # "drop"
                              /\ at'[t] \in {"send", "unlock"} <=> at[t] \in {"send", "unlock"}
                              /\ at[t] \in {"send", "unlock"} => at'[t] = at[t] /\ cur'[t] = cur[t],
           \A i \in Items : Pending(i) => target'[i] = target[i]
    PROVE  AllUp' /\ Locked' /\ Unsigned' /\ Linked' /\ Unlinked'
<1>1. AllUp'
  BY DEF Steady, AllUp
<1>2. \A t \in Threads : at[t] \in {"send", "unlock"} => cur[t] \in Items /\ Pending(cur[t])
  BY InFlight DEF Steady
<1>3. Locked'
  BY <1>2 DEF Steady, Locked
<1>4. \A i \in Items : (OnWire(i)' <=> OnWire(i)) /\ (Unlinking(i)' <=> Unlinking(i))
  BY DEF OnWire, Unlinking
<1>5. Unsigned'
  <2> SUFFICES ASSUME NEW t \in Threads, at'[t] = "unlock"
               PROVE  (OnWire(cur[t]) \/ Unlinking(cur[t]))'
    BY DEF Unsigned
  <2>1. at[t] = "unlock" /\ cur'[t] = cur[t]
    OBVIOUS
  <2>2. OnWire(cur[t]) \/ Unlinking(cur[t])
    BY <2>1 DEF Steady, Unsigned
  <2> QED BY <2>1, <2>2 DEF OnWire, Unlinking
<1>6. \A i \in Items : Pending(i)' <=> Pending(i)
  BY <1>4 DEF Pending
<1>7. Linked'
  <2> SUFFICES ASSUME NEW s \in Servers, NEW i \in Items
               PROVE  i \in list[s] <=> s = target'[i] /\ Pending(i)
    BY <1>6 DEF Linked
  <2> QED BY DEF Steady, Linked
<1>8. Unlinked'
  <2>1. in.at = "unlink" => in.item \in Items
    BY DEF CInv, TypeOK, InStates, Polling
  <2>2. in.at = "unlink" => Pending(in.item)
    BY DEF Pending, Unlinking
  <2> QED BY <2>1, <2>2 DEF Steady, Unlinked
<1> QED BY <1>1, <1>3, <1>5, <1>7, <1>8

LEMMA SteadyInit == Init => Steady
<1> SUFFICES ASSUME Init PROVE Steady
  OBVIOUS
<1>1. \A i \in Items : ~Pending(i) /\ ~Returned(i)
  BY DEF Init, Pending, OnWire, Unlinking, Polling, Returned
<1> QED BY <1>1 DEF Init, Steady, AllUp, Locked, Unsigned, Linked, Unlinked, Answered, Polling

\* The callers.
LEMMA SteadyCaller ==
    ASSUME CInv, WayInv, Steady, NEW c \in Callers, (\E s \in Servers : Call(c, s)) \/ GoOn(c)
    PROVE  Steady'
<1>1. TypeOK /\ \A i \in Items : Pending(i) => Live(i) /\ signal[i] = 0
  BY InFlight DEF CInv, Steady
<1>2. UNCHANGED <<status, at, cur, mutex, list, fd, wire, dead, in>>
  BY DEF Call, GoOn, Retry, Return, conns, sending
<1>3. \A i \in Items : Pending(i) => target'[i] = target[i]
  <2>1. ASSUME NEW s \in Servers, Call(c, s), NEW i \in Items, Pending(i)
        PROVE  target'[i] = target[i]
    <3>1. i # <<c, calls[c] + 1>>
      BY <1>1, <2>1, ClientAssumption DEF Live, TypeOK
    <3> QED BY <1>1, <2>1, <3>1 DEF Call, TypeOK
  <2>2. ASSUME Retry(c), NEW i \in Items, Pending(i)
        PROVE  target'[i] = target[i]
    <3>1. i # Current(c)
      BY <1>1, <2>2 DEF Retry
    <3> QED BY <1>1, <2>2, <3>1 DEF Retry, TypeOK
  <2> QED BY <2>1, <2>2 DEF GoOn, Return
<1>4. \A i \in Items : signal'[i] > 0 => signal[i] > 0
  BY <1>1 DEF Call, GoOn, Retry, Return, TypeOK
<1>5. Answered'
  BY <1>2, <1>4 DEF Steady, Answered, Returned
<1>6. AllUp' /\ Locked' /\ Unsigned' /\ Linked' /\ Unlinked'
  BY <1>2, <1>3, FlightStays DEF Steady, AllUp
<1> QED BY <1>5, <1>6 DEF Steady

\* The outbound threads, away from the mutex.
LEMMA SteadyAway ==
    ASSUME CInv, WayInv, Steady, NEW t \in Threads, Take(t) \/ TakeToken(t) \/ PostToken(t)
    PROVE  Steady'
<1>1. TypeOK
  BY DEF CInv
<1>2. UNCHANGED <<target, signal, mutex, list, fd, wire, dead, in>>
  BY DEF Take, TakeToken, PostToken, conns, callers
<1>3. /\ at[t] \notin {"send", "unlock"} /\ at'[t] \notin {"send", "unlock", "drop"}
      /\ \A u \in Threads \ {t} : at'[u] = at[u] /\ cur'[u] = cur[u]
  BY <1>1 DEF Take, TakeToken, PostToken, TypeOK
<1>4. AllUp' /\ Locked' /\ Unsigned' /\ Linked' /\ Unlinked'
  BY <1>2, <1>3, FlightStays DEF Steady, AllUp
<1>5. Answered'
  <2>1. CASE UNCHANGED status
    BY <1>2, <2>1 DEF Steady, Answered, Returned
  <2>2. CASE Take(t)
    <3>1. outq \in Seq(Items) /\ outq # <<>> /\ status' = [status EXCEPT ![Head(outq)] = "failed"]
      BY <1>1, <2>2 DEF Take, TypeOK
    <3>2. Head(outq) \in Items /\ Queued(Head(outq))
      <4>1. Head(outq) = outq[1] /\ 1 \in DOMAIN outq /\ outq[1] \in Items
        BY <3>1
      <4> QED BY <4>1 DEF Queued
    <3>3. ~Returned(Head(outq)) /\ signal[Head(outq)] = 0
      BY <3>2, Apart
    <3>4. \A i \in Items \ {Head(outq)} : status'[i] = status[i]
      BY <1>1, <3>1 DEF TypeOK
    <3>5. \A i \in Items : Returned(i)' <=> Returned(i)
      BY <1>2 DEF Returned
    <3> QED BY <1>2, <3>3, <3>4, <3>5 DEF Steady, Answered
  <2> QED BY <2>1, <2>2 DEF TakeToken, PostToken, callers
<1> QED BY <1>4, <1>5 DEF Steady

\* Lock: the mutex was free, so it is no other sender's.
LEMMA SteadyLock ==
    ASSUME CInv, WayInv, Steady, NEW t \in Threads, Lock(t)
    PROVE  Steady'
<1> DEFINE x == cur[t]
<1>1. /\ TypeOK /\ x \in Items /\ target[x] \in Servers
      /\ at[t] = "lock" /\ at' = [at EXCEPT ![t] = "send"]
      /\ mutex[target[x]] = Nobody /\ mutex' = [mutex EXCEPT ![target[x]] = t]
      /\ list' = [list EXCEPT ![target[x]] = @ \cup {x}]
      /\ UNCHANGED <<target, status, signal, cur, fd, wire, dead, in>>
  BY DEF CInv, AtWork, TypeOK, Lock, callers
<1>2. at'[t] = "send" /\ \A u \in Threads \ {t} : at'[u] = at[u]
  BY <1>1 DEF TypeOK
<1>3. AllUp' /\ Answered' /\ Unlinked'
  BY <1>1, <1>2 DEF Steady, AllUp, Answered, Unlinked, Returned
<1>4. Locked'
  <2> SUFFICES ASSUME NEW u \in Threads, at'[u] \in {"send", "unlock"}
               PROVE  mutex'[target[cur[u]]] = u
    BY <1>1 DEF Locked
  <2>1. CASE u = t
    BY <1>1, <2>1 DEF TypeOK
  <2>2. CASE u # t
    <3>1. mutex[target[cur[u]]] = u /\ target[cur[u]] \in Servers
      BY <1>1, <1>2, <2>2 DEF Steady, Locked, CInv, AtWork, TypeOK
    <3>2. target[cur[u]] # target[x]
      BY <1>1, <3>1, ClientAssumption
    <3> QED BY <1>1, <3>1, <3>2 DEF TypeOK
  <2> QED BY <2>1, <2>2
<1>5. \A i : (OnWire(i)' <=> OnWire(i)) /\ (Unlinking(i)' <=> Unlinking(i))
  BY <1>1 DEF OnWire, Unlinking
<1>6. Unsigned'
  <2> SUFFICES ASSUME NEW u \in Threads, at'[u] = "unlock"
               PROVE  (OnWire(cur[u]) \/ Unlinking(cur[u]))'
    BY DEF Unsigned
  <2>1. OnWire(cur[u]) \/ Unlinking(cur[u])
    BY <1>2 DEF Steady, Unsigned
  <2> QED BY <1>1, <2>1 DEF OnWire, Unlinking
<1>7. \A i \in Items : Pending(i)' <=> Pending(i) \/ i = x
  <2> HIDE DEF x
  <2>1. \A i \in Items : (\E u \in Threads : at'[u] = "send" /\ cur'[u] = i)
                          <=> i = x \/ \E u \in Threads : at[u] = "send" /\ cur[u] = i
    BY <1>1, <1>2 DEF x
  <2> QED BY <1>5, <2>1 DEF Pending
<1>8. Linked'
  <2> HIDE DEF x
  <2>1. \A s \in Servers : \A i \in Items :
           i \in list'[s] <=> i \in list[s] \/ (s = target[x] /\ i = x)
    BY <1>1 DEF TypeOK
  <2>2. UNCHANGED target
    BY <1>1
  <2>3. Linked
    BY DEF Steady
  <2>4. ASSUME NEW s \in Servers, NEW i \in Items
        PROVE  i \in list'[s] <=> s = target'[i] /\ Pending(i)'
    BY <1>7, <2>1, <2>2, <2>3 DEF Linked
  <2> QED BY <2>4 DEF Linked
<1> QED BY <1>3, <1>4, <1>6, <1>8 DEF Steady

\* Send: the request is on the wire of a server that lives.
LEMMA SteadySend ==
    ASSUME CInv, WayInv, Steady, NEW t \in Threads, Send(t), ~stream.cut
    PROVE  Steady'
<1> DEFINE x == cur[t]
<1>1. /\ TypeOK /\ x \in Items /\ target[x] \in Servers
      /\ at[t] = "send" /\ at' = [at EXCEPT ![t] = "unlock"]
      /\ wire' = [wire EXCEPT ![target[x]] = @ \cup {x}]
      /\ UNCHANGED <<target, status, signal, cur, mutex, list, fd, dead, in>>
  BY DEF CInv, AtWork, TypeOK, Send, PutOnWire, callers, Steady, AllUp
<1>2. at'[t] = "unlock" /\ \A u \in Threads \ {t} : at'[u] = at[u]
  BY <1>1 DEF TypeOK
<1>3. AllUp' /\ Answered' /\ Unlinked'
  BY <1>1, <1>2 DEF Steady, AllUp, Answered, Unlinked, Returned
<1>4. Locked'
  BY <1>1, <1>2 DEF Steady, Locked
<1>5. \A s \in Servers : wire'[s] = IF s = target[x] THEN wire[s] \cup {x} ELSE wire[s]
  BY <1>1 DEF TypeOK
<1>6. UNCHANGED <<target, list, in, cur>>
  BY <1>1
<1> HIDE DEF x
<1>7. \A i \in Items : (OnWire(i)' <=> OnWire(i) \/ i = x) /\ (Unlinking(i)' <=> Unlinking(i))
  BY <1>1, <1>5, <1>6 DEF OnWire, Unlinking
<1>8. \A i \in Items : Pending(i)' <=> Pending(i)
  <2>1. \A i \in Items : i = x \/ ((\E u \in Threads : at'[u] = "send" /\ cur'[u] = i)
                          <=> \E u \in Threads : at[u] = "send" /\ cur[u] = i)
    BY <1>1, <1>2 DEF x
  <2>2. Pending(x)
    BY <1>1 DEF Pending, x
  <2>3. \A i \in Items : (\E u \in Threads : at'[u] = "send" /\ cur'[u] = i)
                          => \E u \in Threads : at[u] = "send" /\ cur[u] = i
    BY <1>1, <1>2
  <2> QED BY <1>7, <2>1, <2>2, <2>3 DEF Pending
<1>9. Linked'
  BY <1>6, <1>8 DEF Steady, Linked
<1>10. Unsigned'
  <2> SUFFICES ASSUME NEW u \in Threads, at'[u] = "unlock"
               PROVE  OnWire(cur[u])' \/ Unlinking(cur[u])'
    BY DEF Unsigned
  <2>1. cur[u] = x \/ OnWire(cur[u]) \/ Unlinking(cur[u])
    BY <1>2 DEF Steady, Unsigned, x
  <2>2. (\E s \in Servers : cur[u] \in wire'[s]) \/ Unlinking(cur[u])
    BY <1>1, <1>5, <2>1 DEF OnWire
  <2> QED BY <1>6, <2>2 DEF OnWire, Unlinking
<1> QED BY <1>3, <1>4, <1>9, <1>10 DEF Steady

\* Unlock: of the connection that was locked, since the caller still waits.
LEMMA SteadyUnlock ==
    ASSUME CInv, WayInv, Steady, NEW t \in Threads, Unlock(t)
    PROVE  Steady'
<1> DEFINE x == cur[t]
<1>1. /\ TypeOK /\ x \in Items /\ target[x] \in Servers
      /\ at[t] = "unlock" /\ at' = [at EXCEPT ![t] = "post"]
      /\ UNCHANGED <<target, status, signal, cur, list, fd, wire, dead, in>>
  BY DEF CInv, AtWork, TypeOK, Unlock, callers
<1>2. at'[t] = "post" /\ \A u \in Threads \ {t} : at'[u] = at[u]
  BY <1>1 DEF TypeOK
<1>3. Live(x)
  BY <1>1, InFlight DEF Steady
<1>4. mutex' = [mutex EXCEPT ![target[x]] = Nobody]
  BY <1>3 DEF Unlock, ClientIdx
<1>5. AllUp' /\ Answered' /\ Unlinked'
  BY <1>1, <1>2 DEF Steady, AllUp, Answered, Unlinked, Returned
<1>6. Locked'
  <2> SUFFICES ASSUME NEW u \in Threads, at'[u] \in {"send", "unlock"}
               PROVE  mutex'[target[cur[u]]] = u
    BY <1>1 DEF Locked
  <2>1. u # t /\ at[u] \in {"send", "unlock"}
    BY <1>2
  <2>2. mutex[target[cur[u]]] = u /\ target[cur[u]] \in Servers
    BY <1>1, <2>1 DEF Steady, Locked, CInv, AtWork, TypeOK
  <2>3. mutex[target[x]] = t
    BY <1>1 DEF Steady, Locked
  <2> QED BY <1>1, <1>4, <2>1, <2>2, <2>3 DEF TypeOK
<1>7. Unsigned'
  <2> SUFFICES ASSUME NEW u \in Threads, at'[u] = "unlock"
               PROVE  (OnWire(cur[u]) \/ Unlinking(cur[u]))'
    BY DEF Unsigned
  <2>1. OnWire(cur[u]) \/ Unlinking(cur[u])
    BY <1>2 DEF Steady, Unsigned
  <2> QED BY <1>1, <2>1 DEF OnWire, Unlinking
<1>8. \A i \in Items : Pending(i)' <=> Pending(i)
  <2>1. \A i \in Items : (OnWire(i)' <=> OnWire(i)) /\ (Unlinking(i)' <=> Unlinking(i))
    BY <1>1 DEF OnWire, Unlinking
  <2>2. \A i \in Items : (\E u \in Threads : at'[u] = "send" /\ cur'[u] = i)
                          <=> \E u \in Threads : at[u] = "send" /\ cur[u] = i
    BY <1>1, <1>2
  <2> QED BY <2>1, <2>2 DEF Pending
<1>9. Linked'
  BY <1>1, <1>8 DEF Steady, Linked
<1> QED BY <1>5, <1>6, <1>7, <1>9 DEF Steady

\* Receive: from the wire to the inbound thread.
LEMMA SteadyReceive ==
    ASSUME CInv, WayInv, Steady, NEW s \in Servers, Receive(s)
    PROVE  Steady'
<1>1. PICK x \in wire[s] :
         /\ wire' = [wire EXCEPT ![s] = @ \ {x}]
         /\ \E answer \in {"ok", "refused"} : status' = [status EXCEPT ![x] = answer]
         /\ in' = [at |-> "unlink", server |-> s, item |-> x]
  BY DEF Receive
<1>2. /\ TypeOK /\ x \in Items /\ in = Polling
      /\ UNCHANGED <<target, signal, at, cur, mutex, list, fd, dead>>
  BY DEF CInv, TypeOK, Receive, sending
<1>3. target[x] = s
  BY <1>1 DEF WayInv, Alone, OnItsWire
<1>4. AllUp' /\ Locked'
  BY <1>2 DEF Steady, AllUp, Locked
<1>5. Unlinked'
  BY <1>1, <1>2, <1>3 DEF Unlinked
<1>6. Answered'
  <2>1. status'[x] \in {"ok", "refused"} /\ \A i \in Items \ {x} : status'[i] = status[i]
    BY <1>1, <1>2 DEF TypeOK
  <2>2. \A i \in Items \ {x} : ~Returned(i)'
    BY <1>1 DEF Returned
  <2> QED BY <1>2, <2>1, <2>2 DEF Steady, Answered
<1>7. \A i : Unlinking(i)' <=> i = x
  BY <1>1 DEF Unlinking
<1>8. \A i : ~Unlinking(i)
  BY <1>2 DEF Unlinking, Polling
<1>9. \A i : i = x \/ (OnWire(i)' <=> OnWire(i))
  BY <1>1, <1>2 DEF OnWire, TypeOK
<1>10. Unsigned'
  <2> SUFFICES ASSUME NEW t \in Threads, at[t] = "unlock"
               PROVE  (OnWire(cur[t]) \/ Unlinking(cur[t]))'
    BY <1>2 DEF Unsigned
  <2>1. cur'[t] = cur[t]
    BY <1>2
  <2>2. OnWire(cur[t])
    BY <1>8 DEF Steady, Unsigned
  <2>3. cur[t] = x \/ \E u \in Servers : cur[t] \in wire'[u]
    BY <1>1, <1>2, <2>2 DEF OnWire, TypeOK
  <2> QED BY <1>1, <2>1, <2>3 DEF OnWire, Unlinking
<1>11. OnWire(x)
  BY <1>1 DEF OnWire
<1>12. \A i \in Items : Pending(i)' <=> Pending(i)
  <2>1. \A i \in Items : (\E u \in Threads : at'[u] = "send" /\ cur'[u] = i)
                          <=> \E u \in Threads : at[u] = "send" /\ cur[u] = i
    BY <1>2
  <2> QED BY <1>7, <1>8, <1>9, <1>11, <2>1 DEF Pending
<1>13. Linked'
  BY <1>2, <1>12 DEF Steady, Linked
<1> QED BY <1>4, <1>5, <1>6, <1>10, <1>13 DEF Steady

\* Unlink: with the mutex, so that the sender is past its unlock.
LEMMA SteadyUnlink ==
    ASSUME CInv, WayInv, Steady, Unlink
    PROVE  Steady'
<1> DEFINE x == in.item
<1>1. /\ TypeOK /\ in.at = "unlink" /\ x \in Items /\ in.server = target[x]
      /\ target[x] \in Servers /\ mutex[target[x]] = Nobody
      /\ list' = [list EXCEPT ![target[x]] = @ \ {x}]
      /\ in' = [in EXCEPT !.at = "signal"]
      /\ UNCHANGED <<target, status, signal, at, cur, mutex, fd, wire, dead>>
  <2>1. TypeOK /\ in.at = "unlink"
    BY DEF CInv, Unlink
  <2>2. x \in Items
    BY <2>1 DEF TypeOK, InStates, Polling
  <2>3. in.server = target[x] /\ target[x] \in Servers
    BY <2>1, <2>2 DEF Steady, Unlinked, TypeOK
  <2> QED BY <2>1, <2>2, <2>3 DEF Unlink, callers, sending
<1>2. in'.at = "signal" /\ in'.item = x
  BY <1>1 DEF TypeOK, InStates, Polling
<1>3. AllUp' /\ Locked' /\ Unlinked'
  BY <1>1, <1>2 DEF Steady, AllUp, Locked, Unlinked
<1>4. \A i \in Items : Returned(i)' <=> Returned(i)
  BY <1>1, <1>2 DEF Returned, Polling
<1>5. Answered'
  BY <1>1, <1>4 DEF Steady, Answered
<1>6. \A t \in Threads : at[t] \in {"send", "unlock"} => cur[t] # x
  BY <1>1, ClientAssumption DEF Steady, Locked
<1>7. Unsigned'
  <2> SUFFICES ASSUME NEW t \in Threads, at[t] = "unlock"
               PROVE  OnWire(cur[t])'
    BY <1>1 DEF Unsigned
  <2>1. OnWire(cur[t])
    BY <1>6 DEF Steady, Unsigned, Unlinking
  <2> QED BY <1>1, <2>1 DEF OnWire
<1>8. Returned(x)
  BY <1>1 DEF Returned, Polling
<1>9. ~OnWire(x)
  BY <1>1, <1>8, Apart
<1>10. \A i \in Items : Pending(i)' <=> Pending(i) /\ i # x
  <2>1. \A i \in Items : (OnWire(i)' <=> OnWire(i)) /\ ~Unlinking(i)'
    BY <1>1, <1>2 DEF OnWire, Unlinking
  <2>2. \A i \in Items : (\E u \in Threads : at'[u] = "send" /\ cur'[u] = i)
                          <=> \E u \in Threads : at[u] = "send" /\ cur[u] = i
    BY <1>1
  <2>3. \A i \in Items : Unlinking(i) => i = x
    BY DEF Unlinking
  <2> QED BY <1>6, <1>9, <2>1, <2>2, <2>3 DEF Pending
<1>11. Linked'
  <2> HIDE DEF x
  <2>1. \A s \in Servers : \A i \in Items :
           i \in list'[s] <=> i \in list[s] /\ ~(s = target[x] /\ i = x)
    BY <1>1 DEF TypeOK
  <2>2. UNCHANGED target
    BY <1>1
  <2>3. Linked
    BY DEF Steady
  <2>4. ASSUME NEW s \in Servers, NEW i \in Items
        PROVE  i \in list'[s] <=> s = target'[i] /\ Pending(i)'
    BY <1>10, <2>1, <2>2, <2>3 DEF Linked
  <2> QED BY <2>4 DEF Linked
<1> QED BY <1>3, <1>5, <1>7, <1>11 DEF Steady

\* Signal: the response is unlinked.
LEMMA SteadySignal ==
    ASSUME CInv, WayInv, Steady, Signal
    PROVE  Steady'
<1>1. /\ TypeOK /\ in.at = "signal" /\ in' = Polling
      /\ signal' = [signal EXCEPT ![in.item] = @ + 1]
      /\ UNCHANGED <<target, status, at, cur, mutex, list, fd, wire, dead>>
  BY DEF CInv, Signal, conns, sending
<1>2. in.item \in Items /\ Returned(in.item)
  BY <1>1 DEF TypeOK, InStates, Polling, Returned
<1>3. \A i : (OnWire(i)' <=> OnWire(i)) /\ ~Unlinking(i) /\ ~Unlinking(i)'
  BY <1>1 DEF OnWire, Unlinking, Polling
<1>4. AllUp' /\ Locked' /\ Unlinked'
  BY <1>1 DEF Steady, AllUp, Locked, Unlinked, Polling
<1>5. Unsigned'
  <2> SUFFICES ASSUME NEW t \in Threads, at[t] = "unlock"
               PROVE  OnWire(cur[t])'
    BY <1>1 DEF Unsigned
  <2>1. OnWire(cur[t])
    BY <1>3 DEF Steady, Unsigned
  <2> QED BY <1>1, <2>1 DEF OnWire
<1>6. Linked'
  <2>1. \A i \in Items : Pending(i)' <=> Pending(i)
    BY <1>1, <1>3 DEF Pending
  <2> QED BY <1>1, <2>1 DEF Steady, Linked
<1>7. Answered'
  <2>1. \A i \in Items : ~Returned(i)'
    BY <1>1 DEF Returned
  <2>2. \A i \in Items \ {in.item} : signal'[i] = signal[i]
    BY <1>1 DEF TypeOK
  <2> QED BY <1>1, <1>2, <2>1, <2>2 DEF Steady, Answered
<1> QED BY <1>4, <1>5, <1>6, <1>7 DEF Steady

\* A swap: every list is empty, so nothing is in flight.
LEMMA NothingPending ==
    ASSUME CInv, WayInv, Steady, Swap
    PROVE  (\A s \in Servers : wire[s] = {}) /\ (\A i \in Items : ~Pending(i))
<1>1. TypeOK /\ \A s \in Servers : list[s] = {}
  BY DEF CInv, Swap
<1>2. \A i \in Items : ~Pending(i)
  BY <1>1 DEF TypeOK, Steady, Linked
<1>3. \A s \in Servers : wire[s] = {}
  BY <1>1, <1>2 DEF Pending, OnWire, TypeOK
<1> QED BY <1>2, <1>3

LEMMA SteadyConfig ==
    ASSUME CInv, WayInv, Steady, ConfigChanged \/ ConfigGoesOn \/ UNCHANGED vars
    PROVE  Steady'
<1>1. UNCHANGED <<target, status, signal, at, cur, dead, in>>
  BY DEF ConfigChanged, ConfigGoesOn, ConnectServers, Hold, Swap, GiveUp, ReleaseClient, vars,
         callers, sending
<1>2. Answered'
  BY <1>1 DEF Steady, Answered, Returned
<1>3. CASE UNCHANGED <<mutex, list, fd, wire>>
  <2>1. AllUp' /\ Locked' /\ Unsigned' /\ Linked' /\ Unlinked'
    BY <1>1, <1>3, FlightStays DEF Steady, AllUp
  <2> QED BY <1>2, <2>1 DEF Steady
<1>4. CASE Swap
  <2>1. /\ \A s \in Servers : wire[s] = {}
        /\ \A t \in Threads : at[t] \notin Critical
        /\ \A i \in Items : ~Pending(i)
    BY <1>4, NothingPending, NobodyInside
  <2>2. /\ fd' = [s \in Servers |-> "up"] /\ list' = [s \in Servers |-> {}]
        /\ wire' = [s \in Servers |-> {}]
    BY <1>4 DEF Swap
  <2>3. AllUp' /\ Unlinked' /\ Locked' /\ Unsigned'
    BY <1>1, <2>1, <2>2 DEF Steady, AllUp, Unlinked, Locked, Unsigned, Critical
  <2>4. Linked'
    BY <1>1, <2>1, <2>2 DEF Linked, Pending, OnWire, Unlinking
  <2> QED BY <1>2, <2>3, <2>4 DEF Steady
<1> QED BY <1>3, <1>4 DEF ConfigChanged, ConfigGoesOn, ConnectServers, Hold, GiveUp,
                          ReleaseClient, vars, conns

LEMMA SteadyInductive ==
    ASSUME CInv, WayInv, Steady, [Next]_vars, ~stream.cut, Untroubled, Untroubled'
    PROVE  Steady'
<1>1. ASSUME NEW t \in Threads, Outbound(t) PROVE Steady'
  <2>1. ~Drop(t)
    BY DEF Drop, Steady, AllUp
  <2>2. ~SendFails(t)
    <3> SUFFICES ASSUME SendFails(t) PROVE FALSE
      OBVIOUS
    <3>1. target[cur[t]] \in Servers
      BY DEF SendFails, CInv, AtWork, TypeOK
    <3>2. stream'.full = stream.full + 1
      BY <3>1 DEF SendFails, SendError, Steady, AllUp
    <3> QED BY <3>2 DEF Untroubled
  <2> QED BY <1>1, <2>1, <2>2, SteadyAway, SteadyLock, SteadySend, SteadyUnlock DEF Outbound
<1>2. ASSUME NEW s \in Servers, Inbound(s) PROVE Steady'
  <2>1. ~Lose(s)
    BY DEF Lose, Steady, AllUp
  <2> QED BY <1>2, <2>1, SteadyReceive DEF Inbound
<1>3. \A s \in Servers : ~ServerDies(s)
  BY DEF ServerDies, Untroubled
<1>4. CASE InboundGoesOn
  BY <1>4, SteadyUnlink, SteadySignal DEF InboundGoesOn
<1> QED BY <1>1, <1>2, <1>3, <1>4, SteadyCaller, SteadyConfig DEF Next

SteadyUntroubled == Untroubled => Steady

\* Until something fails, lists, locks and the wire agree.
THEOREM SteadyInvariant == Spec => [](CInv /\ WayUncut /\ SteadyUntroubled)
<1>1. Init => CInv /\ WayUncut /\ SteadyUntroubled
  BY InitClient, WayInit, SteadyInit DEF Init, WayUncut, CutIsFull, SteadyUntroubled
<1>2. ASSUME CInv, WayUncut, SteadyUntroubled, [Next]_vars
      PROVE  (CInv /\ WayUncut /\ SteadyUntroubled)'
  <2>1. CInv' /\ WayUncut'
    BY <1>2, ClientInductive, WayInductive, HistoryStays DEF WayUncut
  <2>2. ASSUME Untroubled' PROVE Steady'
    <3>1. Untroubled
      BY <1>2, <2>2, HistoryStays
    <3>2. ~stream.cut
      BY <1>2, <3>1 DEF WayUncut, CutIsFull, Untroubled
    <3> QED BY <1>2, <2>2, <3>1, <3>2, SteadyInductive DEF WayUncut, SteadyUntroubled
  <2> QED BY <2>1, <2>2 DEF SteadyUntroubled
<1>3. CInv /\ WayUncut /\ SteadyUntroubled /\ [Next]_vars
        => (CInv /\ WayUncut /\ SteadyUntroubled)'
  BY <1>2
<1> QED BY <1>1, <1>3, PTL DEF Spec

\* Until something fails the invariants have no exceptions.
LEMMA UntroubledIsWhole ==
    ASSUME WayUncut, SteadyUntroubled, Untroubled
    PROVE  WayInv /\ Steady
  BY DEF WayUncut, CutIsFull, SteadyUntroubled, Untroubled

\* ReferencedItemsLive: while servers live and connections have room nobody
\* uses a buffer that was freed; the sender's last use of one, the unlock, comes
\* before the inbound thread can signal, since that needs the same mutex.
THEOREM BuffersLive == Spec => []ReferencedItemsLive
<1>1. CInv /\ WayUncut /\ SteadyUntroubled => ReferencedItemsLive
  <2> SUFFICES ASSUME CInv, WayInv, Steady, Untroubled PROVE ReferencedItemsLive
    BY UntroubledIsWhole DEF ReferencedItemsLive
  <2>1. TypeOK /\ \A i \in Items : Pending(i) => Live(i)
    BY InFlight DEF CInv, Steady
  <2>2. ASSUME NEW k \in DOMAIN outq PROVE Live(outq[k])
    <3>1. outq[k] \in Items
      BY <2>1 DEF TypeOK
    <3>2. Queued(outq[k])
      BY DEF Queued
    <3> QED BY <3>1, <3>2, Apart
  <2>3. ASSUME NEW t \in Threads, at[t] \notin {"idle", "post"} PROVE Live(cur[t])
    <3>1. cur[t] \in Items
      BY <2>3 DEF CInv, AtWork
    <3>2. Handled(cur[t]) \/ at[t] = "unlock"
      BY <2>1, <2>3 DEF Handled, Sending, TypeOK, Critical, Steady, AllUp
    <3>3. Handled(cur[t]) \/ Pending(cur[t])
      BY <3>2, InFlight DEF Steady
    <3> QED BY <2>1, <3>1, <3>3, Apart
  <2>4. ASSUME NEW s \in Servers, NEW i \in list[s] \cup wire[s] PROVE Live(i)
    <3>1. i \in Items
      BY <2>1 DEF TypeOK
    <3>2. Pending(i)
      BY <3>1 DEF Steady, Linked, Pending, OnWire
    <3> QED BY <2>1, <3>1, <3>2
  <2>5. ASSUME in # Polling PROVE Live(in.item)
    <3>1. in.item \in Items /\ Returned(in.item)
      BY <2>1, <2>5 DEF TypeOK, InStates, Returned
    <3> QED BY <3>1, Apart
  <2> QED BY <2>2, <2>3, <2>4, <2>5 DEF ReferencedItemsLive
<1> QED BY <1>1, SteadyInvariant, PTL

\* CallsAnswered: while servers live and connections have room, a configuration
\* change fails no call, whatever it interrupts and whether it succeeds.
THEOREM ChangesFailNoCall == Spec => CallsAnswered
<1>1. ASSUME CInv, WayInv, Steady, [Next]_vars, NEW c \in Callers, call[c] # "idle", call'[c] = "idle"
      PROVE  status[Current(c)] # "failed"
  <2>1. TypeOK
    BY <1>1 DEF CInv
  <2>2. Return(c)
    <3>1. UNCHANGED call => FALSE
      BY <1>1
    <3>2. ASSUME NEW d \in Callers, NEW s \in Servers, Call(d, s) PROVE FALSE
      BY <1>1, <2>1, <3>2 DEF Call, TypeOK
    <3>3. ASSUME NEW d \in Callers, Retry(d) PROVE FALSE
      BY <1>1, <2>1, <3>3 DEF Retry, TypeOK
    <3>4. ASSUME NEW d \in Callers, Return(d) PROVE d = c
      BY <1>1, <2>1, <3>4 DEF Return, TypeOK
    <3>5. \E d \in Callers : (\E s \in Servers : Call(d, s)) \/ GoOn(d)
      BY <1>1, <3>1 DEF Next, Outbound, Take, TakeToken, Lock, Send, callers,
         SendFails, Drop, Unlock, PostToken, Inbound, Receive, Lose, InboundGoesOn, Unlink, Signal,
         ServerDies, ConfigChanged, ConfigGoesOn, ConnectServers, Hold, Swap, GiveUp,
         ReleaseClient, vars
    <3> QED BY <3>2, <3>3, <3>4, <3>5 DEF GoOn
  <2>3. signal[Current(c)] > 0 /\ Current(c) \in Items
    <3>1. calls[c] > 0 /\ calls[c] \in 0..MaxCalls
      BY <1>1, <2>1 DEF CInv, AtWork, TypeOK
    <3> QED BY <2>2, <3>1, ClientAssumption DEF Return, Current, Items
  <2> QED BY <1>1, <2>3 DEF Steady, Answered
<1>2. CInv /\ WayUncut /\ SteadyUntroubled /\ [Next]_vars
        => [\A c \in Callers : Untroubled /\ call[c] # "idle" /\ call'[c] = "idle"
                                => status[Current(c)] # "failed"]_vars
  BY <1>1, UntroubledIsWhole
<1> QED BY <1>2, SteadyInvariant, PTL DEF Spec, CallsAnswered
=============================================================================
