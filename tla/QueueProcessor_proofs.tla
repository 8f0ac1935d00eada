------------------------ MODULE QueueProcessor_proofs ------------------------
(***************************************************************************)
(* Proofs about QueueProcessor, for any number of items, threads and       *)
(* callers and any semaphore limit.  The inductive invariant is IInv: the  *)
(* mutex protects what lies between lock and unlock (LockInv), an item is  *)
(* in one place (OneOwner), and tokens match items (TokensMatchItems).     *)
(***************************************************************************)
EXTENDS QueueProcessor, FiniteSetTheorems,
        SequenceTheorems, TLAPS

IInv == TypeOK /\ LockInv /\ OneOwner /\ TokensMatchItems

-----------------------------------------------------------------------------
\* Types are preserved by every step.
LEMMA TypeInductive == TypeOK /\ LockInv /\ OneOwner /\ [Next]_vars => TypeOK'
<1> SUFFICES ASSUME TypeOK, LockInv, OneOwner, [Next]_vars PROVE TypeOK'
  OBVIOUS
<1> USE QueueAssumption DEF TypeOK, States, Places, CallPlaces
<1>1. ASSUME NEW t \in Threads, TestState(t) PROVE TypeOK'
  BY <1>1 DEF TestState
<1>2. ASSUME NEW t \in Threads, SemWait(t) PROVE TypeOK'
  BY <1>2 DEF SemWait
<1>3. ASSUME NEW t \in Threads, LockQueue(t) PROVE TypeOK'
  BY <1>3 DEF LockQueue
<1>4. ASSUME NEW t \in Threads, Dequeue(t) PROVE TypeOK'
  <2>1. CASE list = <<>>
    BY <1>4, <2>1 DEF Dequeue
  <2>2. CASE list # <<>>
    <3>1. Head(list) \in Items /\ Tail(list) \in Seq(Items)
      BY <2>2
    <3>2. /\ cur' = [cur EXCEPT ![t] = Head(list)]
          /\ pc' = [pc EXCEPT ![t] = "process"]
          /\ list' = Tail(list)
          /\ lock' = NoOne
          /\ UNCHANGED <<state, sem, ppc, offered, draining>>
      BY <1>4, <2>2 DEF Dequeue
    <3>3. cur' \in [Threads -> Items \cup {NoItem}]
      BY <3>1, <3>2
    <3>4. list' \in Seq(Items)
      BY <3>1, <3>2
    <3> QED BY <3>2, <3>3, <3>4
  <2> QED BY <2>1, <2>2
<1>5. ASSUME NEW t \in Threads, Process(t) PROVE TypeOK'
  BY <1>5 DEF Process
<1>6. ASSUME NEW p \in Producers, NEW i \in Items, QueueItem(p, i) PROVE TypeOK'
  BY <1>6 DEF QueueItem
<1>7. ASSUME NEW p \in Producers, CheckStarted(p) PROVE TypeOK'
  BY <1>7 DEF CheckStarted
<1>8. ASSUME NEW p \in Producers, LockForInsert(p) PROVE TypeOK'
  BY <1>8 DEF LockForInsert
<1>9. ASSUME NEW p \in Producers, Insert(p) PROVE TypeOK'
  <2>1. offered[p] \in Items
    BY <1>9 DEF Insert, OneOwner
  <2>2. list' \in Seq(Items)
    BY <1>9, <2>1 DEF Insert
  <2> QED BY <1>9, <2>2 DEF Insert
<1>10. ASSUME NEW p \in Producers, Post(p) PROVE TypeOK'
  <2>1. list' \in Seq(Items)
    <3>1. CASE list' = list
      BY <3>1
    <3>2. CASE list' = SubSeq(list, 1, Len(list) - 1)
      BY <3>2
    <3> QED BY <1>10, <3>1, <3>2 DEF Post
  <2> QED BY <1>10, <2>1 DEF Post
<1>11. ASSUME NEW s \in AdminStates, SetState(s) PROVE TypeOK'
  BY <1>11 DEF SetState
<1>12. CASE DrainBegin
  BY <1>12 DEF DrainBegin
<1>13. CASE DrainEnd
  BY <1>13 DEF DrainEnd
<1>14. CASE UNCHANGED vars
  BY <1>14 DEF vars
<1> QED
  BY <1>1, <1>2, <1>3, <1>4, <1>5, <1>6, <1>7, <1>8, <1>9, <1>10, <1>11,
     <1>12, <1>13, <1>14 DEF Next, Dispatch, Complete

-----------------------------------------------------------------------------
\* The mutex excludes: nobody but its holder is between lock and unlock.
LEMMA LockInductive == TypeOK /\ LockInv /\ [Next]_vars => LockInv'
<1> SUFFICES ASSUME TypeOK, LockInv, [Next]_vars PROVE LockInv'
  OBVIOUS
<1> USE QueueAssumption DEF TypeOK, LockInv
<1>1. ASSUME NEW t \in Threads, Dispatch(t) PROVE LockInv'
  <2>1. CASE TestState(t)
    BY <2>1 DEF TestState
  <2>2. CASE SemWait(t)
    BY <2>2 DEF SemWait
  <2>3. CASE LockQueue(t)
    BY <2>3 DEF LockQueue
  <2>4. CASE Dequeue(t)
    BY <2>4 DEF Dequeue
  <2>5. CASE Process(t)
    BY <2>5 DEF Process
  <2> QED BY <1>1, <2>1, <2>2, <2>3, <2>4, <2>5 DEF Dispatch
<1>2. ASSUME NEW p \in Producers, NEW i \in Items, QueueItem(p, i) PROVE LockInv'
  BY <1>2 DEF QueueItem
<1>3. ASSUME NEW p \in Producers, Complete(p) PROVE LockInv'
  <2>1. CASE CheckStarted(p)
    BY <2>1 DEF CheckStarted
  <2>2. CASE LockForInsert(p)
    BY <2>2 DEF LockForInsert
  <2>3. CASE Insert(p)
    BY <2>3 DEF Insert
  <2>4. CASE Post(p)
    BY <2>4 DEF Post
  <2> QED BY <1>3, <2>1, <2>2, <2>3, <2>4 DEF Complete
<1>4. ASSUME NEW s \in AdminStates, SetState(s) PROVE LockInv'
  BY <1>4 DEF SetState
<1>5. CASE DrainBegin \/ DrainEnd
  BY <1>5 DEF DrainBegin, DrainEnd
<1>6. CASE UNCHANGED vars
  BY <1>6 DEF vars
<1> QED BY <1>1, <1>2, <1>3, <1>4, <1>5, <1>6 DEF Next

-----------------------------------------------------------------------------
\* An item stays in one place.  The steps that leave the list, the threads'
\* and the callers' items alone preserve it at once.
LEMMA OwnerUnchanged ==
    ASSUME OneOwner, UNCHANGED <<list, cur, offered>>,
           \A t \in Threads : pc'[t] = "process" <=> pc[t] = "process",
           \A p \in Producers : /\ ppc'[p] = "idle" <=> ppc[p] = "idle"
                                /\ ppc'[p] = "post" <=> ppc[p] = "post"
    PROVE  OneOwner'
BY DEF OneOwner

LEMMA OwnerInductive == TypeOK /\ LockInv /\ OneOwner /\ [Next]_vars => OneOwner'
<1> SUFFICES ASSUME TypeOK, LockInv, OneOwner, [Next]_vars PROVE OneOwner'
  OBVIOUS
<1> USE QueueAssumption DEF TypeOK
<1>1. ASSUME NEW t \in Threads, Dispatch(t) PROVE OneOwner'
  <2>1. CASE TestState(t)
    BY <2>1, OwnerUnchanged DEF TestState
  <2>2. CASE SemWait(t)
    BY <2>2, OwnerUnchanged DEF SemWait
  <2>3. CASE LockQueue(t)
    BY <2>3, OwnerUnchanged DEF LockQueue
  <2>4. CASE Dequeue(t) /\ list = <<>>
    BY <2>4, OwnerUnchanged DEF Dequeue
  <2>5. CASE Dequeue(t) /\ list # <<>>
    <3>1. \A p \in Producers : ppc[p] # "post"
      BY <2>5 DEF Dequeue, LockInv
    <3>2. /\ Head(list) = list[1] /\ 1 \in DOMAIN list
          /\ Len(Tail(list)) = Len(list) - 1
          /\ \A k \in DOMAIN Tail(list) : /\ k + 1 \in DOMAIN list
                                         /\ Tail(list)[k] = list[k + 1]
                                         /\ k \in Nat
      BY <2>5
    <3>3. list[1] \in Items
      BY <3>2
    <3>4. /\ cur' = [cur EXCEPT ![t] = list[1]]
          /\ pc' = [pc EXCEPT ![t] = "process"]
          /\ list' = Tail(list)
          /\ UNCHANGED <<ppc, offered>>
      BY <2>5, <3>2 DEF Dequeue
    <3>5. \A p \in Producers : list[1] # offered[p]
      BY <3>1, <3>2 DEF OneOwner
    <3>6. \A k \in DOMAIN list' : list'[k] # list[1]
      BY <3>2, <3>4 DEF OneOwner
    <3>7. \A j, k \in DOMAIN list' : j # k => list'[j] # list'[k]
      <4> SUFFICES ASSUME NEW j \in DOMAIN list', NEW k \in DOMAIN list', j # k
                   PROVE  list'[j] # list'[k]
        OBVIOUS
      <4>1. j + 1 # k + 1
        BY <3>2, <3>4
      <4> QED BY <3>2, <3>4, <4>1 DEF OneOwner
    <3>8. \A k \in DOMAIN list', u \in Threads : list'[k] # cur'[u]
      BY <3>2, <3>4, <3>6 DEF OneOwner
    <3>9. \A k \in DOMAIN list', p \in Producers : list'[k] # offered[p]
      BY <3>1, <3>2, <3>4 DEF OneOwner
    <3>10. \A u \in Threads : cur'[u] # NoItem <=> pc'[u] = "process"
      BY <3>3, <3>4 DEF OneOwner
    <3>11. \A u, v \in Threads : u # v /\ cur'[u] # NoItem => cur'[u] # cur'[v]
      BY <3>2, <3>4 DEF OneOwner
    <3>12. \A p \in Producers, u \in Threads :
             offered[p] # NoItem => offered[p] # cur'[u]
      BY <3>4, <3>5 DEF OneOwner
    <3> QED
      BY <3>1, <3>4, <3>7, <3>8, <3>9, <3>10, <3>11, <3>12 DEF OneOwner
  <2>6. CASE Process(t)
    <3>1. \A k \in DOMAIN list : list[k] \in Items
      OBVIOUS
    <3> QED BY <2>6, <3>1 DEF Process, OneOwner
  <2> QED BY <1>1, <2>1, <2>2, <2>3, <2>4, <2>5, <2>6 DEF Dispatch, Dequeue
<1>2. ASSUME NEW p \in Producers, NEW i \in Items, QueueItem(p, i) PROVE OneOwner'
  BY <1>2 DEF QueueItem, OneOwner, InHand, Listed
<1>3. ASSUME NEW p \in Producers, Complete(p) PROVE OneOwner'
  <2>1. CASE CheckStarted(p)
    <3>1. \A k \in DOMAIN list : list[k] \in Items
      OBVIOUS
    <3> QED BY <2>1, <3>1 DEF CheckStarted, OneOwner
  <2>2. CASE LockForInsert(p)
    BY <2>2, OwnerUnchanged DEF LockForInsert
  <2>3. CASE Insert(p)
    <3>1. /\ offered[p] # NoItem /\ offered[p] \in Items
          /\ list' = Append(list, offered[p])
          /\ ppc' = [ppc EXCEPT ![p] = "post"]
          /\ UNCHANGED <<pc, cur, offered>>
      BY <2>3 DEF Insert, OneOwner
    <3>2. \A q \in Producers : ppc'[q] = "post" <=> q = p
      BY <2>3, <3>1 DEF Insert, LockInv
    <3>3. /\ Len(list') = Len(list) + 1 /\ Len(list) \in Nat
          /\ DOMAIN list' = 1..(Len(list) + 1) /\ DOMAIN list = 1..Len(list)
          /\ list'[Len(list) + 1] = offered[p]
          /\ \A k \in 1..Len(list) : list'[k] = list[k]
      BY <3>1
    <3>4. \A k \in 1..Len(list), q \in Producers : list[k] # offered[q]
      BY <2>3, <3>3 DEF Insert, OneOwner, LockInv
    <3>5. \A j, k \in DOMAIN list' : j # k => list'[j] # list'[k]
      BY <3>3, <3>4 DEF OneOwner
    <3>6. \A k \in DOMAIN list', t \in Threads : list'[k] # cur[t]
      BY <3>1, <3>3 DEF OneOwner
    <3>7. \A k \in DOMAIN list', q \in Producers :
            list'[k] = offered[q] <=> ppc'[q] = "post" /\ k = Len(list')
      BY <3>1, <3>2, <3>3, <3>4 DEF OneOwner
    <3> QED BY <2>3, <3>1, <3>5, <3>6, <3>7 DEF OneOwner, Insert
  <2>4. CASE Post(p)
    <3>1. /\ offered' = [offered EXCEPT ![p] = NoItem]
          /\ ppc' = [ppc EXCEPT ![p] = "idle"]
          /\ UNCHANGED <<pc, cur>>
          /\ ppc[p] = "post"
      BY <2>4 DEF Post
    <3>2. \A q \in Producers : ppc'[q] # "post"
      BY <3>1 DEF LockInv
    <3>3. \A k \in DOMAIN list : list[k] \in Items
      OBVIOUS
    <3>4. CASE list' = list
      <4>1. \A k \in DOMAIN list, q \in Producers : list[k] # offered'[q]
        BY <3>1, <3>3 DEF OneOwner, LockInv
      <4> QED BY <3>1, <3>2, <3>4, <4>1 DEF OneOwner
    <3>5. CASE list' = SubSeq(list, 1, Len(list) - 1)
      <4>1. /\ DOMAIN list' \subseteq DOMAIN list
            /\ \A k \in DOMAIN list' : list'[k] = list[k]
        BY <3>5
      <4>2. \A k \in DOMAIN list', q \in Producers : list'[k] # offered'[q]
        BY <3>1, <3>3, <4>1 DEF OneOwner, LockInv
      <4> QED BY <3>1, <3>2, <4>1, <4>2 DEF OneOwner
    <3> QED BY <2>4, <3>4, <3>5 DEF Post
  <2> QED BY <1>3, <2>1, <2>2, <2>3, <2>4 DEF Complete
<1>4. ASSUME NEW s \in AdminStates, SetState(s) PROVE OneOwner'
  BY <1>4, OwnerUnchanged DEF SetState
<1>5. CASE DrainBegin \/ DrainEnd
  BY <1>5, OwnerUnchanged DEF DrainBegin, DrainEnd
<1>6. CASE UNCHANGED vars
  BY <1>6, OwnerUnchanged DEF vars
<1> QED BY <1>1, <1>2, <1>3, <1>4, <1>5, <1>6 DEF Next

-----------------------------------------------------------------------------
\* The threads on their way to the list are finitely many.
LEMMA WokenFinite == IsFiniteSet(Woken) /\ Cardinality(Woken) \in Nat
<1>1. IsFiniteSet(Woken)
  BY QueueAssumption, FS_Subset DEF Woken
<1> QED BY <1>1, FS_CardinalityType

\* A step that moves no thread to or from the list, no token, and no item.
LEMMA TokensUnchanged ==
    ASSUME TokensMatchItems, Woken' = Woken, Unposted' = Unposted,
           UNCHANGED <<sem, list>>
    PROVE  TokensMatchItems'
BY DEF TokensMatchItems

\* While a caller that must post its token holds the mutex nobody else does.
LEMMA UnpostedByHolder ==
    ASSUME LockInv, NEW x, lock = x
    PROVE  /\ x \notin Producers => Unposted = 0
           /\ x \in Producers => (Unposted = 1 <=> ppc[x] = "post")
           /\ Unposted \in {0, 1}
BY DEF LockInv, Unposted

\* Undoing list_add_tail takes one item off.
LEMMA DropLastLength ==
    ASSUME NEW S, NEW q \in Seq(S), Len(q) >= 1
    PROVE  Len(SubSeq(q, 1, Len(q) - 1)) = Len(q) - 1
<1> DEFINE n == Len(q) - 1
<1>1. n \in Nat /\ \A i \in 1..n : q[i] \in S
  OBVIOUS
<1> HIDE DEF n
<1>2. Len(SubSeq(q, 1, n)) = IF 1 <= n THEN n - 1 + 1 ELSE 0
  BY <1>1, SubSeqProperties
<1>3. Len(SubSeq(q, 1, n)) = n
  BY <1>1, <1>2
<1> QED BY <1>3 DEF n

\* Tokens go where items go.
LEMMA TokensInductive == IInv /\ [Next]_vars => TokensMatchItems'
<1> SUFFICES ASSUME IInv, [Next]_vars PROVE TokensMatchItems'
  OBVIOUS
<1> USE QueueAssumption DEF IInv, TypeOK
<1>0. Cardinality(Woken) \in Nat /\ IsFiniteSet(Woken)
  BY WokenFinite
<1>1. ASSUME NEW t \in Threads, Dispatch(t) PROVE TokensMatchItems'
  <2>1. CASE TestState(t) \/ Process(t)
    BY <2>1, TokensUnchanged DEF TestState, Process, Woken, Unposted
  <2>2. CASE SemWait(t)
    <3>1. t \notin Woken /\ Woken' = Woken \cup {t}
      BY <2>2 DEF SemWait, Woken
    <3>2. Cardinality(Woken') = Cardinality(Woken) + 1
      BY <1>0, <3>1, FS_AddElement
    <3>3. Unposted' = Unposted /\ Unposted \in {0, 1}
      BY <2>2 DEF SemWait, Unposted
    <3> QED BY <1>0, <2>2, <3>2, <3>3 DEF SemWait, TokensMatchItems
  <2>3. CASE LockQueue(t)
    BY <2>3, TokensUnchanged DEF LockQueue, Woken, Unposted
  <2>4. CASE Dequeue(t)
    <3>1. t \in Woken /\ Woken' = Woken \ {t}
      BY <2>4 DEF Dequeue, Woken
    <3>2. Cardinality(Woken') = Cardinality(Woken) - 1
      BY <1>0, <3>1, FS_RemoveElement
    <3>3. Cardinality(Woken) # 0
      BY <1>0, <3>1, FS_EmptySet
    <3>4. Unposted = 0 /\ Unposted' = 0
      BY <2>4 DEF Dequeue, Unposted, LockInv
    <3>5. list # <<>>
      BY <1>0, <3>3, <3>4 DEF TokensMatchItems
    <3>6. Len(Tail(list)) = Len(list) - 1
      BY <3>5
    <3> QED BY <1>0, <2>4, <3>2, <3>4, <3>5, <3>6 DEF Dequeue, TokensMatchItems
  <2> QED BY <1>1, <2>1, <2>2, <2>3, <2>4 DEF Dispatch
<1>2. ASSUME NEW p \in Producers, NEW i \in Items, QueueItem(p, i)
      PROVE  TokensMatchItems'
  BY <1>2, TokensUnchanged DEF QueueItem, Woken, Unposted
<1>3. ASSUME NEW p \in Producers, Complete(p) PROVE TokensMatchItems'
  <2>1. CASE CheckStarted(p) \/ LockForInsert(p)
    BY <2>1, TokensUnchanged DEF CheckStarted, LockForInsert, Woken, Unposted
  <2>2. CASE Insert(p)
    <3>1. Woken' = Woken
      BY <2>2 DEF Insert, Woken
    <3>2. Unposted = 0 /\ Unposted' = 1
      BY <2>2 DEF Insert, Unposted, LockInv
    <3>3. offered[p] \in Items
      BY <2>2 DEF Insert, OneOwner
    <3>4. Len(list') = Len(list) + 1
      BY <2>2, <3>3 DEF Insert
    <3> QED BY <1>0, <2>2, <3>1, <3>2, <3>4 DEF Insert, TokensMatchItems
  <2>3. CASE Post(p)
    <3>1. Woken' = Woken
      BY <2>3 DEF Post, Woken
    <3>2. Unposted = 1 /\ Unposted' = 0
      BY <2>3 DEF Post, Unposted, LockInv
    <3>3. Len(list) >= 1
      BY <1>0, <3>2 DEF TokensMatchItems
    <3>4. Len(SubSeq(list, 1, Len(list) - 1)) = Len(list) - 1
      BY <3>3, DropLastLength
    <3> QED BY <1>0, <2>3, <3>1, <3>2, <3>4 DEF Post, TokensMatchItems
  <2> QED BY <1>3, <2>1, <2>2, <2>3 DEF Complete
<1>4. ASSUME NEW s \in AdminStates, SetState(s) PROVE TokensMatchItems'
  BY <1>4, TokensUnchanged DEF SetState, Woken, Unposted
<1>5. CASE DrainBegin \/ DrainEnd
  BY <1>5, TokensUnchanged DEF DrainBegin, DrainEnd, Woken, Unposted
<1>6. CASE UNCHANGED vars
  BY <1>6, TokensUnchanged DEF vars, Woken, Unposted
<1> QED BY <1>1, <1>2, <1>3, <1>4, <1>5, <1>6 DEF Next

-----------------------------------------------------------------------------
\* The queue hfsQueueInit leaves satisfies the invariant.
LEMMA InitInvariant == Init => IInv
<1> SUFFICES ASSUME Init PROVE IInv
  OBVIOUS
<1> USE QueueAssumption DEF Init
<1>1. TypeOK
  <2>1. sem \in 0..SemMax
    OBVIOUS
  <2>2. /\ pc \in [Threads -> Places]
        /\ cur \in [Threads -> Items \cup {NoItem}]
    BY DEF Places
  <2>3. /\ ppc \in [Producers -> CallPlaces]
        /\ offered \in [Producers -> Items \cup {NoItem}]
    BY DEF CallPlaces
  <2>4. list \in Seq(Items)
    OBVIOUS
  <2> QED BY <2>1, <2>2, <2>3, <2>4 DEF TypeOK, States
<1>2. LockInv
  BY DEF LockInv
<1>3. OneOwner
  BY DEF OneOwner
<1>4. Woken = {} /\ Unposted = 0
  BY DEF Woken, Unposted
<1>5. TokensMatchItems
  BY <1>4, FS_EmptySet DEF TokensMatchItems
<1> QED BY <1>1, <1>2, <1>3, <1>5 DEF IInv

\* Every reachable queue satisfies the inductive invariant.
THEOREM Invariant == Spec => []IInv
<1>1. IInv /\ [Next]_vars => IInv'
  BY TypeInductive, LockInductive, OwnerInductive, TokensInductive DEF IInv
<1> QED BY InitInvariant, <1>1, PTL DEF Spec

\* The queue's fields keep their types.
THEOREM TypeCorrect == Spec => []TypeOK
<1>1. IInv => TypeOK
  BY DEF IInv
<1> QED BY Invariant, <1>1, PTL

\* An item is never with two threads, twice on the list, or on the list and
\* in somebody's hand: hfsQueueItem's on-list test and the mutex suffice.
THEOREM ItemsHaveOneOwner == Spec => []OneOwner
<1>1. IInv => OneOwner
  BY DEF IInv
<1> QED BY Invariant, <1>1, PTL

\* Tokens in the semaphore and threads on their way add up to the items on
\* the list, also across a sem_post that failed and a state change.
THEOREM TokensMatch == Spec => []TokensMatchItems
<1>1. IInv => TokensMatchItems
  BY DEF IInv
<1> QED BY Invariant, <1>1, PTL

\* A thread that took a token finds an item under the lock, so the branch of
\* CommonQueueDispatch that complains about an empty list is dead.
THEOREM WokenNeverDisappointed == Spec => []WokenFindsItem
<1>1. IInv => WokenFindsItem
  <2> SUFFICES ASSUME IInv, NEW t \in Threads, pc[t] = "take"
               PROVE  list # <<>>
    BY DEF WokenFindsItem
  <2>1. t \in Woken
    BY DEF Woken
  <2>2. Cardinality(Woken) \in Nat /\ Cardinality(Woken) # 0
    BY <2>1, WokenFinite, FS_EmptySet
  <2>3. Unposted \in {0, 1} /\ sem \in Nat
    BY QueueAssumption DEF Unposted, IInv, TypeOK
  <2> QED BY <2>2, <2>3 DEF IInv, TokensMatchItems
<1> QED BY Invariant, <1>1, PTL

\* hfsQueueDrain polls the semaphore, not the list; that is enough.
THEOREM DrainIsSound == Spec => DrainClaimsAll
<1>1. IInv /\ [Next]_vars =>
        [draining /\ ~draining' => Len(list) <= Cardinality(Woken) + Unposted]_vars
  <2> SUFFICES ASSUME IInv, Next, draining, ~draining'
               PROVE  Len(list) <= Cardinality(Woken) + Unposted
    OBVIOUS
  <2>1. DrainEnd
    BY DEF Next, Dispatch, Complete, TestState, SemWait, LockQueue, Dequeue,
           Process, QueueItem, CheckStarted, LockForInsert, Insert, Post,
           SetState, DrainBegin, DrainEnd
  <2>2. sem = 0
    BY <2>1 DEF DrainEnd
  <2>3. Cardinality(Woken) \in Nat /\ Unposted \in {0, 1}
    BY WokenFinite DEF Unposted
  <2> QED BY <2>2, <2>3 DEF IInv, TokensMatchItems
<1> QED BY Invariant, <1>1, PTL DEF Spec, DrainClaimsAll

-----------------------------------------------------------------------------
\* Steps that touch neither the list nor the threads' items leave the pool be.
LEMMA PoolUnchanged ==
    ASSUME UNCHANGED <<list, cur>>, Unposted' = Unposted
    PROVE  UNCHANGED Pool!vars
BY DEF Pool!vars, Accepted

\* Taking the last element off after appending one.
LEMMA DropLastAppend ==
    ASSUME NEW S, NEW q \in Seq(S), NEW e \in S
    PROVE  SubSeq(Append(q, e), 1, Len(Append(q, e)) - 1) = q
<1>1. Append(q, e) \in Seq(S) /\ Len(Append(q, e)) = Len(q) + 1 /\ Len(q) \in Nat
  OBVIOUS
<1>2. \A i \in 1..Len(q) : Append(q, e)[i] = q[i] /\ q[i] \in S
  OBVIOUS
<1> DEFINE a == Append(q, e)
           n == Len(q)
           d == SubSeq(a, 1, n)
<1>3. n \in Nat /\ \A i \in 1..n : a[i] = q[i] /\ a[i] \in S
  BY <1>1, <1>2
<1> HIDE DEF a, n
<1>4. /\ d \in Seq(S) /\ Len(d) = IF 1 <= n THEN n - 1 + 1 ELSE 0
      /\ \A i \in 1..(n - 1 + 1) : d[i] = a[1 + i - 1]
  BY <1>3, SubSeqProperties
<1>5. Len(d) = n /\ \A i \in 1..n : d[i] = q[i]
  BY <1>3, <1>4
<1> HIDE DEF d
<1>6. d = q
  BY <1>4, <1>5, SeqEqual DEF n
<1> QED BY <1>1, <1>6 DEF a, n, d

\* Putting the last element back.
LEMMA DropLastRestored ==
    ASSUME NEW S, NEW q \in Seq(S), Len(q) >= 1
    PROVE  q = Append(SubSeq(q, 1, Len(q) - 1), q[Len(q)])
<1> DEFINE n == Len(q) - 1
           d == SubSeq(q, 1, n)
           e == q[Len(q)]
<1>1. n \in Nat /\ Len(q) = n + 1 /\ e \in S /\ \A i \in 1..(n + 1) : q[i] \in S
  OBVIOUS
<1> HIDE DEF n
<1>2. /\ d \in Seq(S) /\ Len(d) = IF 1 <= n THEN n - 1 + 1 ELSE 0
      /\ \A i \in 1..(n - 1 + 1) : d[i] = q[1 + i - 1]
  BY <1>1, SubSeqProperties
<1>3. Len(d) = n /\ \A i \in 1..n : d[i] = q[i]
  BY <1>1, <1>2
<1> HIDE DEF d
<1>4. /\ Append(d, e) \in Seq(S) /\ Len(Append(d, e)) = n + 1
      /\ \A i \in 1..n : Append(d, e)[i] = d[i]
      /\ Append(d, e)[n + 1] = e
  BY <1>1, <1>2, <1>3
<1>5. \A i \in 1..(n + 1) : Append(d, e)[i] = q[i]
  BY <1>1, <1>3, <1>4
<1> HIDE DEF e
<1>6. Append(d, e) = q
  BY <1>1, <1>4, <1>5, SeqEqual
<1> QED BY <1>6 DEF n, d, e

\* Every step of the queue is a step of the pool or leaves it unchanged.
LEMMA PoolStep == IInv /\ IInv' /\ [Next]_vars => [Pool!Next]_(Pool!vars)
<1> SUFFICES ASSUME IInv, IInv', [Next]_vars PROVE [Pool!Next]_(Pool!vars)
  OBVIOUS
<1> USE QueueAssumption DEF IInv, TypeOK
<1>1. ASSUME NEW t \in Threads, Dispatch(t) PROVE [Pool!Next]_(Pool!vars)
  <2>1. CASE TestState(t) \/ SemWait(t) \/ LockQueue(t)
    BY <2>1, PoolUnchanged DEF TestState, SemWait, LockQueue, Unposted
  <2>2. CASE Dequeue(t) /\ list = <<>>
    BY <2>2, PoolUnchanged DEF Dequeue, Unposted
  <2>3. CASE Dequeue(t) /\ list # <<>>
    <3>1. Unposted = 0 /\ Unposted' = 0
      BY <2>3 DEF Dequeue, Unposted, LockInv
    <3>2. Accepted = list /\ Accepted' = Tail(list)
      BY <2>3, <3>1 DEF Dequeue, Accepted
    <3>3. cur[t] = NoItem
      BY <2>3 DEF Dequeue, OneOwner
    <3>4. Pool!Start(t)
      BY <2>3, <3>2, <3>3 DEF Dequeue, Pool!Start
    <3> QED BY <3>4 DEF Pool!Next
  <2>4. CASE Process(t)
    <3>1. cur[t] # NoItem /\ Accepted' = Accepted
      BY <2>4 DEF Process, OneOwner, Accepted, Unposted
    <3>2. Pool!Finish(t)
      BY <2>4, <3>1 DEF Process, Pool!Finish
    <3> QED BY <3>2 DEF Pool!Next
  <2> QED BY <1>1, <2>1, <2>2, <2>3, <2>4 DEF Dispatch
<1>2. ASSUME NEW p \in Producers, NEW i \in Items, QueueItem(p, i)
      PROVE  [Pool!Next]_(Pool!vars)
  BY <1>2, PoolUnchanged DEF QueueItem, Unposted
<1>3. ASSUME NEW p \in Producers, Complete(p) PROVE [Pool!Next]_(Pool!vars)
  <2>1. CASE CheckStarted(p) \/ LockForInsert(p)
    BY <2>1, PoolUnchanged DEF CheckStarted, LockForInsert, Unposted
  <2>2. CASE Insert(p)
    <3>1. Unposted = 0 /\ Unposted' = 1 /\ offered[p] \in Items
      BY <2>2 DEF Insert, Unposted, LockInv, OneOwner
    <3>2. list' = Append(list, offered[p]) /\ cur' = cur
      BY <2>2 DEF Insert
    <3>3. Accepted' = SubSeq(list', 1, Len(list') - 1)
      BY <3>1 DEF Accepted
    <3>4. Accepted' = list
      BY <3>1, <3>2, <3>3, DropLastAppend
    <3>5. UNCHANGED Pool!vars
      BY <3>1, <3>2, <3>4 DEF Accepted, Pool!vars
    <3> QED BY <3>5
  <2>3. CASE Post(p)
    <3>1. Unposted = 1 /\ Unposted' = 0 /\ ppc[p] = "post"
      BY <2>3 DEF Post, Unposted, LockInv
    <3>2. Len(list) >= 1
      BY <3>1, WokenFinite DEF TokensMatchItems
    <3>3. Accepted = SubSeq(list, 1, Len(list) - 1) /\ Accepted' = list'
      BY <3>1 DEF Accepted
    <3>4. CASE list' = SubSeq(list, 1, Len(list) - 1)
      BY <2>3, <3>3, <3>4 DEF Post, Pool!vars
    <3>5. CASE list' = list
      <4> DEFINE i == list[Len(list)]
      <4>1. i \in Items /\ i = offered[p]
        BY <3>1, <3>2 DEF OneOwner
      <4>2. Accepted' = Append(Accepted, i)
        BY <3>2, <3>3, <3>5, DropLastRestored
      <4>3. Len(Accepted) = Len(list) - 1
        BY <3>2, <3>3, DropLastLength
      <4>4. \A k \in DOMAIN Accepted : k \in DOMAIN list /\ k # Len(list)
                                       /\ Accepted[k] = list[k]
        BY <3>2, <3>3, <4>3
      <4>5. ~Pool!Waits(i)
        BY <3>2, <4>4 DEF Pool!Waits, OneOwner
      <4>6. ~Pool!Runs(i)
        BY <4>1 DEF Pool!Runs, OneOwner
      <4>7. Pool!Accept(i)
        BY <2>3, <4>2, <4>5, <4>6 DEF Pool!Accept, Post
      <4> QED BY <4>1, <4>7 DEF Pool!Next
    <3> QED BY <2>3, <3>4, <3>5 DEF Post
  <2> QED BY <1>3, <2>1, <2>2, <2>3 DEF Complete
<1>4. ASSUME NEW s \in AdminStates, SetState(s) PROVE [Pool!Next]_(Pool!vars)
  BY <1>4, PoolUnchanged DEF SetState, Unposted
<1>5. CASE DrainBegin \/ DrainEnd
  BY <1>5, PoolUnchanged DEF DrainBegin, DrainEnd, Unposted
<1>6. CASE UNCHANGED vars
  BY <1>6, PoolUnchanged DEF vars, Unposted
<1> QED BY <1>1, <1>2, <1>3, <1>4, <1>5, <1>6 DEF Next

\* The queue processor is a first come, first served pool: an accepted item
\* is taken in its turn, by one thread, once, whatever the semaphore, the
\* unlocked state tests and a failing sem_post do.
THEOREM ImplementsPool == Spec => PoolSpec
<1>1. Init => Pool!Init
  <2> SUFFICES ASSUME Init PROVE Pool!Init
    OBVIOUS
  <2>1. Unposted = 0
    BY DEF Init, Unposted
  <2> QED BY <2>1 DEF Init, Pool!Init, Accepted
<1> QED BY <1>1, Invariant, PoolStep, PTL DEF Spec, PoolSpec, Pool!Spec
=============================================================================
