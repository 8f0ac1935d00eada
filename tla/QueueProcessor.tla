--------------------------- MODULE QueueProcessor ---------------------------
(***************************************************************************)
(* The queue processor of src/hfs/src/utils/utils_common.c: a list of      *)
(* items under a mutex, a counting semaphore with one token per item, and  *)
(* the threads that run CommonQueueDispatch.  The client has one (outgoing *)
(* requests), each server two (pending commands, outgoing responses).      *)
(*                                                                         *)
(* A step is what one thread does between two points where another can     *)
(* run: the semaphore, the mutex, and every unlocked read of the state.    *)
(***************************************************************************)
EXTENDS Integers, Sequences, FiniteSets

CONSTANTS Items,        \* the queue items
          Threads,      \* the threads hfsQueueInit starts
          Producers,    \* the threads that call hfsQueueItem
          AdminStates,  \* the states somebody may pass to hfsQueueSetState
          SemMax,       \* sem_post fails with EOVERFLOW at SEM_VALUE_MAX
          NoItem,       \* no item at hand
          NoOne         \* the mutex is free

States == {"UNKNOWN", "STARTED", "PAUSED", "STOPPED"}

ASSUME QueueAssumption ==
    /\ NoItem \notin Items
    /\ NoOne \notin Threads \cup Producers
    /\ Threads \cap Producers = {}
    /\ IsFiniteSet(Threads)
    /\ AdminStates \subseteq States
    /\ SemMax \in Nat

VARIABLES state,     \* pQProcessor->state
          sem,       \* the value of semPendingItems
          lock,      \* who holds queueLock
          list,      \* lstAnchorPendingCmds, head first
          pc,        \* where each dispatch thread is
          cur,       \* the item each dispatch thread dequeued
          ppc,       \* where each caller of hfsQueueItem is
          offered,   \* the item it was called with
          draining   \* somebody is inside hfsQueueDrain

vars == <<state, sem, lock, list, pc, cur, ppc, offered, draining>>

Places == {"test", "wait", "lock", "take", "process", "exit"}
CallPlaces == {"idle", "state", "lock", "insert", "post"}

Listed(i) == \E k \in DOMAIN list : list[k] = i

\* The caller owns the item: no other call and no thread works on it.
InHand(i) == \/ \E p \in Producers : offered[p] = i
             \/ \E t \in Threads : cur[t] = i

-----------------------------------------------------------------------------
\* The queue hfsQueueInit leaves: the threads run before any state is set.
Init == /\ state = "UNKNOWN"
        /\ sem = 0
        /\ lock = NoOne
        /\ list = <<>>
        /\ pc = [t \in Threads |-> "test"]
        /\ cur = [t \in Threads |-> NoItem]
        /\ ppc = [p \in Producers |-> "idle"]
        /\ offered = [p \in Producers |-> NoItem]
        /\ draining = FALSE

-----------------------------------------------------------------------------
(* CommonQueueDispatch *)

\* A thread that only ran while the queue is in state STARTED would leave
\* before the queue is opened.
TestStateStartedOnly(t) ==
    /\ pc[t] = "test"
    /\ pc' = [pc EXCEPT ![t] = IF state = "STARTED" THEN "wait" ELSE "exit"]
    /\ UNCHANGED <<state, sem, lock, list, cur, ppc, offered, draining>>

\* The loop condition; the state is read without the lock.
TestState(t) ==
    /\ pc[t] = "test"
    /\ pc' = [pc EXCEPT ![t] = IF state = "STOPPED" THEN "exit" ELSE "wait"]
    /\ UNCHANGED <<state, sem, lock, list, cur, ppc, offered, draining>>

SemWaitUnguarded(t) ==
    /\ pc[t] = "wait"
    /\ sem' = sem - 1
    /\ pc' = [pc EXCEPT ![t] = "lock"]
    /\ UNCHANGED <<state, lock, list, cur, ppc, offered, draining>>

\* hfsSemWait takes a token.
SemWait(t) ==
    /\ pc[t] = "wait"
    /\ sem > 0
    /\ sem' = sem - 1
    /\ pc' = [pc EXCEPT ![t] = "lock"]
    /\ UNCHANGED <<state, lock, list, cur, ppc, offered, draining>>

LockQueue(t) ==
    /\ pc[t] = "lock"
    /\ lock = NoOne
    /\ lock' = t
    /\ pc' = [pc EXCEPT ![t] = "take"]
    /\ UNCHANGED <<state, sem, list, cur, ppc, offered, draining>>

\* Under the lock: unlink the head and unlock, or complain and try again.
Dequeue(t) ==
    /\ pc[t] = "take"
    /\ lock' = NoOne
    /\ \/ /\ list = <<>>
          /\ pc' = [pc EXCEPT ![t] = "test"]
          /\ UNCHANGED <<list, cur>>
       \/ /\ list # <<>>
          /\ cur' = [cur EXCEPT ![t] = Head(list)]
          /\ list' = Tail(list)
          /\ pc' = [pc EXCEPT ![t] = "process"]
    /\ UNCHANGED <<state, sem, ppc, offered, draining>>

\* process() returns; whatever it returned the loop goes on.
Process(t) ==
    /\ pc[t] = "process"
    /\ cur' = [cur EXCEPT ![t] = NoItem]
    /\ pc' = [pc EXCEPT ![t] = "test"]
    /\ UNCHANGED <<state, sem, lock, list, ppc, offered, draining>>

-----------------------------------------------------------------------------
(* hfsQueueItem *)

QueueItemUnchecked(p, i) ==
    /\ ppc[p] = "idle"
    /\ ~InHand(i)
    /\ offered' = [offered EXCEPT ![p] = i]
    /\ ppc' = [ppc EXCEPT ![p] = "state"]
    /\ UNCHANGED <<state, sem, lock, list, pc, cur, draining>>

\* The call, and the test that the item is on no list.
QueueItem(p, i) ==
    /\ ppc[p] = "idle"
    /\ ~InHand(i)
    /\ ~Listed(i)
    /\ offered' = [offered EXCEPT ![p] = i]
    /\ ppc' = [ppc EXCEPT ![p] = "state"]
    /\ UNCHANGED <<state, sem, lock, list, pc, cur, draining>>

\* The state is read without the lock: it may change before the insertion.
CheckStarted(p) ==
    /\ ppc[p] = "state"
    /\ \/ /\ state = "STARTED"
          /\ ppc' = [ppc EXCEPT ![p] = "lock"]
          /\ UNCHANGED offered
       \/ /\ state # "STARTED"
          /\ ppc' = [ppc EXCEPT ![p] = "idle"]
          /\ offered' = [offered EXCEPT ![p] = NoItem]
    /\ UNCHANGED <<state, sem, lock, list, pc, cur, draining>>

LockForInsert(p) ==
    /\ ppc[p] = "lock"
    /\ lock = NoOne
    /\ lock' = p
    /\ ppc' = [ppc EXCEPT ![p] = "insert"]
    /\ UNCHANGED <<state, sem, list, pc, cur, offered, draining>>

InsertAtHead(p) ==
    /\ ppc[p] = "insert"
    /\ list' = <<offered[p]>> \o list
    /\ ppc' = [ppc EXCEPT ![p] = "post"]
    /\ UNCHANGED <<state, sem, lock, pc, cur, offered, draining>>

\* list_add_tail
Insert(p) ==
    /\ ppc[p] = "insert"
    /\ list' = Append(list, offered[p])
    /\ ppc' = [ppc EXCEPT ![p] = "post"]
    /\ UNCHANGED <<state, sem, lock, pc, cur, offered, draining>>

PostLeavesItem(p) ==
    /\ ppc[p] = "post"
    /\ \/ /\ sem < SemMax
          /\ sem' = sem + 1
       \/ /\ sem = SemMax
          /\ UNCHANGED sem
    /\ lock' = NoOne
    /\ ppc' = [ppc EXCEPT ![p] = "idle"]
    /\ offered' = [offered EXCEPT ![p] = NoItem]
    /\ UNCHANGED <<state, list, pc, cur, draining>>

\* Wake a thread, or take the item off the list again; unlock and return.
Post(p) ==
    /\ ppc[p] = "post"
    /\ \/ /\ sem < SemMax
          /\ sem' = sem + 1
          /\ UNCHANGED list
       \/ /\ sem = SemMax
          /\ list' = SubSeq(list, 1, Len(list) - 1)
          /\ UNCHANGED sem
    /\ lock' = NoOne
    /\ ppc' = [ppc EXCEPT ![p] = "idle"]
    /\ offered' = [offered EXCEPT ![p] = NoItem]
    /\ UNCHANGED <<state, pc, cur, draining>>

-----------------------------------------------------------------------------
(* hfsQueueSetState, hfsQueueDrain *)

SetStateNudges(s) ==
    /\ lock = NoOne
    /\ state' = s
    /\ sem' = IF s = "STOPPED" /\ sem < SemMax THEN sem + 1 ELSE sem
    /\ UNCHANGED <<lock, list, pc, cur, ppc, offered, draining>>

\* Lock, assign, unlock.
SetState(s) ==
    /\ lock = NoOne
    /\ state' = s
    /\ UNCHANGED <<sem, lock, list, pc, cur, ppc, offered, draining>>

\* Draining a started queue is refused; the state is read without the lock.
DrainBegin ==
    /\ ~draining
    /\ state # "STARTED"
    /\ draining' = TRUE
    /\ UNCHANGED <<state, sem, lock, list, pc, cur, ppc, offered>>

DrainEndNoWait ==
    /\ draining
    /\ draining' = FALSE
    /\ UNCHANGED <<state, sem, lock, list, pc, cur, ppc, offered>>

\* It polls the semaphore, not the list, until no token is left.
DrainEnd ==
    /\ draining
    /\ sem = 0
    /\ draining' = FALSE
    /\ UNCHANGED <<state, sem, lock, list, pc, cur, ppc, offered>>

-----------------------------------------------------------------------------
Dispatch(t) == \/ TestState(t)
               \/ SemWait(t)
               \/ LockQueue(t)
               \/ Dequeue(t)
               \/ Process(t)

\* What a call of hfsQueueItem does once it was made.
Complete(p) == \/ CheckStarted(p)
               \/ LockForInsert(p)
               \/ Insert(p)
               \/ Post(p)

Next == \/ \E t \in Threads : Dispatch(t)
        \/ \E p \in Producers, i \in Items : QueueItem(p, i)
        \/ \E p \in Producers : Complete(p)
        \/ \E s \in AdminStates : SetState(s)
        \/ DrainBegin
        \/ DrainEnd

Spec == Init /\ [][Next]_vars

\* Every thread and every call that was made keeps running, and process()
\* returns.  Nobody is obliged to queue an item.
FairSpec == /\ Spec
            /\ \A t \in Threads : WF_vars(Dispatch(t))
            /\ \A p \in Producers : WF_vars(Complete(p))

-----------------------------------------------------------------------------
\* Threads that hold a token and have not been through the list yet.
Woken == {t \in Threads : pc[t] \in {"lock", "take"}}

\* 1 while an item is on the list and its token is not posted yet.
Unposted == IF \E p \in Producers : ppc[p] = "post" THEN 1 ELSE 0

TypeOK ==
    /\ state \in States
    /\ sem \in 0..SemMax
    /\ lock \in Threads \cup Producers \cup {NoOne}
    /\ list \in Seq(Items)
    /\ pc \in [Threads -> Places]
    /\ cur \in [Threads -> Items \cup {NoItem}]
    /\ ppc \in [Producers -> CallPlaces]
    /\ offered \in [Producers -> Items \cup {NoItem}]
    /\ draining \in BOOLEAN

\* Only the thread or caller that holds queueLock is between lock and unlock.
LockInv ==
    /\ \A t \in Threads : pc[t] = "take" <=> lock = t
    /\ \A p \in Producers : ppc[p] \in {"insert", "post"} <=> lock = p

\* An item is in one place: with one caller, once on the list, or with one
\* thread; only the insertion that is not finished has it both at the tail of
\* the list and in its caller's hand.
OneOwner ==
    /\ \A t \in Threads : cur[t] # NoItem <=> pc[t] = "process"
    /\ \A p \in Producers : offered[p] # NoItem <=> ppc[p] # "idle"
    /\ \A t, u \in Threads : t # u /\ cur[t] # NoItem => cur[t] # cur[u]
    /\ \A p, q \in Producers :
          p # q /\ offered[p] # NoItem => offered[p] # offered[q]
    /\ \A p \in Producers, t \in Threads :
          offered[p] # NoItem => offered[p] # cur[t]
    /\ \A j, k \in DOMAIN list : j # k => list[j] # list[k]
    /\ \A k \in DOMAIN list, t \in Threads : list[k] # cur[t]
    /\ \A k \in DOMAIN list, p \in Producers :
          list[k] = offered[p] <=> ppc[p] = "post" /\ k = Len(list)

\* Every item on the list has exactly one token: in the semaphore, or with a
\* thread on its way to the list.  No wake-up is lost or left over, even when
\* sem_post fails and the insertion is undone.
TokensMatchItems == sem + Cardinality(Woken) + Unposted = Len(list)

\* "Ok We should now have at least one item to process": a thread that took a
\* token never finds the list empty, whatever the others did in between.
WokenFindsItem == \A t \in Threads : pc[t] = "take" => list # <<>>

\* When hfsQueueDrain succeeds every item still on the list has a thread that
\* was woken for it, or is one a caller is just now inserting: a drain does
\* not return over an item that nobody has been sent for.
DrainClaimsAll ==
    [][draining /\ ~draining' => Len(list) <= Cardinality(Woken) + Unposted]_vars

\* Accepted items are not forgotten: unless the queue is stopped each one is
\* processed in the end, and its owner may queue it again.
EveryItemProcessed ==
    [](state # "STOPPED") =>
        \A i \in Items : Listed(i) ~> ~(Listed(i) \/ InHand(i))

-----------------------------------------------------------------------------
\* The list without an item whose token is not posted yet: until then the
\* insertion may still be undone.
Accepted == IF Unposted = 1 THEN SubSeq(list, 1, Len(list) - 1) ELSE list

Pool == INSTANCE WorkPool WITH waiting <- Accepted, running <- cur

\* The queue is a first come, first served work pool that processes every
\* accepted item exactly once.
PoolSpec == Pool!Spec
=============================================================================
