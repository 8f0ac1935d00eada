------------------------------ MODULE WorkPool ------------------------------
(***************************************************************************)
(* What a queue processor promises to the code that hands work to it,      *)
(* without its lock, its semaphore or its threads' control: an item that   *)
(* was accepted waits its turn, turns are first come first served, one     *)
(* thread takes an item exactly once, and when its processing function     *)
(* returns the item is its owner's again and may be handed in once more.   *)
(* QueueProcessor is shown to implement this module.                       *)
(***************************************************************************)
EXTENDS Sequences

CONSTANTS Items,      \* the queue items (HFS_QUEUE_ITEM buffers)
          Threads,    \* the dispatch threads of the queue
          NoItem      \* what a thread that processes nothing works on; no item

VARIABLES waiting,    \* accepted items nobody has taken, oldest first
          running     \* what each thread is processing

vars == <<waiting, running>>

Waits(i) == \E k \in DOMAIN waiting : waiting[k] = i
Runs(i) == \E t \in Threads : running[t] = i

Init == /\ waiting = <<>>
        /\ running = [t \in Threads |-> NoItem]

\* An item its owner holds is accepted behind everything already accepted.
Accept(i) == /\ ~Waits(i)
             /\ ~Runs(i)
             /\ waiting' = Append(waiting, i)
             /\ UNCHANGED running

\* An idle thread takes the item that has waited longest.
Start(t) == /\ running[t] = NoItem
            /\ waiting # <<>>
            /\ running' = [running EXCEPT ![t] = Head(waiting)]
            /\ waiting' = Tail(waiting)

\* The processing function returns; the item is its owner's again.
Finish(t) == /\ running[t] # NoItem
             /\ running' = [running EXCEPT ![t] = NoItem]
             /\ UNCHANGED waiting

Next == \/ \E i \in Items : Accept(i)
        \/ \E t \in Threads : Start(t) \/ Finish(t)

Spec == Init /\ [][Next]_vars

=============================================================================
