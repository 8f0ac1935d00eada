---------------------------- MODULE RequestReply ----------------------------
(***************************************************************************)
(* What a server promises each connected client: a request sent on a       *)
(* connection is answered on that connection, at most once, and nothing    *)
(* else is ever delivered there as an answer.  Answers may overtake each   *)
(* other: the client tells them apart by the cookie it sent.  That every   *)
(* request is answered is not promised: one may be lost with its           *)
(* connection.  ServerConn is shown to implement this module.              *)
(***************************************************************************)
EXTENDS Naturals, Sequences

CONSTANT Conns          \* the connections clients make

VARIABLES asked,        \* how many requests each client has sent
          got           \* the answers each client was sent, oldest first

vars == <<asked, got>>

Answered(c, r) == \E k \in DOMAIN got[c] : got[c][k] = r

Init == /\ asked = [c \in Conns |-> 0]
        /\ got = [c \in Conns |-> <<>>]

\* The client sends its next request.
Ask(c) == /\ asked' = [asked EXCEPT ![c] = @ + 1]
          /\ UNCHANGED got

\* One of the client's own requests, not answered yet, is answered.
Answer(c) == \E n \in 1..asked[c] :
                /\ ~Answered(c, <<c, n>>)
                /\ got' = [got EXCEPT ![c] = Append(@, <<c, n>>)]
                /\ UNCHANGED asked

Next == \E c \in Conns : Ask(c) \/ Answer(c)

Spec == Init /\ [][Next]_vars
=============================================================================
