-------------------------- MODULE ConfigUpdate_proofs --------------------------
(***************************************************************************)
(* Proofs about ConfigUpdate, for any scenarios, threads and page sizes.   *)
(* A configuration never gives way to an older one: the reading of a       *)
(* thread begins under configUpdateMutex and what it reads is put in place *)
(* under the same hold of it, so that nothing newer comes between          *)
(* (NotOvertaken).  And an undisturbed reading gives the table: what has   *)
(* been read is always what the table begins with, and what is on its way  *)
(* is one answer at most, the page that follows (Exact).                   *)
(***************************************************************************)
EXTENDS ConfigUpdate, FiniteSetTheorems, SequenceTheorems, TLAPS

Places == {"none", "lock", "left", "open", "extent", "page", "connect", "login", "swap"}
Inside == {"open", "extent", "page", "connect", "swap", "left"}
Reading == {"extent", "page", "connect", "login", "swap"}

Types ==
    /\ at \in [Threads -> Places]
    /\ edits \in Nat /\ newest \in Nat /\ newest <= edits
    /\ since \in [Threads -> Nat]

\* hfsConfigChanged: one thread at a time is between lock and unlock.
OneInside == \A t \in Updaters : at[t] \in Inside => mutex = t

\* Nothing else runs until the mount has ended, and it alone logs in.
MountFirst ==
    /\ \A t \in Updaters : at[t] # "login"
    /\ at[Mount] \notin {"lock", "left", "swap"}
    /\ at[Mount] # "none" => /\ conf = <<>> /\ newest = 0
                             /\ \A t \in Updaters : at[t] = "none"

\* Nothing newer has been put in place since a reading began.
NotOvertaken ==
    \A t \in Threads : at[t] \in Reading => newest <= since[t] /\ since[t] <= edits

UpdateInv == Types /\ OneInside /\ MountFirst /\ NotOvertaken

-----------------------------------------------------------------------------
\* The mount thread is none of the others.
LEMMA ThreadsApart == Mount \in Threads /\ Mount \notin Updaters /\ Updaters \subseteq Threads
                      /\ Nobody \notin Threads
  BY ConfigAssumption DEF Threads, Mount

LEMMA InitUpdate == Init => UpdateInv
<1> SUFFICES ASSUME Init PROVE UpdateInv
  OBVIOUS
<1> USE ThreadsApart DEF Init
<1>1. Types
  BY DEF Types, Places
<1>2. OneInside /\ MountFirst /\ NotOvertaken
  BY DEF OneInside, MountFirst, NotOvertaken, Inside, Reading
<1> QED BY <1>1, <1>2 DEF UpdateInv

\* A step that leaves the places, the mutex and the configuration alone.
LEMMA UpdateUnchanged ==
    ASSUME UpdateInv, UNCHANGED <<edits, at, mutex, conf, since, newest>>
    PROVE  UpdateInv'
  BY DEF UpdateInv, Types, OneInside, MountFirst, NotOvertaken

\* A thread that has read or connects goes on, or starts over on the backup.
LEMMA GoesOn ==
    ASSUME UpdateInv, NEW t \in Threads, at[t] \in Reading \cup {"open"},
           NEW place \in {"open", "extent", "page", "connect", "swap", "login"}, Go(t, place),
           place = "swap" => t # Mount, place = "login" => t = Mount,
           UNCHANGED <<edits, mutex, conf, newest>>,
           \/ at[t] \in Reading /\ UNCHANGED since
           \/ place = "extent" /\ since' = [since EXCEPT ![t] = edits]
           \/ place = "open" /\ UNCHANGED since
    PROVE  UpdateInv'
<1> USE ThreadsApart DEF Go
<1>1. at'[t] = place /\ \A u \in Threads : u # t => at'[u] = at[u] /\ since'[u] = since[u]
  BY DEF UpdateInv, Types
<1>2. Types'
  BY DEF UpdateInv, Types, Places
<1>3. OneInside'
  BY <1>1 DEF UpdateInv, OneInside, MountFirst, Inside, Reading
<1>4. MountFirst'
  BY <1>1 DEF UpdateInv, MountFirst, Reading
<1>5. NotOvertaken'
  BY <1>1 DEF UpdateInv, NotOvertaken, Types, Reading
<1> QED BY <1>2, <1>3, <1>4, <1>5 DEF UpdateInv

\* A thread that holds the mutex, or mounts, is through.  What it puts in place
\* is no older than what was there.
LEMMA Through ==
    ASSUME UpdateInv, NEW t \in Threads, at[t] \in Reading \cup {"open"}, End(t),
           UNCHANGED edits,
           \/ UNCHANGED <<conf, newest>>
           \/ at[t] \in Reading /\ newest' = since[t]
    PROVE  UpdateInv' /\ newest' >= newest
<1> USE ThreadsApart DEF Go, End
<1>1. at'[t] = "none" /\ \A u \in Threads : u # t => at'[u] = at[u] /\ since'[u] = since[u]
  BY DEF UpdateInv, Types
<1>2. newest' >= newest /\ newest' \in Nat /\ newest' <= edits
  BY DEF UpdateInv, Types, NotOvertaken
<1>3. Types'
  BY <1>2 DEF UpdateInv, Types, Places
<1>4. ASSUME NEW u \in Updaters, at'[u] \in Inside PROVE mutex' = u
  <2>1. u # t /\ at[u] \in Inside /\ mutex = u
    BY <1>1, <1>4 DEF UpdateInv, OneInside, Inside
  <2> QED BY <2>1
<1>5. MountFirst'
  <2>1. CASE t = Mount
    BY <1>1, <2>1 DEF UpdateInv, MountFirst
  <2>2. CASE t # Mount
    <3>1. t \in Updaters /\ at[t] # "none"
      BY <2>2 DEF Threads, Reading
    <3>2. at[Mount] = "none"
      BY <3>1 DEF UpdateInv, MountFirst
    <3> QED BY <1>1, <2>2, <3>2 DEF UpdateInv, MountFirst
  <2> QED BY <2>1, <2>2
<1>6. ASSUME NEW u \in Threads, at'[u] \in Reading
      PROVE  newest' <= since'[u] /\ since'[u] <= edits'
  <2>1. u # t /\ at[u] \in Reading
    BY <1>1, <1>6 DEF Reading
  <2>2. t = Mount \/ u = Mount \/ (t \in Updaters /\ u \in Updaters)
    BY DEF Threads
  <2>3. t \in Updaters /\ u \in Updaters
    BY <2>1, <2>2 DEF UpdateInv, MountFirst, Reading, Threads
  <2>4. at[t] \in Inside /\ at[u] \in Inside
    BY <2>1, <2>3 DEF UpdateInv, MountFirst, Reading, Inside
  <2>5. mutex = t /\ mutex = u
    BY <2>3, <2>4 DEF UpdateInv, OneInside
  <2> QED BY <2>1, <2>5
<1>7. OneInside' /\ NotOvertaken'
  BY <1>4, <1>6 DEF OneInside, NotOvertaken
<1> QED BY <1>2, <1>3, <1>5, <1>7 DEF UpdateInv

\* A failed reading goes on with the backup, or ends.
LEMMA FailedReading ==
    ASSUME UpdateInv, NEW t \in Threads, at[t] \in Reading \cup {"open"}, ReadFails(t)
    PROVE  UpdateInv' /\ newest' >= newest
<1>1. UNCHANGED <<edits, conf, newest>>
  BY DEF ReadFails, admin
<1>2. CASE MayTryBackup(t)
  <2>1. Go(t, "open") /\ UNCHANGED <<since, mutex>>
    BY <1>2 DEF ReadFails
  <2>2. UpdateInv'
    BY <1>1, <2>1, GoesOn
  <2> QED BY <1>1, <2>2 DEF UpdateInv, Types
<1>3. CASE ~MayTryBackup(t)
  BY <1>1, <1>3, Through DEF ReadFails
<1> QED BY <1>2, <1>3

\* Every step keeps the invariant, and what is in place never gets older.
LEMMA UpdateInductive == UpdateInv /\ [Next]_vars => UpdateInv' /\ newest' >= newest
<1> SUFFICES ASSUME UpdateInv, [Next]_vars PROVE UpdateInv' /\ newest' >= newest
  OBVIOUS
<1> USE ThreadsApart DEF admin, root, reading, history
<1>1. UNCHANGED newest /\ UpdateInv' => UpdateInv' /\ newest' >= newest
  BY DEF UpdateInv, Types
<1>2. CASE Edit
  <2>1. edits' = edits + 1 /\ UNCHANGED <<at, mutex, conf, since, newest>>
    BY <1>2 DEF Edit
  <2>2. UpdateInv'
    BY <2>1 DEF UpdateInv, Types, OneInside, MountFirst, NotOvertaken
  <2> QED BY <1>1, <2>1, <2>2
<1>3. CASE Notify \/ Die \/ UNCHANGED vars
  BY <1>1, <1>3, UpdateUnchanged DEF Notify, Die, vars
<1>4. ASSUME NEW t \in Updaters, Hear(t) PROVE UpdateInv' /\ newest' >= newest
  <2>1. /\ conf # <<>> /\ at[t] = "none" /\ at' = [at EXCEPT ![t] = "lock"]
        /\ UNCHANGED <<edits, mutex, conf, since, newest>>
    BY <1>4 DEF Hear, Go, Mounted
  <2>2. at[Mount] = "none" /\ at'[t] = "lock" /\ \A u \in Threads : u # t => at'[u] = at[u]
    BY <2>1 DEF UpdateInv, MountFirst, Types
  <2>3. Types'
    BY <2>1 DEF UpdateInv, Types, Places
  <2>4. OneInside' /\ MountFirst' /\ NotOvertaken'
    BY <2>1, <2>2 DEF UpdateInv, OneInside, MountFirst, NotOvertaken, Inside, Reading
  <2> QED BY <1>1, <2>1, <2>3, <2>4 DEF UpdateInv
<1>5. ASSUME NEW t \in Updaters, Lock(t) PROVE UpdateInv' /\ newest' >= newest
  <2>1. PICK place \in {"left", "open"} :
           /\ at[t] = "lock" /\ at' = [at EXCEPT ![t] = place]
           /\ mutex = Nobody /\ mutex' = t
           /\ UNCHANGED <<edits, conf, since, newest>>
    BY <1>5 DEF Lock, Go, MutexFree
  <2>2. at'[t] = place /\ \A u \in Threads : u # t => at'[u] = at[u]
    BY <2>1 DEF UpdateInv, Types
  <2>3. \A u \in Updaters : at[u] \notin Inside
    BY <2>1 DEF UpdateInv, OneInside
  <2>4. Types'
    BY <2>1 DEF UpdateInv, Types, Places
  <2>5. OneInside' /\ MountFirst' /\ NotOvertaken'
    BY <2>1, <2>2, <2>3 DEF UpdateInv, OneInside, MountFirst, NotOvertaken, Reading
  <2> QED BY <1>1, <2>1, <2>4, <2>5 DEF UpdateInv
<1>6. ASSUME NEW t \in Threads, Serve(t) \/ QueryFails(t)
      PROVE  UpdateInv' /\ newest' >= newest
  BY <1>1, <1>6, UpdateUnchanged DEF Serve, QueryFails, Reply
<1>7. ASSUME NEW t \in Threads, Open(t) PROVE UpdateInv' /\ newest' >= newest
  <2>1. UpdateInv'
    BY <1>7, GoesOn DEF Open, Own
  <2> QED BY <1>1, <1>7, <2>1 DEF Open, Own
<1>8. ASSUME NEW t \in Threads, OpenFails(t) PROVE UpdateInv' /\ newest' >= newest
  BY <1>8, FailedReading DEF OpenFails
<1>9. ASSUME NEW t \in Threads, GotExtent(t) PROVE UpdateInv' /\ newest' >= newest
  <2>1. at[t] \in Reading
    BY <1>9 DEF GotExtent, Reading
  <2>2. CASE Go(t, "page") /\ Own(t) /\ UNCHANGED since
    <3>1. UpdateInv'
      BY <2>1, <2>2, GoesOn DEF Own
    <3> QED BY <1>1, <2>2, <3>1 DEF Own
  <2>3. CASE ReadFails(t)
    BY <2>1, <2>3, FailedReading
  <2> QED BY <1>9, <2>2, <2>3 DEF GotExtent
<1>10. ASSUME NEW t \in Threads, GotPage(t) PROVE UpdateInv' /\ newest' >= newest
  <2>1. at[t] \in Reading
    BY <1>10 DEF GotPage, Reading
  <2>2. CASE Go(t, "connect") /\ Own(t) /\ UNCHANGED since
    <3>1. UpdateInv'
      BY <2>1, <2>2, GoesOn DEF Own
    <3> QED BY <1>1, <2>2, <3>1 DEF Own
  <2>3. CASE UNCHANGED at /\ Own(t) /\ UNCHANGED since
    BY <1>1, <2>3, UpdateUnchanged DEF Own
  <2>4. CASE ReadFails(t)
    BY <2>1, <2>4, FailedReading
  <2> QED BY <1>10, <2>2, <2>3, <2>4 DEF GotPage
<1>11. ASSUME NEW t \in Threads, Connect(t) PROVE UpdateInv' /\ newest' >= newest
  <2>1. at[t] \in Reading /\ Own(t) /\ UNCHANGED since
    BY <1>11 DEF Connect, Reading
  <2>2. PICK place \in {"login", "swap"} :
           Go(t, place) /\ (place = "login" <=> t = Mount)
    BY <1>11 DEF Connect
  <2>3. UpdateInv'
    BY <2>1, <2>2, GoesOn DEF Own
  <2> QED BY <1>1, <2>1, <2>3 DEF Own
<1>12. ASSUME NEW t \in Threads, ConnectFails(t) PROVE UpdateInv' /\ newest' >= newest
  BY <1>12, Through DEF ConnectFails, Reading
<1>13. ASSUME NEW t \in Threads, Swap(t) PROVE UpdateInv' /\ newest' >= newest
  BY <1>13, Through DEF Swap, Adopt, Reading
<1>14. ASSUME NEW t \in Threads, SwapFails(t) PROVE UpdateInv' /\ newest' >= newest
  BY <1>14, Through DEF SwapFails, Reading
<1>15. CASE GotLogin
  <2>1. at[Mount] \in Reading /\ UNCHANGED edits
    BY <1>15 DEF GotLogin, Reading
  <2>2. CASE UNCHANGED <<at, since, conf, newest, mutex>>
    BY <1>1, <2>1, <2>2, UpdateUnchanged
  <2>3. CASE End(Mount) /\ Adopt(Mount)
    BY <2>1, <2>3, Through DEF Adopt
  <2>4. CASE End(Mount) /\ UNCHANGED <<conf, newest>>
    BY <2>1, <2>4, Through
  <2> QED BY <1>15, <2>2, <2>3, <2>4 DEF GotLogin
<1> QED
  BY <1>2, <1>3, <1>4, <1>5, <1>6, <1>7, <1>8, <1>9, <1>10, <1>11, <1>12, <1>13, <1>14, <1>15
  DEF Next, Step

\* NewestStays: a configuration never gives way to one whose reading began
\* earlier, however many threads hfsUnsolicitedCommand starts.
THEOREM NewestRemains == Spec => NewestStays
<1>1. UpdateInv /\ [Next]_vars => [newest' >= newest]_vars
  BY UpdateInductive
<1> QED BY <1>1, InitUpdate, UpdateInductive, PTL DEF Spec, NewestStays

-----------------------------------------------------------------------------
(* Tables and pages *)

Row == {"mds", "ds"} \X Nat

\* A set of numbers from 1 to n has a greatest one: {x..n : x \in T} has a
\* member that strictly includes no other.
LEMMA Greatest ==
    ASSUME NEW n \in Nat, NEW T, T \subseteq 1..n, T # {}
    PROVE  \E x \in T : \A y \in T : y <= x
<1> DEFINE Above == {x..n : x \in T}
<1>1. Above \subseteq FiniteSubsetsOf(1..n) /\ Above # {}
  <2>1. ASSUME NEW x \in T PROVE x..n \in FiniteSubsetsOf(1..n)
    <3>1. x..n \subseteq 1..n /\ IsFiniteSet(1..n)
      BY FS_Interval
    <3> QED BY <3>1, FS_Subset DEF FiniteSubsetsOf
  <2> QED BY <2>1
<1>2. PICK b \in Above : \A d \in Above : ~(<<d, b>> \in StrictSubsetOrdering(1..n))
  BY <1>1, FS_StrictSubsetOrderingWellFounded, WFMin
<1>3. PICK x \in T : b = x..n
  OBVIOUS
<1>4. ASSUME NEW y \in T PROVE y <= x
  <2>1. SUFFICES ASSUME x < y PROVE FALSE
    OBVIOUS
  <2>2. y..n \subseteq x..n /\ x \in x..n /\ x \notin y..n
    BY <2>1
  <2>3. y..n \in Above /\ y..n \subseteq 1..n /\ x..n \subseteq 1..n
    OBVIOUS
  <2>4. y..n # x..n
    BY <2>2
  <2>5. <<y..n, x..n>> \in StrictSubsetOrdering(1..n)
    BY <2>2, <2>3, <2>4 DEF StrictSubsetOrdering
  <2> HIDE DEF Above
  <2> QED BY <2>3, <2>5, <1>2, <1>3
<1> QED BY <1>4

\* There is a table at any time.
LEMMA TableGiven ==
    ASSUME scenario \in DOMAIN Scenarios, NEW n \in 1..Len(Steps)
    PROVE  Table(n) \in [mds : Nat, ds : Nat]
<1>1. Steps \in Seq([mds : Nat, ds : Nat]) /\ Steps[1] # Nudge
  BY ConfigAssumption DEF Steps, Given
<1> DEFINE T == {i \in 1..n : Steps[i] # Nudge}
<1>2. Len(Steps) \in Nat /\ DOMAIN Steps = 1..Len(Steps)
  BY <1>1, LenProperties
<1>3. T \subseteq 1..n /\ 1 \in T /\ n \in Nat /\ 1..n \subseteq DOMAIN Steps
  BY <1>1, <1>2
<1>4. PICK i \in T : \A j \in T : j <= i
  <2> HIDE DEF T
  <2> QED BY <1>3, Greatest
<1>5. \A j \in i + 1..n : Steps[j] = Nudge
  <2> SUFFICES ASSUME NEW j \in i + 1..n, Steps[j] # Nudge PROVE FALSE
    OBVIOUS
  <2>1. j \in T
    BY <1>3
  <2> QED BY <1>4, <2>1
<1>6. LastTable(n) \in 1..n
  BY <1>4, <1>5 DEF LastTable
<1>7. Steps[LastTable(n)] \in [mds : Nat, ds : Nat]
  BY <1>1, <1>2, <1>3, <1>6, ElementOfSeq
<1> QED BY <1>7 DEF Table

\* Later steps of the administrator leave earlier tables as they were.
LEMMA TablesStay ==
    ASSUME UNCHANGED scenario
    PROVE  UNCHANGED Steps /\ \A n : Table(n)' = Table(n)
<1>1. UNCHANGED Steps
  BY DEF Steps, Given
<1>2. \A n : LastTable(n)' = LastTable(n)
  BY <1>1 DEF LastTable
<1> QED BY <1>1, <1>2 DEF Table

LEMMA RowsGiven ==
    ASSUME NEW table \in [mds : Nat, ds : Nat]
    PROVE  Rows(table) \in Seq(Row)
<1>1. [i \in 1..table.mds |-> <<"mds", i - 1>>] \in Seq(Row)
  BY table.mds \in Nat, \A i \in 1..table.mds : <<"mds", i - 1>> \in Row DEF Row
<1>2. [i \in 1..table.ds |-> <<"ds", i - 1>>] \in Seq(Row)
  BY table.ds \in Nat, \A i \in 1..table.ds : <<"ds", i - 1>> \in Row DEF Row
<1> QED BY <1>1, <1>2, ConcatProperties DEF Rows

LEMMA PageIsMessage ==
    ASSUME NEW rows \in Seq(Row), NEW offset \in Nat
    PROVE  /\ Page(rows, offset).what = "page"
           /\ Page(rows, offset).ok \in BOOLEAN
           /\ Page(rows, offset).rows \in Seq(Row)
           /\ Page(rows, offset) = [what |-> "page", ok |-> Page(rows, offset).ok,
                                    rows |-> Page(rows, offset).rows]
<1> DEFINE last == IF offset + PerPage < Len(rows) THEN offset + PerPage ELSE Len(rows)
<1>1. Len(rows) \in Nat /\ PerPage \in Nat /\ last \in Nat /\ last <= Len(rows)
  BY LenProperties, ConfigAssumption
<1>2. \A i \in offset + 1..last : rows[i] \in Row
  BY <1>1, ElementOfSeq
<1>3. SubSeq(rows, offset + 1, last) \in Seq(Row)
  <2> HIDE DEF last
  <2> QED BY <1>1, <1>2, SubSeqProperties
<1> QED BY <1>3 DEF Page

\* What is read is what the table begins with.
Begins(read, rows) == Len(read) <= Len(rows) /\ read = SubSeq(rows, 1, Len(read))

\* dbGetSrvrListing, hfsReadFSConfigFromServer: the page from where a reading of
\* a table has come to is there and continues it; when it is not full, the
\* reading is complete.
LEMMA PageContinues ==
    ASSUME NEW rows \in Seq(Row), NEW read \in Seq(Row), Begins(read, rows),
           NEW page, page = Page(rows, Len(read)), NEW further, further = read \o page.rows
    PROVE  /\ page.ok
           /\ further \in Seq(Row) /\ Begins(further, rows)
           /\ LastPage(page.rows) => further = rows
<1> DEFINE n == Len(read)
           last == IF n + PerPage < Len(rows) THEN n + PerPage ELSE Len(rows)
<1>1. /\ n \in Nat /\ Len(rows) \in Nat /\ PerPage \in Nat \ {0}
      /\ last \in n..Len(rows) /\ 1 \in 1..Len(rows) + 1 /\ n \in 1 - 1..Len(rows)
  BY LenProperties, ConfigAssumption DEF Begins
<1>2. page.rows = SubSeq(rows, n + 1, last) /\ page.ok = (n <= Len(rows))
  BY DEF Page
<1> HIDE DEF last
<1>3. further = SubSeq(rows, 1, last)
  BY <1>1, <1>2, ConcatAdjacentSubSeq DEF Begins
<1>4. \A i \in 1..last : rows[i] \in Row
  BY <1>1, ElementOfSeq
<1>5. further \in Seq(Row) /\ Len(further) = last
  BY <1>1, <1>3, <1>4, SubSeqProperties
<1>6. ASSUME LastPage(page.rows) PROVE last = Len(rows)
  <2>1. \A i \in n + 1..last : rows[i] \in Row
    BY <1>1, <1>4
  <2>2. Len(page.rows) = last - n
    <3>1. Len(SubSeq(rows, n + 1, last)) = IF n + 1 <= last THEN last - (n + 1) + 1 ELSE 0
      <4> HIDE DEF n
      <4> QED BY <1>1, <2>1, SubSeqProperties
    <3>2. last - (n + 1) + 1 = last - n /\ (n + 1 > last => last - n = 0)
      <4> HIDE DEF n
      <4> QED BY <1>1
    <3> HIDE DEF n
    <3> QED BY <1>1, <1>2, <3>1, <3>2
  <2> QED BY <1>1, <1>6, <2>2 DEF LastPage, last
<1>7. further = SubSeq(rows, 1, Len(further))
  BY <1>3, <1>5
<1>8. page.ok
  BY <1>2 DEF Begins
<1>9. Len(further) <= Len(rows)
  BY <1>1, <1>5
<1>10. SubSeq(rows, 1, Len(rows)) = rows
  BY SubSeqFull
<1>11. LastPage(page.rows) => further = rows
  BY <1>3, <1>6, <1>10
<1> QED BY <1>5, <1>7, <1>8, <1>9, <1>11 DEF Begins

-----------------------------------------------------------------------------
(* What is on its way to a thread *)

Kinds == {"extent", "page", "login1", "login2"}
Notes == [what : {"changed"}, ok : {FALSE}, rows : {<<>>}, n : Nat]
Msg == Notes \cup [what : Kinds, ok : BOOLEAN, rows : Seq(Row)]
Note(msg) == msg.what = "changed"

\* One message is the answer to a request at most, and none when it is still
\* waited for.
OneAnswer(wire, request) ==
    /\ \A i, j \in 1..Len(wire) : Note(wire[i]) \/ Note(wire[j]) \/ i = j
    /\ request # "none" => \A i \in 1..Len(wire) : Note(wire[i])

LEMMA NotesSayNo ==
    ASSUME NEW wire \in Seq(Msg), NEW i \in 1..Len(wire), Note(wire[i])
    PROVE  ~wire[i].ok
<1>1. wire[i] \in Notes
  <2>1. wire[i] \in Msg
    BY ElementOfSeq
  <2> QED BY <2>1 DEF Msg, Note, Kinds
<1>2. \A note \in Notes : note.ok = FALSE
  BY DEF Notes
<1> QED BY <1>1, <1>2

LEMMA NothingThere ==
    ASSUME NEW request PROVE OneAnswer(<<>>, request) /\ Len(<<>>) = 0
  BY DEF OneAnswer

\* All the messages of a wire it was true of, and the new one.
LEMMA Arrives ==
    ASSUME NEW wire \in Seq(Msg), NEW msg \in Msg, NEW longer, longer = Append(wire, msg)
    PROVE  /\ longer \in Seq(Msg)
           /\ \A i \in 1..Len(longer) : \/ i \in 1..Len(wire) /\ longer[i] = wire[i]
                                        \/ i = Len(wire) + 1 /\ longer[i] = msg
  BY AppendProperties, LenProperties

LEMMA NoteArrives ==
    ASSUME NEW wire \in Seq(Msg), NEW msg \in Notes, NEW request, OneAnswer(wire, request)
    PROVE  OneAnswer(Append(wire, msg), request)
<1>1. msg \in Msg /\ Note(msg)
  BY DEF Msg, Note, Notes
<1> DEFINE longer == Append(wire, msg)
<1>2. \A i \in 1..Len(longer) : \/ i \in 1..Len(wire) /\ longer[i] = wire[i]
                                \/ longer[i] = msg
  BY <1>1, Arrives
<1> HIDE DEF longer
<1>3. OneAnswer(longer, request)
  BY <1>1, <1>2 DEF OneAnswer
<1> QED BY <1>3 DEF longer

LEMMA AnswerArrives ==
    ASSUME NEW wire \in Seq(Msg), NEW msg \in Msg, NEW request,
           OneAnswer(wire, request), request # "none"
    PROVE  OneAnswer(Append(wire, msg), "none")
<1> DEFINE longer == Append(wire, msg)
<1>1. \A i \in 1..Len(longer) : \/ i \in 1..Len(wire) /\ longer[i] = wire[i]
                                \/ i = Len(wire) + 1 /\ longer[i] = msg
  BY Arrives
<1> HIDE DEF longer
<1>2. OneAnswer(longer, "none")
  BY <1>1 DEF OneAnswer
<1> QED BY <1>2 DEF longer

\* The first message is taken; when it was the answer, nothing else is one.
LEMMA HeadTaken ==
    ASSUME NEW wire \in Seq(Msg), wire # <<>>, NEW request, OneAnswer(wire, request),
           NEW rest, rest = Tail(wire)
    PROVE  /\ Head(wire) \in Msg /\ Head(wire) = wire[1] /\ 1 \in 1..Len(wire)
           /\ rest \in Seq(Msg)
           /\ \A i \in 1..Len(rest) : rest[i] = wire[i + 1] /\ i + 1 \in 1..Len(wire)
           /\ OneAnswer(rest, request)
           /\ ~Note(Head(wire)) => \A other : OneAnswer(rest, other)
<1>1. /\ Head(wire) \in Msg /\ rest \in Seq(Msg) /\ Len(rest) = Len(wire) - 1
      /\ \A i \in 1..Len(rest) : rest[i] = wire[i + 1]
  BY HeadTailProperties
<1>2. Len(wire) \in Nat \ {0} /\ Head(wire) = wire[1]
  BY EmptySeq
<1>3. \A i \in 1..Len(rest) : i + 1 \in 1..Len(wire) /\ i + 1 # 1
  BY <1>1, <1>2
<1>4. OneAnswer(rest, request)
  BY <1>1, <1>2, <1>3 DEF OneAnswer
<1>5. ASSUME ~Note(Head(wire)) PROVE \A other : OneAnswer(rest, other)
  <2>1. \A i \in 1..Len(rest) : Note(rest[i])
    BY <1>1, <1>2, <1>3, <1>5 DEF OneAnswer
  <2> QED BY <2>1 DEF OneAnswer
<1>6. 1 \in 1..Len(wire)
  BY <1>2
<1>7. \A i \in 1..Len(rest) : rest[i] = wire[i + 1] /\ i + 1 \in 1..Len(wire)
  BY <1>1, <1>3
<1> QED BY <1>1, <1>2, <1>4, <1>5, <1>6, <1>7

-----------------------------------------------------------------------------
(* The readings *)

Counts ==
    /\ scenario \in DOMAIN Scenarios
    /\ edits \in 1..Len(Steps) /\ used \in Threads
    /\ told \in Nat /\ heard \in Nat /\ heard <= told
    /\ dbErrors \in Nat /\ dbErrors <= Given.dbErrors
    /\ asked \in [Threads -> Kinds \cup {"none"}]
    /\ sock \in [Threads -> Seq(Msg)] /\ link \in [Threads -> Seq(Msg)]
    /\ ctx \in [Threads -> Seq(Row)] /\ until \in [Threads -> Nat]

\* hfsBuildFSContext_MDS: a request is waited for where it was made.
Asks(t) ==
    /\ asked[t] \in {"extent", "page"} => asked[t] = at[t]
    /\ asked[t] \in {"login1", "login2"} => at[t] = "login" /\ ctx[t] # <<>>

\* The connection a thread reads on brings notifications and one answer.
Sock(t) ==
    /\ sock[t] # <<>> => at[t] \in {"extent", "page"}
    /\ OneAnswer(sock[t], asked[t])
    /\ \A i \in 1..Len(sock[t]) : Note(sock[t][i]) \/ sock[t][i].what = at[t]

\* So does the one it logs in on; the others bring notifications.
Link(t) ==
    /\ link[t] # <<>> => Connected(t)
    /\ at[t] = "login" => OneAnswer(link[t], asked[t])
    /\ \A i \in 1..Len(link[t]) :
          IF Note(link[t][i]) THEN link[t][i].n <= told
          ELSE at[t] = "login" /\ link[t][i].what \in {"login1", "login2"}

\* The table a reading began with, which stays the same up to n.
All(t) == Rows(Table(since[t]))
Same(t, n) == \A m \in since[t]..n : Table(m) = Table(since[t])

\* hfsReadFSConfigFromServer: an undisturbed reading has the first rows of the
\* table, and what comes is the page that follows; at the end it has all.
Prefix(t) ==
    /\ Begins(ctx[t], All(t))
    /\ \A i \in 1..Len(sock[t]) : sock[t][i].ok => sock[t][i] = Page(All(t), Len(ctx[t]))
Exact(t) ==
    ~disturbed =>
        /\ at[t] = "extent" => ctx[t] = <<>>
        /\ at[t] = "page" /\ Same(t, edits) => Prefix(t)
        /\ at[t] \in {"connect", "swap"} /\ Same(t, until[t]) => ctx[t] = All(t)

Sound(t) == Asks(t) /\ Sock(t) /\ Link(t) /\ Exact(t)
ReadInv == UpdateInv /\ Counts /\ \A t \in Threads : Sound(t)

LEMMA InitRead == Init => ReadInv
<1> SUFFICES ASSUME Init PROVE ReadInv
  OBVIOUS
<1>1. UpdateInv
  BY InitUpdate
<1>2. Len(Steps) \in Nat \ {0}
  <2>1. Steps \in Seq([mds : Nat, ds : Nat]) /\ Steps # <<>>
    BY ConfigAssumption DEF Steps, Given, Init
  <2> QED BY <2>1, EmptySeq
<1>3. Given.dbErrors \in Nat
  BY ConfigAssumption DEF Given, Init
<1>4. Counts
  BY <1>2, <1>3, ThreadsApart DEF Init, Counts, Kinds, Closed
<1>5. ASSUME NEW t \in Threads PROVE Sound(t)
  <2>1. /\ at[t] \in {"open", "none"} /\ asked[t] = "none"
        /\ sock[t] = <<>> /\ link[t] = <<>>
    BY DEF Init, Closed
  <2>2. \A request : OneAnswer(<<>>, request) /\ Len(<<>>) = 0
    BY NothingThere
  <2> QED BY <2>1, <2>2 DEF Sound, Asks, Sock, Link, Exact
<1> QED BY <1>1, <1>4, <1>5 DEF ReadInv

\* What a reading is compared with stays as it is.
LEMMA ReadingStays ==
    ASSUME UNCHANGED scenario, NEW t, since'[t] = since[t]
    PROVE  All(t)' = All(t) /\ \A n : Same(t, n)' = Same(t, n)
  BY TablesStay DEF All, Same

\* The number of a notification.
LEMMA NoteCounted ==
    ASSUME ReadInv, NEW t \in Threads, NEW i \in 1..Len(link[t]), Note(link[t][i])
    PROVE  link[t][i].n \in Nat
<1>1. link[t][i] \in Msg
  BY ElementOfSeq DEF ReadInv, Counts
<1>2. link[t][i] \in Notes
  BY <1>1 DEF Msg, Note, Kinds
<1>3. \A note \in Notes : note.n \in Nat
  BY DEF Notes
<1> QED BY <1>2, <1>3

\* A thread that a step does not touch.
LEMMA OthersStay ==
    ASSUME ReadInv, NEW u \in Threads, UNCHANGED <<scenario, edits>>,
           told' \in Nat, told <= told', disturbed => disturbed',
           at'[u] = at[u], asked'[u] = asked[u], sock'[u] = sock[u], ctx'[u] = ctx[u],
           since'[u] = since[u], until'[u] = until[u],
           link'[u] = <<>> \/ (link'[u] = link[u] /\ (Connected(u) => Connected(u)'))
    PROVE  Sound(u)'
<1>1. Sound(u) /\ link[u] \in Seq(Msg) /\ told \in Nat
  BY DEF ReadInv, Counts
<1>2. Asks(u)' /\ Sock(u)'
  BY <1>1 DEF Sound, Asks, Sock
<1>3. Link(u)'
  <2>1. CASE link'[u] = <<>>
    BY <2>1, NothingThere DEF Link
  <2>2. CASE link'[u] = link[u] /\ (Connected(u) => Connected(u)')
    BY <1>1, <2>2, NoteCounted DEF Sound, Link
  <2> QED BY <2>1, <2>2
<1>4. Exact(u)'
  <2>1. All(u)' = All(u) /\ \A n : Same(u, n)' = Same(u, n)
    BY ReadingStays
  <2>2. Prefix(u) => Prefix(u)'
    BY <2>1 DEF Prefix
  <2> QED BY <1>1, <2>1, <2>2 DEF Sound, Exact
<1> QED BY <1>2, <1>3, <1>4 DEF Sound

-----------------------------------------------------------------------------
(* The root answers and notifies *)

\* A step of one thread.
LEMMA OneThread ==
    ASSUME ReadInv, NEW t \in Threads, UNCHANGED <<scenario, edits, told, conf, used>>,
           disturbed => disturbed', UpdateInv', Counts', Sound(t)',
           \A u \in Threads : u # t =>
              /\ at'[u] = at[u] /\ asked'[u] = asked[u] /\ sock'[u] = sock[u]
              /\ ctx'[u] = ctx[u] /\ since'[u] = since[u] /\ until'[u] = until[u]
              /\ link'[u] = link[u]
    PROVE  ReadInv'
<1>1. ASSUME NEW u \in Threads, u # t PROVE Sound(u)'
  <2>1. told' \in Nat /\ told <= told'
    BY DEF ReadInv, Counts
  <2>2. Connected(u)' = Connected(u)
    BY <1>1 DEF Connected
  <2> QED BY <1>1, <2>1, <2>2, OthersStay
<1> QED BY <1>1 DEF ReadInv

\* A request is answered: when it was for a page, by the one that follows what
\* was read.
LEMMA Replied ==
    ASSUME ReadInv, NEW t \in Threads, NEW msg \in Msg, Reply(t, msg),
           asked[t] # "none", msg.what = asked[t],
           dbErrors' \in Nat /\ dbErrors' <= Given.dbErrors,
           ~disturbed /\ at[t] = "page" /\ Same(t, edits) /\ msg.ok
              => msg = Page(All(t), Len(ctx[t]))
    PROVE  ReadInv'
<1> USE DEF admin
<1>1. /\ UNCHANGED <<scenario, edits, told, heard, at, ctx, conf, used, mutex, since, until,
                     newest, disturbed>>
      /\ asked' = [asked EXCEPT ![t] = "none"]
      /\ at[t] = "login" => /\ link' = [link EXCEPT ![t] = Append(@, msg)]
                            /\ UNCHANGED sock
      /\ at[t] # "login" => /\ sock' = [sock EXCEPT ![t] = Append(@, msg)]
                            /\ UNCHANGED link
  BY DEF Reply, history
<1>2. UpdateInv'
  BY <1>1, UpdateUnchanged DEF ReadInv
<1>3. /\ Sound(t) /\ Counts /\ asked[t] \in Kinds
      /\ sock[t] \in Seq(Msg) /\ link[t] \in Seq(Msg)
  BY DEF ReadInv, Counts
<1>4. Append(sock[t], msg) \in Seq(Msg) /\ Append(link[t], msg) \in Seq(Msg)
  BY <1>3, AppendProperties
<1>5. Counts'
  <2>1. UNCHANGED <<Steps, Given>>
    BY <1>1 DEF Steps, Given
  <2> QED BY <1>1, <1>3, <1>4, <2>1 DEF Counts
<1>6. \A u \in Threads : u # t => asked'[u] = asked[u] /\ sock'[u] = sock[u] /\ link'[u] = link[u]
  BY <1>1 DEF ReadInv, Counts
<1>7. asked'[t] = "none" /\ ~Note(msg)
  BY <1>1, <1>3 DEF Note, Kinds, Counts
<1>8. Asks(t)'
  BY <1>7 DEF Asks
<1>9. All(t)' = All(t) /\ \A n : Same(t, n)' = Same(t, n)
  BY <1>1, ReadingStays
<1>10. CASE at[t] = "login"
  <2>1. link'[t] = Append(link[t], msg) /\ sock'[t] = sock[t]
    BY <1>1, <1>10, <1>3 DEF Counts
  <2>2. asked[t] \in {"login1", "login2"} /\ sock[t] = <<>> /\ ctx[t] # <<>>
    BY <1>3, <1>10 DEF Sound, Asks, Sock, Kinds
  <2>3. Sock(t)'
    BY <2>1, <2>2, NothingThere DEF Sock
  <2>4. Link(t)'
    <3>1. OneAnswer(link'[t], "none")
      BY <1>3, <1>10, <2>1, AnswerArrives DEF Sound, Link
    <3>2. \A i \in 1..Len(link'[t]) : \/ i \in 1..Len(link[t]) /\ link'[t][i] = link[t][i]
                                      \/ link'[t][i] = msg
      BY <1>3, <2>1, Arrives
    <3>3. Connected(t)'
      BY <1>1, <1>10, <2>2 DEF Connected
    <3> QED BY <1>1, <1>3, <1>7, <1>10, <2>2, <3>1, <3>2, <3>3 DEF Sound, Link
  <2>5. Exact(t)'
    BY <1>1, <1>10 DEF Exact
  <2>6. Sound(t)'
    BY <1>8, <2>3, <2>4, <2>5 DEF Sound
  <2> QED BY <1>1, <1>2, <1>5, <1>6, <2>6, OneThread
<1>11. CASE at[t] # "login"
  <2>1. sock'[t] = Append(sock[t], msg) /\ link'[t] = link[t]
    BY <1>1, <1>11, <1>3 DEF Counts
  <2>2. asked[t] = at[t] /\ at[t] \in {"extent", "page"}
    BY <1>3, <1>11 DEF Sound, Asks, Kinds
  <2>3. \A i \in 1..Len(sock'[t]) : \/ i \in 1..Len(sock[t]) /\ sock'[t][i] = sock[t][i]
                                    \/ sock'[t][i] = msg
    BY <1>3, <2>1, Arrives
  <2>4. Sock(t)'
    <3>1. OneAnswer(sock'[t], "none")
      BY <1>3, <2>1, AnswerArrives DEF Sound, Sock
    <3> QED BY <1>1, <1>3, <1>7, <2>2, <2>3, <3>1 DEF Sound, Sock
  <2>5. Link(t)'
    <3>1. Connected(t)' = Connected(t)
      BY <1>1 DEF Connected
    <3> QED BY <1>1, <1>3, <1>11, <2>1, <3>1 DEF Sound, Link
  <2>6. Exact(t)'
    <3>1. ASSUME ~disturbed, at[t] = "page", Same(t, edits) PROVE Prefix(t)'
      <4>1. Prefix(t)
        BY <1>3, <3>1 DEF Sound, Exact
      <4>2. msg.ok => msg = Page(All(t), Len(ctx[t]))
        BY <3>1
      <4> QED BY <1>1, <1>9, <2>3, <4>1, <4>2 DEF Prefix
    <3> QED BY <1>1, <1>3, <1>9, <3>1 DEF Sound, Exact
  <2>7. Sound(t)'
    BY <1>8, <2>4, <2>5, <2>6 DEF Sound
  <2> QED BY <1>1, <1>2, <1>5, <1>6, <2>7, OneThread
<1> QED BY <1>10, <1>11

\* A table the administrator has made, and its rows.
LEMMA RowsThere ==
    ASSUME ReadInv
    PROVE  /\ \A n \in 1..Len(Steps) : Rows(Table(n)) \in Seq(Row)
           /\ \A t \in Threads : at[t] \in Reading /\ Same(t, edits) =>
                 Table(edits) = Table(since[t]) /\ All(t) \in Seq(Row)
<1>1. \A n \in 1..Len(Steps) : Rows(Table(n)) \in Seq(Row)
  <2> SUFFICES ASSUME NEW n \in 1..Len(Steps) PROVE Rows(Table(n)) \in Seq(Row)
    OBVIOUS
  <2>1. Table(n) \in [mds : Nat, ds : Nat]
    BY TableGiven DEF ReadInv, Counts
  <2> HIDE DEF Table
  <2> QED BY <2>1, RowsGiven
<1>2. ASSUME NEW t \in Threads, at[t] \in Reading, Same(t, edits)
      PROVE  Table(edits) = Table(since[t]) /\ All(t) \in Seq(Row)
  <2>1. since[t] \in Nat /\ since[t] <= edits /\ edits \in 1..Len(Steps)
    BY <1>2 DEF ReadInv, UpdateInv, NotOvertaken, Types, Counts
  <2>2. Table(edits) = Table(since[t])
    BY <1>2, <2>1 DEF Same
  <2> QED BY <1>1, <2>1, <2>2 DEF All
<1> QED BY <1>1, <1>2

LEMMA ServeSound ==
    ASSUME ReadInv, NEW t \in Threads, Serve(t) PROVE ReadInv'
<1> DEFINE msg == Answer(t)
<1>1. asked[t] \in Kinds /\ ctx[t] \in Seq(Row) /\ Len(ctx[t]) \in Nat /\ Sound(t)
  <2>1. asked[t] \in Kinds /\ ctx[t] \in Seq(Row) /\ Sound(t)
    BY DEF Serve, ReadInv, Counts
  <2> QED BY <2>1, LenProperties
<1>2. dbErrors' \in Nat /\ dbErrors' <= Given.dbErrors
  BY DEF Serve, ReadInv, Counts
<1>3. CASE asked[t] = "page"
  <2>1. msg = Page(Rows(Table(edits)), Len(ctx[t])) /\ Rows(Table(edits)) \in Seq(Row)
    BY <1>3, RowsThere DEF Answer, ReadInv, Counts
  <2>2. msg \in Msg /\ msg.what = "page"
    BY <1>1, <2>1, PageIsMessage DEF Msg, Kinds
  <2>3. Same(t, edits) => Rows(Table(edits)) = All(t)
    BY <1>1, <1>3, RowsThere DEF Sound, Asks, Reading, All
  <2> QED BY <1>2, <1>3, <2>1, <2>2, <2>3, Replied DEF Serve
<1>4. CASE asked[t] # "page"
  <2>1. msg = [what |-> asked[t], ok |-> asked[t] = "login2" => Given.password, rows |-> <<>>]
    BY <1>4 DEF Answer
  <2>2. msg \in Msg /\ msg.what = asked[t]
    BY <1>1, <2>1, EmptySeq DEF Msg
  <2>3. at[t] # "page"
    BY <1>1, <1>4 DEF Sound, Asks, Kinds
  <2> QED BY <1>2, <1>4, <2>2, <2>3, Replied DEF Serve
<1> QED BY <1>3, <1>4

LEMMA QueryFailsSound ==
    ASSUME ReadInv, NEW t \in Threads, QueryFails(t) PROVE ReadInv'
<1> DEFINE msg == [what |-> asked[t], ok |-> FALSE, rows |-> <<>>]
<1>1. msg \in Msg /\ msg.what = asked[t] /\ msg.ok = FALSE
  BY EmptySeq DEF QueryFails, Msg, Kinds
<1>2. dbErrors' \in Nat /\ dbErrors' <= Given.dbErrors
  <2>1. Given.dbErrors \in Nat
    BY ConfigAssumption DEF Given, ReadInv, Counts
  <2> QED BY <2>1 DEF QueryFails, ReadInv, Counts
<1>3. asked[t] # "none" /\ Reply(t, msg)
  BY DEF QueryFails
<1> HIDE DEF msg
<1> QED BY <1>1, <1>2, <1>3, Replied

LEMMA NotifySound ==
    ASSUME ReadInv, UpdateInv', Notify PROVE ReadInv'
<1>1. /\ UNCHANGED <<scenario, edits, dbErrors, at, asked, ctx, conf, used, since, until,
                     heard, disturbed>>
      /\ told' = told + 1 /\ told \in Nat /\ heard <= told /\ heard \in Nat
  BY DEF Notify, history, ReadInv, Counts
<1>2. Changed \in Notes /\ Changed \in Msg /\ Note(Changed) /\ Changed.n <= told'
      /\ Changed.ok = FALSE
  BY <1>1 DEF Changed, Notes, Msg, Note
<1>3. ASSUME NEW t \in Threads
      PROVE  /\ sock[t] \in Seq(Msg) /\ link[t] \in Seq(Msg) /\ Sound(t)
             /\ sock'[t] \in {sock[t], Append(sock[t], Changed)}
             /\ link'[t] = IF Connected(t) THEN Append(link[t], Changed) ELSE link[t]
             /\ sock'[t] # sock[t] => at[t] \in {"extent", "page"}
  BY DEF Notify, Reads, ReadInv, Counts
<1> HIDE DEF Changed
<1>4. ASSUME NEW t \in Threads PROVE sock'[t] \in Seq(Msg) /\ link'[t] \in Seq(Msg)
  <2>1. Append(sock[t], Changed) \in Seq(Msg) /\ Append(link[t], Changed) \in Seq(Msg)
    BY <1>2, <1>3, AppendProperties
  <2> QED BY <1>3, <2>1
<1>5. Counts'
  <2>1. UNCHANGED <<Steps, Given>>
    BY <1>1 DEF Steps, Given
  <2>2. sock' \in [Threads -> Seq(Msg)] /\ link' \in [Threads -> Seq(Msg)]
    BY <1>4 DEF Notify
  <2> QED BY <1>1, <2>1, <2>2 DEF ReadInv, Counts
<1>6. ASSUME NEW t \in Threads PROVE Sound(t)'
  <2>1. Asks(t)'
    BY <1>1, <1>3 DEF Sound, Asks
  <2>2. \A i \in 1..Len(sock'[t]) : \/ i \in 1..Len(sock[t]) /\ sock'[t][i] = sock[t][i]
                                    \/ sock'[t][i] = Changed
    BY <1>2, <1>3, Arrives
  <2>3. OneAnswer(sock'[t], asked[t])
    BY <1>2, <1>3, NoteArrives DEF Sound, Sock
  <2>4. Sock(t)'
    BY <1>1, <1>2, <1>3, <2>2, <2>3 DEF Sound, Sock
  <2>5. Connected(t)' = Connected(t)
    BY <1>1 DEF Connected
  <2>6. \A i \in 1..Len(link'[t]) : \/ i \in 1..Len(link[t]) /\ link'[t][i] = link[t][i]
                                    \/ link'[t][i] = Changed
    <3>1. CASE Connected(t)
      <4>1. link'[t] = Append(link[t], Changed) /\ link[t] \in Seq(Msg)
        BY <1>3, <3>1
      <4> QED BY <1>2, <4>1, Arrives
    <3>2. CASE ~Connected(t)
      BY <1>3, <3>2
    <3> QED BY <3>1, <3>2
  <2>7. at[t] = "login" => OneAnswer(link'[t], asked[t])
    BY <1>2, <1>3, NoteArrives DEF Sound, Link
  <2>8. ASSUME NEW i \in 1..Len(link[t]), Note(link[t][i]) PROVE link[t][i].n <= told'
    BY <1>1, <1>3, <2>8, NoteCounted DEF Sound, Link
  <2>9. Link(t)'
    BY <1>1, <1>2, <1>3, <2>5, <2>6, <2>7, <2>8 DEF Sound, Link
  <2>10. All(t)' = All(t) /\ \A n : Same(t, n)' = Same(t, n)
    BY <1>1, ReadingStays
  <2>11. Prefix(t) => Prefix(t)'
    BY <1>1, <1>2, <2>2, <2>10 DEF Prefix
  <2>12. Exact(t)'
    BY <1>1, <1>3, <2>10, <2>11 DEF Sound, Exact
  <2> QED BY <2>1, <2>4, <2>9, <2>12 DEF Sound
<1> QED BY <1>5, <1>6 DEF ReadInv

\* A new table makes the readings that are under way inexact.
LEMMA EditSound ==
    ASSUME ReadInv, UpdateInv', Edit PROVE ReadInv'
<1>1. /\ UNCHANGED <<scenario, told, dbErrors, at, asked, sock, ctx, link, conf, used,
                     heard, since, until, disturbed>>
      /\ edits' = edits + 1 /\ edits < Len(Steps) /\ edits \in 1..Len(Steps)
  BY DEF Edit, root, reading, history, ReadInv, Counts
<1>2. UNCHANGED <<Steps, Given>> /\ Len(Steps) \in Nat
  <2>1. Steps \in Seq([mds : Nat, ds : Nat])
    BY ConfigAssumption DEF Steps, Given, ReadInv, Counts
  <2> QED BY <1>1, <2>1, LenProperties DEF Steps, Given
<1>3. Counts'
  BY <1>1, <1>2 DEF ReadInv, Counts
<1>4. ASSUME NEW t \in Threads PROVE Sound(t)'
  <2>1. Sound(t) /\ since[t] \in Nat
    BY DEF ReadInv, UpdateInv, Types
  <2>2. Asks(t)' /\ Sock(t)'
    BY <1>1, <2>1 DEF Sound, Asks, Sock
  <2>3. Link(t)'
    <3>1. Connected(t)' = Connected(t)
      BY <1>1 DEF Connected
    <3> QED BY <1>1, <2>1, <3>1 DEF Sound, Link
  <2>4. All(t)' = All(t) /\ \A n : Same(t, n)' = Same(t, n)
    BY <1>1, ReadingStays
  <2>5. Same(t, edits + 1) => Same(t, edits)
    BY <1>1, <2>1 DEF Same
  <2>6. Prefix(t) => Prefix(t)'
    BY <1>1, <2>4 DEF Prefix
  <2>7. Exact(t)'
    BY <1>1, <2>1, <2>4, <2>5, <2>6 DEF Sound, Exact
  <2> QED BY <2>2, <2>3, <2>7 DEF Sound
<1> QED BY <1>3, <1>4 DEF ReadInv

LEMMA NothingSound ==
    ASSUME ReadInv, UpdateInv', Die \/ UNCHANGED vars PROVE ReadInv'
<1>1. UNCHANGED <<scenario, edits, told, dbErrors, at, asked, sock, ctx, link, conf, used,
                  heard, since, until, disturbed>>
  BY DEF Die, vars, admin, root, reading, history
<1>2. Counts'
  BY <1>1 DEF ReadInv, Counts, Steps, Given
<1>3. ASSUME NEW t \in Threads PROVE Sound(t)'
  <2>1. told' \in Nat /\ told <= told' /\ Connected(t)' = Connected(t)
    BY <1>1 DEF ReadInv, Counts, Connected
  <2> QED BY <1>1, <2>1, OthersStay
<1> QED BY <1>2, <1>3 DEF ReadInv

-----------------------------------------------------------------------------
(* The threads read, connect and swap *)

\* A thread that is at rest, or starts over.
LEMMA AtRest ==
    ASSUME ReadInv, NEW t \in Threads, at'[t] \in {"none", "lock", "left", "open"},
           asked'[t] = "none", sock'[t] = <<>>, UNCHANGED told,
           \/ link'[t] = <<>>
           \/ link'[t] = link[t] /\ at[t] # "login" /\ (link[t] # <<>> => Connected(t)')
    PROVE  Sound(t)'
<1>1. Sound(t)
  BY DEF ReadInv
<1>2. Asks(t)' /\ Sock(t)' /\ Exact(t)'
  BY NothingThere DEF Asks, Sock, Exact
<1>3. Link(t)'
  <2>1. CASE link'[t] = <<>>
    BY <2>1, NothingThere DEF Link
  <2>2. CASE link'[t] = link[t] /\ at[t] # "login" /\ (link[t] # <<>> => Connected(t)')
    BY <1>1, <2>2 DEF Sound, Link
  <2> QED BY <2>1, <2>2
<1> QED BY <1>2, <1>3 DEF Sound

\* Where nothing has been asked and nothing is read.
LEMMA Quiet ==
    ASSUME ReadInv, NEW t \in Threads, at[t] \notin {"extent", "page"}
    PROVE  /\ sock[t] = <<>>
           /\ at[t] # "login" => asked[t] = "none"
           /\ at[t] \notin {"login", "swap"} /\ link[t] # <<>> => t = used /\ conf # <<>>
<1>1. Sound(t) /\ asked[t] \in Kinds \cup {"none"}
  BY DEF ReadInv, Counts
<1>2. sock[t] = <<>>
  BY <1>1 DEF Sound, Sock
<1>3. at[t] # "login" => asked[t] = "none"
  BY <1>1 DEF Sound, Asks, Kinds
<1>4. at[t] \notin {"login", "swap"} /\ link[t] # <<>> => t = used /\ conf # <<>>
  BY <1>1 DEF Sound, Link, Connected
<1> QED BY <1>2, <1>3, <1>4

LEMMA OpenSound ==
    ASSUME ReadInv, UpdateInv', NEW t \in Threads, Open(t) PROVE ReadInv'
<1>1. /\ UNCHANGED <<scenario, edits, told, dbErrors, heard, conf, used, sock, link, until,
                     disturbed>>
      /\ at[t] = "open" /\ at' = [at EXCEPT ![t] = "extent"]
      /\ asked' = [asked EXCEPT ![t] = "extent"]
      /\ ctx' = [ctx EXCEPT ![t] = <<>>] /\ since' = [since EXCEPT ![t] = edits]
  BY DEF Open, Own, Go, Ask, admin, root
<1>2. Counts'
  <2>1. UNCHANGED <<Steps, Given>> /\ <<>> \in Seq(Row)
    BY <1>1, EmptySeq DEF Steps, Given
  <2> QED BY <1>1, <2>1 DEF ReadInv, Counts, Kinds
<1>3. at'[t] = "extent" /\ asked'[t] = "extent" /\ ctx'[t] = <<>> /\ sock'[t] = <<>>
  BY <1>1, Quiet DEF ReadInv, Counts, UpdateInv, Types
<1>4. Asks(t)' /\ Sock(t)' /\ Exact(t)'
  BY <1>3, NothingThere DEF Asks, Sock, Exact
<1>5. Link(t)'
  <2>1. link[t] # <<>> => Connected(t)'
    BY <1>1, Quiet DEF Connected
  <2> QED BY <1>1, <1>3, <2>1 DEF ReadInv, Sound, Link
<1>6. Sound(t)'
  BY <1>4, <1>5 DEF Sound
<1> QED BY <1>1, <1>2, <1>6, OneThread DEF ReadInv, Counts, UpdateInv, Types

LEMMA ReadFailsSound ==
    ASSUME ReadInv, UpdateInv', NEW t \in Threads, ReadFails(t), disturbed => disturbed',
           at[t] \in {"open", "extent", "page"}
    PROVE  ReadInv'
<1>1. /\ UNCHANGED <<scenario, edits, told, dbErrors, heard, conf, used, link>>
      /\ sock' = [sock EXCEPT ![t] = <<>>]
      /\ asked' = [asked EXCEPT ![t] = "none"]
      /\ at' \in {[at EXCEPT ![t] = "open"], [at EXCEPT ![t] = "none"]}
      /\ ctx' \in {ctx, [ctx EXCEPT ![t] = <<>>]}
      /\ since' \in {since, [since EXCEPT ![t] = 0]}
      /\ until' \in {until, [until EXCEPT ![t] = 0]}
  BY DEF ReadFails, Close, Closed, Go, Ask, End, admin, root
<1>2. Counts'
  <2>1. UNCHANGED <<Steps, Given>> /\ <<>> \in Seq(Row) /\ <<>> \in Seq(Msg)
    BY <1>1, EmptySeq DEF Steps, Given
  <2>2. sock' \in [Threads -> Seq(Msg)] /\ asked' \in [Threads -> Kinds \cup {"none"}]
    BY <1>1, <2>1 DEF ReadInv, Counts
  <2>3. ctx' \in [Threads -> Seq(Row)]
    BY <1>1, <2>1 DEF ReadInv, Counts
  <2>4. until' \in [Threads -> Nat]
    BY <1>1 DEF ReadInv, Counts
  <2> QED BY <1>1, <2>1, <2>2, <2>3, <2>4 DEF ReadInv, Counts
<1>3. at'[t] \in {"open", "none"} /\ asked'[t] = "none" /\ sock'[t] = <<>>
  BY <1>1 DEF ReadInv, Counts, UpdateInv, Types
<1>4. link[t] # <<>> => Connected(t)'
  BY <1>1 DEF ReadInv, Sound, Link, Connected
<1>5. Sound(t)'
  BY <1>1, <1>3, <1>4, AtRest
<1>6. \A u \in Threads : u # t =>
         /\ at'[u] = at[u] /\ asked'[u] = asked[u] /\ sock'[u] = sock[u]
         /\ ctx'[u] = ctx[u] /\ since'[u] = since[u] /\ until'[u] = until[u]
         /\ link'[u] = link[u]
  BY <1>1 DEF ReadInv, Counts, UpdateInv, Types
<1> QED BY <1>1, <1>2, <1>5, <1>6, OneThread

LEMMA GotExtentSound ==
    ASSUME ReadInv, UpdateInv', NEW t \in Threads, GotExtent(t) PROVE ReadInv'
<1> DEFINE msg == Head(sock[t])
<1>1. /\ at[t] = "extent" /\ sock[t] # <<>> /\ sock[t] \in Seq(Msg) /\ Sound(t)
      /\ disturbed' = (disturbed \/ msg.what = "changed")
  BY DEF GotExtent, ReadInv, Counts
<1>2. CASE ~(msg.what = "extent" /\ msg.ok)
  <2>1. ReadFails(t)
    BY <1>2 DEF GotExtent
  <2> QED BY <1>1, <2>1, ReadFailsSound
<1>3. CASE msg.what = "extent" /\ msg.ok
  <2>1. /\ UNCHANGED <<scenario, edits, told, dbErrors, heard, conf, used, link, ctx, since, until>>
        /\ sock' = [sock EXCEPT ![t] = Tail(sock[t])]
        /\ asked' = [asked EXCEPT ![t] = "page"]
        /\ at' = [at EXCEPT ![t] = "page"]
    BY <1>3 DEF GotExtent, Go, Ask, Own, admin, root
  <2>2. /\ sock'[t] = Tail(sock[t]) /\ asked'[t] = "page" /\ at'[t] = "page"
        /\ ctx'[t] = ctx[t]
    BY <2>1 DEF ReadInv, Counts, UpdateInv, Types
  <2>3. /\ sock'[t] \in Seq(Msg) /\ OneAnswer(sock'[t], "page")
    BY <1>1, <1>3, <2>2, HeadTaken DEF Sound, Sock, Note
  <2>4. \A i \in 1..Len(sock'[t]) : Note(sock'[t][i])
    BY <2>3 DEF OneAnswer
  <2>5. Counts'
    <3>1. UNCHANGED <<Steps, Given>>
      BY <2>1 DEF Steps, Given
    <3> QED BY <2>1, <2>2, <2>3, <3>1 DEF ReadInv, Counts, Kinds
  <2>6. Asks(t)' /\ Sock(t)'
    BY <2>2, <2>3, <2>4 DEF Asks, Sock
  <2>7. Link(t)'
    BY <1>1, <2>1, <2>2 DEF Sound, Link, Connected
  <2>8. Exact(t)'
    <3>1. All(t)' = All(t) /\ \A n : Same(t, n)' = Same(t, n)
      BY <2>1, ReadingStays
    <3>2. ASSUME ~disturbed', Same(t, edits) PROVE Prefix(t)'
      <4>1. All(t) \in Seq(Row) /\ ctx[t] = <<>>
        BY <1>1, <3>2, RowsThere DEF Sound, Exact, Reading
      <4>2. Len(All(t)) \in Nat /\ SubSeq(All(t), 1, 0) = <<>> /\ Len(<<>>) = 0
        BY <4>1, LenProperties, SubSeqEmpty
      <4>3. \A i \in 1..Len(sock'[t]) : ~sock'[t][i].ok
        BY <2>3, <2>4, NotesSayNo
      <4> QED BY <2>2, <3>1, <4>1, <4>2, <4>3 DEF Prefix, Begins
    <3> QED BY <2>1, <2>2, <3>1, <3>2 DEF Exact
  <2>9. Sound(t)'
    BY <2>6, <2>7, <2>8 DEF Sound
  <2>10. \A u \in Threads : u # t =>
         /\ at'[u] = at[u] /\ asked'[u] = asked[u] /\ sock'[u] = sock[u]
         /\ ctx'[u] = ctx[u] /\ since'[u] = since[u] /\ until'[u] = until[u]
         /\ link'[u] = link[u]
    BY <2>1 DEF ReadInv, Counts, UpdateInv, Types
  <2> QED BY <1>1, <2>1, <2>5, <2>9, <2>10, OneThread
<1> QED BY <1>2, <1>3

LEMMA GotPageSound ==
    ASSUME ReadInv, UpdateInv', NEW t \in Threads, GotPage(t) PROVE ReadInv'
<1> DEFINE msg == Head(sock[t])
<1>1. /\ at[t] = "page" /\ sock[t] # <<>> /\ sock[t] \in Seq(Msg) /\ Sound(t)
      /\ disturbed' = (disturbed \/ msg.what = "changed")
      /\ ctx[t] \in Seq(Row)
  BY DEF GotPage, ReadInv, Counts
<1>2. CASE msg.what = "page" /\ ~msg.ok
  <2>1. ReadFails(t)
    BY <1>2 DEF GotPage
  <2> QED BY <1>1, <2>1, ReadFailsSound
<1>3. CASE ~(msg.what = "page" /\ ~msg.ok)
  <2>1. /\ UNCHANGED <<scenario, edits, told, dbErrors, heard, conf, used, link, since>>
        /\ ctx' = [ctx EXCEPT ![t] = ctx[t] \o msg.rows]
        /\ LastPage(msg.rows) => /\ at' = [at EXCEPT ![t] = "connect"]
                                 /\ sock' = [sock EXCEPT ![t] = <<>>]
                                 /\ asked' = [asked EXCEPT ![t] = "none"]
                                 /\ until' = [until EXCEPT ![t] = edits]
        /\ ~LastPage(msg.rows) => /\ sock' = [sock EXCEPT ![t] = Tail(sock[t])]
                                  /\ asked' = [asked EXCEPT ![t] = "page"]
                                  /\ UNCHANGED <<at, until>>
    BY <1>3 DEF GotPage, Go, Ask, Own, Close, Closed, admin, root
  <2>2. /\ msg \in Msg /\ Tail(sock[t]) \in Seq(Msg)
        /\ ~Note(msg) => /\ OneAnswer(Tail(sock[t]), "page")
                         /\ msg.what = "page"
    BY <1>1, HeadTaken DEF Sound, Sock
  <2>3. msg.rows \in Seq(Row) /\ (Note(msg) => LastPage(msg.rows))
    <3>1. CASE Note(msg)
      <4>1. msg \in Notes
        BY <2>2, <3>1 DEF Msg, Note, Kinds
      <4>2. msg.rows = <<>> /\ Len(<<>>) = 0 /\ <<>> \in Seq(Row)
        BY <4>1, EmptySeq DEF Notes
      <4> QED BY <4>2, ConfigAssumption DEF LastPage
    <3>2. CASE ~Note(msg)
      <4>1. msg \in [what : Kinds, ok : BOOLEAN, rows : Seq(Row)]
        BY <2>2, <3>2 DEF Msg, Notes, Note
      <4> QED BY <3>2, <4>1
    <3> QED BY <3>1, <3>2
  <2>4. ctx[t] \o msg.rows \in Seq(Row)
    BY <1>1, <2>3, ConcatProperties
  <2>5. ctx'[t] = ctx[t] \o msg.rows
    BY <2>1 DEF ReadInv, Counts
  <2>6. All(t)' = All(t) /\ \A n : Same(t, n)' = Same(t, n)
    BY <2>1, ReadingStays
  <2>7. ASSUME ~disturbed', Same(t, edits)
        PROVE  /\ ~Note(msg)
               /\ Begins(ctx'[t], All(t))
               /\ LastPage(msg.rows) => ctx'[t] = All(t)
    <3>1. Prefix(t) /\ ~Note(msg)
      BY <1>1, <2>7 DEF Sound, Exact, Note
    <3>2. msg.ok /\ msg = sock[t][1] /\ 1 \in 1..Len(sock[t])
      BY <1>1, <1>3, <2>2, <3>1, HeadTaken DEF Sound, Sock
    <3>3. msg = Page(All(t), Len(ctx[t]))
      BY <3>1, <3>2 DEF Prefix
    <3>4. All(t) \in Seq(Row)
      BY <1>1, <2>7, RowsThere DEF Reading
    <3>5. Begins(ctx[t], All(t))
      BY <3>1 DEF Prefix
    <3> HIDE DEF msg
    <3>6. ctx[t] \in Seq(Row)
      BY <1>1
    <3>7. Begins(ctx'[t], All(t))
      BY <2>5, <3>3, <3>4, <3>5, <3>6, PageContinues
    <3>8. \A page, further : /\ page = Page(All(t), Len(ctx[t]))
                             /\ further = ctx[t] \o page.rows
                             /\ LastPage(page.rows)
                             => further = All(t)
      BY <3>4, <3>5, <3>6, PageContinues
    <3>9. LastPage(msg.rows) => ctx'[t] = All(t)
      BY <2>5, <3>3, <3>8
    <3> QED BY <3>1, <3>7, <3>9
  <2>8. Link(t)'
    <3>1. link[t] # <<>> => Connected(t)'
      BY <1>1, <2>1 DEF Sound, Link, Connected
    <3>2. at'[t] # "login"
      BY <1>1, <2>1 DEF ReadInv, UpdateInv, Types
    <3> QED BY <1>1, <2>1, <3>1, <3>2 DEF Sound, Link
  <2>9. \A u \in Threads : u # t =>
         /\ at'[u] = at[u] /\ asked'[u] = asked[u] /\ sock'[u] = sock[u]
         /\ ctx'[u] = ctx[u] /\ since'[u] = since[u] /\ until'[u] = until[u]
         /\ link'[u] = link[u]
    BY <2>1 DEF ReadInv, Counts, UpdateInv, Types
  <2>10. Counts'
    <3>1. UNCHANGED <<Steps, Given>> /\ <<>> \in Seq(Msg)
      BY <2>1, EmptySeq DEF Steps, Given
    <3>2. ctx' \in [Threads -> Seq(Row)]
      BY <2>1, <2>4 DEF ReadInv, Counts
    <3>3. sock' \in [Threads -> Seq(Msg)]
      BY <2>1, <2>2, <3>1 DEF ReadInv, Counts
    <3>4. asked' \in [Threads -> Kinds \cup {"none"}]
      BY <2>1 DEF ReadInv, Counts, Kinds
    <3>5. edits \in Nat
      BY DEF ReadInv, UpdateInv, Types
    <3>6. until' \in [Threads -> Nat]
      BY <2>1, <3>5 DEF ReadInv, Counts
    <3> QED BY <2>1, <3>1, <3>2, <3>3, <3>4, <3>6 DEF ReadInv, Counts
  <2>11. CASE LastPage(msg.rows)
    <3>1. /\ at'[t] = "connect" /\ sock'[t] = <<>> /\ asked'[t] = "none" /\ until'[t] = edits
      BY <2>1, <2>11 DEF ReadInv, Counts, UpdateInv, Types
    <3>2. Asks(t)' /\ Sock(t)'
      BY <3>1, NothingThere DEF Asks, Sock
    <3>3. Exact(t)'
      BY <2>1, <2>6, <2>7, <2>11, <3>1 DEF Exact
    <3>4. Sound(t)'
      BY <2>8, <3>2, <3>3 DEF Sound
    <3> QED BY <1>1, <2>1, <2>9, <2>10, <3>4, OneThread
  <2>12. CASE ~LastPage(msg.rows)
    <3>1. at'[t] = "page" /\ sock'[t] = Tail(sock[t]) /\ asked'[t] = "page"
      BY <1>1, <2>1, <2>12 DEF ReadInv, Counts
    <3>2. sock'[t] \in Seq(Msg) /\ OneAnswer(sock'[t], "page")
      BY <2>2, <2>3, <2>12, <3>1
    <3>3. \A i \in 1..Len(sock'[t]) : Note(sock'[t][i])
      BY <3>2 DEF OneAnswer
    <3>4. Asks(t)' /\ Sock(t)'
      BY <3>1, <3>2, <3>3 DEF Asks, Sock
    <3>5. \A i \in 1..Len(sock'[t]) : ~sock'[t][i].ok
      BY <3>2, <3>3, NotesSayNo
    <3>6. Exact(t)'
      BY <2>1, <2>6, <2>7, <3>1, <3>5 DEF Exact, Prefix
    <3>7. Sound(t)'
      BY <2>8, <3>4, <3>6 DEF Sound
    <3> QED BY <1>1, <2>1, <2>9, <2>10, <3>7, OneThread
  <2> QED BY <2>11, <2>12
<1> QED BY <1>2, <1>3

LEMMA ConnectSound ==
    ASSUME ReadInv, UpdateInv', NEW t \in Threads, Connect(t) PROVE ReadInv'
<1> DEFINE place == IF t = Mount THEN "login" ELSE "swap"
           what == IF t = Mount /\ ctx[t] # <<>> THEN "login1" ELSE "none"
<1>1. /\ UNCHANGED <<scenario, edits, told, dbErrors, heard, conf, used, sock, ctx, since,
                     until, disturbed>>
      /\ at[t] = "connect" /\ at' = [at EXCEPT ![t] = place]
      /\ asked' = [asked EXCEPT ![t] = what] /\ link' = [link EXCEPT ![t] = <<>>]
      /\ Sound(t)
  BY DEF Connect, Own, Go, Ask, admin, root, ReadInv
<1>2. at'[t] = place /\ asked'[t] = what /\ link'[t] = <<>> /\ sock'[t] = <<>>
  BY <1>1, Quiet DEF ReadInv, Counts, UpdateInv, Types
<1>3. Counts'
  <2>1. UNCHANGED <<Steps, Given>> /\ <<>> \in Seq(Msg)
    BY <1>1, EmptySeq DEF Steps, Given
  <2>2. asked' \in [Threads -> Kinds \cup {"none"}]
    BY <1>1 DEF ReadInv, Counts, Kinds
  <2>3. link' \in [Threads -> Seq(Msg)]
    BY <1>1, <2>1 DEF ReadInv, Counts
  <2> QED BY <1>1, <2>1, <2>2, <2>3 DEF ReadInv, Counts
<1>4. Asks(t)' /\ Sock(t)' /\ Link(t)'
  BY <1>1, <1>2, NothingThere DEF Asks, Sock, Link
<1>5. Exact(t)'
  <2>1. All(t)' = All(t) /\ \A n : Same(t, n)' = Same(t, n)
    BY <1>1, ReadingStays
  <2> QED BY <1>1, <1>2, <2>1 DEF Sound, Exact
<1>6. Sound(t)'
  BY <1>4, <1>5 DEF Sound
<1>7. \A u \in Threads : u # t =>
         /\ at'[u] = at[u] /\ asked'[u] = asked[u] /\ sock'[u] = sock[u]
         /\ ctx'[u] = ctx[u] /\ since'[u] = since[u] /\ until'[u] = until[u]
         /\ link'[u] = link[u]
  BY <1>1 DEF ReadInv, Counts, UpdateInv, Types
<1> QED BY <1>1, <1>3, <1>6, <1>7, OneThread

\* A thread is through: what it leaves behind.
LEMMA Ended ==
    ASSUME ReadInv, NEW t \in Threads, End(t), UNCHANGED <<scenario, edits, told, dbErrors>>,
           sock[t] = <<>>, UNCHANGED <<sock, heard>>,
           used' \in Threads, link' \in [Threads -> Seq(Msg)]
    PROVE  /\ Counts' /\ at'[t] = "none" /\ asked'[t] = "none" /\ sock'[t] = <<>>
           /\ \A u \in Threads : u # t =>
                /\ at'[u] = at[u] /\ asked'[u] = asked[u] /\ sock'[u] = sock[u]
                /\ ctx'[u] = ctx[u] /\ since'[u] = since[u] /\ until'[u] = until[u]
<1>1. UNCHANGED <<Steps, Given>> /\ <<>> \in Seq(Row)
  BY EmptySeq DEF Steps, Given
<1>2. /\ at' = [at EXCEPT ![t] = "none"] /\ ctx' = [ctx EXCEPT ![t] = <<>>]
      /\ since' = [since EXCEPT ![t] = 0] /\ until' = [until EXCEPT ![t] = 0]
      /\ asked' = [asked EXCEPT ![t] = "none"]
  BY DEF End, Go
<1>3. ctx' \in [Threads -> Seq(Row)] /\ until' \in [Threads -> Nat]
      /\ asked' \in [Threads -> Kinds \cup {"none"}]
  BY <1>1, <1>2 DEF ReadInv, Counts
<1>4. Counts'
  BY <1>1, <1>3 DEF ReadInv, Counts
<1> QED BY <1>2, <1>4 DEF ReadInv, Counts, UpdateInv, Types

LEMMA ConnectFailsSound ==
    ASSUME ReadInv, UpdateInv', NEW t \in Threads, ConnectFails(t) PROVE ReadInv'
<1>1. /\ UNCHANGED <<scenario, edits, told, dbErrors, heard, conf, used, sock, link, disturbed>>
      /\ at[t] = "connect" /\ End(t) /\ sock[t] = <<>>
  BY Quiet DEF ConnectFails, admin, root
<1>2. used' \in Threads /\ link' \in [Threads -> Seq(Msg)]
  BY <1>1 DEF ReadInv, Counts
<1>3. /\ Counts' /\ at'[t] = "none" /\ asked'[t] = "none" /\ sock'[t] = <<>>
      /\ \A u \in Threads : u # t =>
            /\ at'[u] = at[u] /\ asked'[u] = asked[u] /\ sock'[u] = sock[u]
            /\ ctx'[u] = ctx[u] /\ since'[u] = since[u] /\ until'[u] = until[u]
  BY <1>1, <1>2, Ended
<1>4. link[t] # <<>> => Connected(t)'
  BY <1>1, Quiet DEF Connected
<1>5. Sound(t)'
  BY <1>1, <1>3, <1>4, AtRest
<1> QED BY <1>1, <1>3, <1>5, OneThread

\* A thread puts what it has read in place of the connections in use.
LEMMA Adopted ==
    ASSUME ReadInv, UpdateInv', NEW t \in Threads, Adopt(t), End(t),
           UNCHANGED <<scenario, edits, told, dbErrors, heard, sock>>, disturbed => disturbed',
           at[t] \in {"login", "swap"}, link' \in [Threads -> Seq(Msg)],
           \A u \in Threads : u # t => \/ link'[u] = <<>>
                                       \/ link'[u] = link[u] /\ (u = used => conf = <<>>),
           \/ link'[t] = <<>>
           \/ link'[t] = link[t] /\ at[t] = "swap" /\ t # used
           \/ at[t] = "login" /\ ctx[t] # <<>> /\ \A i \in 1..Len(link'[t]) :
                Note(link'[t][i]) /\ link'[t][i].n <= told
    PROVE  ReadInv'
<1>1. conf' = ctx[t] /\ used' = t /\ sock[t] = <<>> /\ Sound(t)
  BY Quiet DEF Adopt, ReadInv
<1>2. /\ Counts' /\ at'[t] = "none" /\ asked'[t] = "none" /\ sock'[t] = <<>>
      /\ \A u \in Threads : u # t =>
            /\ at'[u] = at[u] /\ asked'[u] = asked[u] /\ sock'[u] = sock[u]
            /\ ctx'[u] = ctx[u] /\ since'[u] = since[u] /\ until'[u] = until[u]
  BY <1>1, Ended
<1>3. Sound(t)'
  <2>1. CASE at[t] = "swap" /\ link'[t] = link[t] /\ t # used
    <3>1. ASSUME link[t] # <<>> PROVE Connected(t)'
      <4>1. conf' # <<>>
        BY <1>1, <2>1, <3>1 DEF Sound, Link, Connected
      <4> QED BY <1>1, <4>1 DEF Connected
    <3> QED BY <1>2, <2>1, <3>1, AtRest
  <2>2. CASE link'[t] = <<>>
    BY <1>2, <2>2, AtRest
  <2>3. CASE at[t] = "login" /\ ctx[t] # <<>> /\ \A i \in 1..Len(link'[t]) :
                Note(link'[t][i]) /\ link'[t][i].n <= told
    <3>1. Connected(t)'
      BY <1>1, <2>3 DEF Connected
    <3>2. Link(t)'
      BY <1>2, <2>3, <3>1 DEF Link
    <3>3. Asks(t)' /\ Sock(t)' /\ Exact(t)'
      BY <1>2, NothingThere DEF Asks, Sock, Exact
    <3> QED BY <3>2, <3>3 DEF Sound
  <2> QED BY <2>1, <2>2, <2>3
<1>4. ASSUME NEW u \in Threads, u # t PROVE Sound(u)'
  <2>1. told' \in Nat /\ told <= told'
    BY DEF ReadInv, Counts
  <2>2. CASE link'[u] = <<>>
    BY <1>2, <1>4, <2>1, <2>2, OthersStay
  <2>3. CASE link'[u] = link[u] /\ (u = used => conf = <<>>)
    <3>1. Connected(u) => Connected(u)'
      BY <1>2, <1>4, <2>3 DEF Connected
    <3> QED BY <1>2, <1>4, <2>1, <2>3, <3>1, OthersStay
  <2> QED BY <1>4, <2>2, <2>3
<1> QED BY <1>2, <1>3, <1>4 DEF ReadInv

LEMMA SwapSound ==
    ASSUME ReadInv, UpdateInv', NEW t \in Threads, Swap(t) PROVE ReadInv'
<1>1. /\ UNCHANGED <<scenario, edits, told, dbErrors, heard, sock, disturbed>>
      /\ at[t] = "swap" /\ Adopt(t) /\ End(t)
      /\ link' = [link EXCEPT ![used] = <<>>]
  BY DEF Swap, Closed, admin, root
<1>2. link' \in [Threads -> Seq(Msg)] /\ link'[used] = <<>>
      /\ \A u \in Threads : u # used => link'[u] = link[u]
  BY <1>1, EmptySeq DEF ReadInv, Counts
<1> QED BY <1>1, <1>2, Adopted

LEMMA SwapFailsSound ==
    ASSUME ReadInv, UpdateInv', NEW t \in Threads, SwapFails(t) PROVE ReadInv'
<1>1. /\ UNCHANGED <<scenario, edits, told, dbErrors, heard, conf, used, sock>>
      /\ disturbed' /\ at[t] = "swap" /\ End(t) /\ sock[t] = <<>>
      /\ link' = [link EXCEPT ![t] = <<>>]
  BY Quiet DEF SwapFails, Closed, admin, root
<1>2. /\ used' \in Threads /\ link' \in [Threads -> Seq(Msg)] /\ link'[t] = <<>>
      /\ \A u \in Threads : u # t => link'[u] = link[u]
  BY <1>1, EmptySeq DEF ReadInv, Counts
<1>3. /\ Counts' /\ at'[t] = "none" /\ asked'[t] = "none" /\ sock'[t] = <<>>
      /\ \A u \in Threads : u # t =>
            /\ at'[u] = at[u] /\ asked'[u] = asked[u] /\ sock'[u] = sock[u]
            /\ ctx'[u] = ctx[u] /\ since'[u] = since[u] /\ until'[u] = until[u]
  BY <1>1, <1>2, Ended
<1>4. Sound(t)'
  BY <1>1, <1>2, <1>3, AtRest
<1> QED BY <1>1, <1>2, <1>3, <1>4, OneThread

LEMMA LockSound ==
    ASSUME ReadInv, UpdateInv', NEW t \in Threads, Lock(t) PROVE ReadInv'
<1>1. PICK place \in {"left", "open"} :
         /\ UNCHANGED <<scenario, edits, told, dbErrors, heard, conf, used, asked, sock, link, ctx,
                        since, until, disturbed>>
         /\ at[t] = "lock" /\ at' = [at EXCEPT ![t] = place]
  BY DEF Lock, Go, admin, root, reading, history
<1>2. Counts'
  BY <1>1 DEF ReadInv, Counts, Steps, Given
<1>3. at'[t] = place /\ asked'[t] = "none" /\ sock'[t] = <<>>
  BY <1>1, Quiet DEF ReadInv, UpdateInv, Types
<1>4. link[t] # <<>> => Connected(t)'
  BY <1>1, Quiet DEF Connected
<1>5. Sound(t)'
  BY <1>1, <1>3, <1>4, AtRest
<1> QED BY <1>1, <1>2, <1>5, OneThread DEF ReadInv, UpdateInv, Types

\* The inbound thread reads what is on the connections in use: notifications.
LEMMA HearSound ==
    ASSUME ReadInv, UpdateInv', NEW t \in Threads, Hear(t) PROVE ReadInv'
<1>1. /\ UNCHANGED <<scenario, edits, told, dbErrors, conf, used, asked, sock, ctx,
                     since, until, disturbed>>
      /\ conf # <<>> /\ link[used] # <<>> /\ at[t] = "none" /\ t # used
      /\ at' = [at EXCEPT ![t] = "lock"]
      /\ heard' = Head(link[used]).n
      /\ link' = [link EXCEPT ![used] = Tail(link[used])]
  BY DEF Hear, Mounted, Go, admin, root, reading
<1>2. /\ used \in Threads /\ link[used] \in Seq(Msg) /\ Sound(used) /\ told \in Nat
  BY DEF ReadInv, Counts
<1>3. at[used] # "login"
  BY <1>1, <1>2 DEF ReadInv, UpdateInv, MountFirst, Threads
<1>4. \A i \in 1..Len(link[used]) : Note(link[used][i]) /\ link[used][i].n <= told
  BY <1>2, <1>3 DEF Sound, Link
<1>5. /\ Head(link[used]) = link[used][1] /\ 1 \in 1..Len(link[used])
      /\ Tail(link[used]) \in Seq(Msg)
      /\ \A i \in 1..Len(Tail(link[used])) : /\ Tail(link[used])[i] = link[used][i + 1]
                                             /\ i + 1 \in 1..Len(link[used])
  <2>1. Len(link[used]) \in Nat \ {0}
    BY <1>1, <1>2, EmptySeq
  <2>2. Tail(link[used]) \in Seq(Msg) /\ Len(Tail(link[used])) = Len(link[used]) - 1
        /\ \A i \in 1..Len(Tail(link[used])) : Tail(link[used])[i] = link[used][i + 1]
    BY <1>1, <1>2, HeadTailProperties
  <2>3. \A i \in 1..Len(Tail(link[used])) : i + 1 \in 1..Len(link[used])
    BY <2>1, <2>2
  <2>4. Head(link[used]) = link[used][1] /\ 1 \in 1..Len(link[used])
    BY <1>1, <1>2, <2>1
  <2> QED BY <2>2, <2>3, <2>4
<1>6. heard' \in Nat /\ heard' <= told
  BY <1>1, <1>2, <1>4, <1>5, NoteCounted
<1>7. /\ link'[used] = Tail(link[used]) /\ at'[used] = at[used] /\ at'[t] = "lock"
      /\ \A u \in Threads : u # t => at'[u] = at[u]
      /\ \A u \in Threads : u # used => link'[u] = link[u]
  BY <1>1, <1>2 DEF ReadInv, Counts, UpdateInv, Types
<1>8. Counts'
  <2>1. link' \in [Threads -> Seq(Msg)]
    BY <1>1, <1>5 DEF ReadInv, Counts
  <2> QED BY <1>1, <1>2, <1>6, <2>1 DEF ReadInv, Counts, Steps, Given
<1>9. Sound(t)'
  <2>1. asked'[t] = "none" /\ sock'[t] = <<>> /\ link'[t] = <<>>
    BY <1>1, <1>7, Quiet
  <2> QED BY <1>1, <1>7, <2>1, AtRest
<1>10. ASSUME NEW user \in Threads, user = used PROVE Sound(user)'
  <2>1. Asks(user)' /\ Sock(user)'
    BY <1>1, <1>10, <1>2, <1>7 DEF Sound, Asks, Sock
  <2>2. Link(user)'
    <3>1. Connected(user)'
      BY <1>1, <1>10 DEF Connected
    <3>2. \A i \in 1..Len(link'[user]) : Note(link'[user][i]) /\ link'[user][i].n <= told
      BY <1>4, <1>5, <1>7, <1>10
    <3>3. at'[user] # "login" /\ told' = told
      BY <1>1, <1>3, <1>7, <1>10
    <3> QED BY <3>1, <3>2, <3>3 DEF Link
  <2>3. Exact(user)'
    <3>1. All(user)' = All(user) /\ \A n : Same(used, n)' = Same(used, n)
      BY <1>1, <1>10, ReadingStays
    <3>2. Prefix(user) => Prefix(user)'
      BY <1>1, <1>10, <3>1 DEF Prefix
    <3> QED BY <1>1, <1>10, <1>2, <1>7, <3>1, <3>2 DEF Sound, Exact
  <2> QED BY <2>1, <2>2, <2>3 DEF Sound
<1>11. ASSUME NEW u \in Threads, u # t, u # used PROVE Sound(u)'
  <2>1. told' \in Nat /\ told <= told' /\ Connected(u)' = Connected(u)
    BY <1>1, <1>2, <1>7, <1>11 DEF Connected
  <2> QED BY <1>1, <1>7, <1>11, <2>1, OthersStay
<1> QED BY <1>8, <1>9, <1>10, <1>11 DEF ReadInv

\* The two phases of the login.
LEMMA GotLoginSound ==
    ASSUME ReadInv, UpdateInv', GotLogin PROVE ReadInv'
<1> DEFINE msg == IF ctx[Mount] = <<>> THEN [what |-> "none", ok |-> FALSE] ELSE Head(link[Mount])
<1>1. /\ UNCHANGED <<scenario, edits, told, dbErrors, heard, sock>>
      /\ at[Mount] = "login" /\ (link[Mount] # <<>> \/ ctx[Mount] = <<>>)
      /\ disturbed' = (disturbed \/ msg.what = "changed")
      /\ link' = [link EXCEPT ![Mount] = IF msg.ok THEN Tail(link[Mount]) ELSE <<>>]
      /\ IF msg.what = "login1" /\ msg.ok
         THEN /\ asked' = [asked EXCEPT ![Mount] = "login2"]
              /\ UNCHANGED <<at, ctx, since, until, conf, used>>
         ELSE /\ End(Mount)
              /\ IF msg.what = "login2" /\ msg.ok THEN Adopt(Mount) ELSE UNCHANGED <<conf, used>>
  BY DEF GotLogin, Ask, Closed, admin, root
<1>2. /\ Mount \in Threads /\ Sound(Mount) /\ link[Mount] \in Seq(Msg) /\ sock[Mount] = <<>>
      /\ conf = <<>> /\ told \in Nat
  BY <1>1, ThreadsApart, Quiet DEF ReadInv, Counts, UpdateInv, MountFirst
<1>3. /\ msg.ok => /\ ctx[Mount] # <<>> /\ ~Note(msg) /\ msg.what \in {"login1", "login2"}
                   /\ link[Mount] # <<>>
  <2> SUFFICES ASSUME msg.ok PROVE /\ ctx[Mount] # <<>> /\ ~Note(msg)
                                   /\ msg.what \in {"login1", "login2"}
                                   /\ link[Mount] # <<>>
    OBVIOUS
  <2>1. ctx[Mount] # <<>> /\ link[Mount] # <<>>
    BY <1>1
  <2>2. msg = Head(link[Mount])
    BY <2>1
  <2> HIDE DEF msg
  <2>3. msg = link[Mount][1] /\ 1 \in 1..Len(link[Mount])
    BY <1>1, <1>2, <2>1, <2>2, HeadTaken DEF Sound, Link
  <2>4. ~Note(msg)
    BY <1>2, <2>3, NotesSayNo
  <2>5. msg.what \in {"login1", "login2"}
    BY <1>2, <2>3, <2>4 DEF Sound, Link
  <2> QED BY <2>1, <2>4, <2>5
<1>4. /\ link' \in [Threads -> Seq(Msg)]
      /\ \A u \in Threads : u # Mount => link'[u] = link[u]
      /\ ~msg.ok => link'[Mount] = <<>>
      /\ msg.ok => link'[Mount] = Tail(link[Mount])
  <2>1. link[Mount] # <<>> => Tail(link[Mount]) \in Seq(Msg)
    BY <1>2, HeadTailProperties
  <2>2. (IF msg.ok THEN Tail(link[Mount]) ELSE <<>>) \in Seq(Msg)
    BY <1>3, <2>1, EmptySeq
  <2>3. \A u \in Threads : u # Mount => link'[u] = link[u]
    BY <1>1 DEF ReadInv, Counts
  <2>4. link'[Mount] = IF msg.ok THEN Tail(link[Mount]) ELSE <<>>
    BY <1>1, <1>2 DEF ReadInv, Counts
  <2> HIDE DEF msg
  <2> QED BY <1>1, <2>2, <2>3, <2>4 DEF ReadInv, Counts
<1>5. ASSUME msg.ok
      PROVE  /\ \A request : OneAnswer(link'[Mount], request)
             /\ \A i \in 1..Len(link'[Mount]) : Note(link'[Mount][i]) /\ link'[Mount][i].n <= told
  <2>1. msg = Head(link[Mount]) /\ link[Mount] # <<>> /\ link'[Mount] = Tail(link[Mount])
    BY <1>3, <1>4, <1>5
  <2>2. OneAnswer(link[Mount], asked[Mount]) /\ ~Note(Head(link[Mount]))
    BY <1>1, <1>2, <1>3, <1>5, <2>1 DEF Sound, Link
  <2>3. /\ \A request : OneAnswer(link'[Mount], request)
        /\ \A i \in 1..Len(link'[Mount]) : /\ link'[Mount][i] = link[Mount][i + 1]
                                           /\ i + 1 \in 1..Len(link[Mount])
    BY <1>2, <2>1, <2>2, HeadTaken
  <2>4. \A i \in 1..Len(link'[Mount]) : Note(link'[Mount][i])
    <3>1. OneAnswer(link'[Mount], "page")
      BY <2>3
    <3> QED BY <3>1 DEF OneAnswer
  <2>5. \A i \in 1..Len(link'[Mount]) : link'[Mount][i].n <= told
    BY <1>2, <2>3, <2>4 DEF Sound, Link
  <2> QED BY <2>3, <2>4, <2>5
<1>6. disturbed => disturbed'
  BY <1>1
<1>7. CASE msg.what = "login1" /\ msg.ok
  <2>1. /\ asked' = [asked EXCEPT ![Mount] = "login2"]
        /\ UNCHANGED <<at, ctx, since, until, conf, used>>
    BY <1>1, <1>7
  <2>2. asked'[Mount] = "login2" /\ \A u \in Threads : u # Mount => asked'[u] = asked[u]
    BY <1>2, <2>1 DEF ReadInv, Counts
  <2>3. Counts'
    <3>1. asked' \in [Threads -> Kinds \cup {"none"}]
      BY <2>1 DEF ReadInv, Counts, Kinds
    <3> QED BY <1>1, <1>4, <2>1, <3>1 DEF ReadInv, Counts, Steps, Given
  <2>4. Asks(Mount)' /\ Sock(Mount)' /\ Exact(Mount)'
    BY <1>1, <1>2, <1>3, <1>7, <2>1, <2>2, NothingThere DEF Asks, Sock, Exact
  <2>5. Link(Mount)'
    <3>1. Connected(Mount)'
      BY <1>1, <1>3, <1>7, <2>1 DEF Connected
    <3> HIDE DEF msg
    <3> QED BY <1>1, <1>5, <1>7, <3>1 DEF Link
  <2>6. Sound(Mount)'
    BY <2>4, <2>5 DEF Sound
  <2> QED BY <1>1, <1>2, <1>4, <1>6, <2>1, <2>2, <2>3, <2>6, OneThread
<1>8. CASE End(Mount) /\ Adopt(Mount) /\ msg.ok
  BY <1>1, <1>2, <1>3, <1>4, <1>5, <1>6, <1>8, Adopted
<1>9. CASE End(Mount) /\ ~msg.ok /\ UNCHANGED <<conf, used>>
  <2>1. used' \in Threads
    BY <1>9 DEF ReadInv, Counts
  <2>2. /\ Counts' /\ at'[Mount] = "none" /\ asked'[Mount] = "none" /\ sock'[Mount] = <<>>
        /\ \A u \in Threads : u # Mount =>
              /\ at'[u] = at[u] /\ asked'[u] = asked[u] /\ sock'[u] = sock[u]
              /\ ctx'[u] = ctx[u] /\ since'[u] = since[u] /\ until'[u] = until[u]
    BY <1>1, <1>2, <1>4, <1>9, <2>1, Ended
  <2>3. Sound(Mount)'
    BY <1>1, <1>2, <1>4, <1>9, <2>2, AtRest
  <2> QED BY <1>1, <1>2, <1>4, <1>6, <1>9, <2>2, <2>3, OneThread
<1>10. msg.ok => msg.what \in {"login1", "login2"}
  BY <1>3
<1> HIDE DEF msg
<1> QED BY <1>1, <1>7, <1>8, <1>9, <1>10

\* Every step keeps the readings sound.
LEMMA ReadInductive == ReadInv /\ [Next]_vars => ReadInv'
<1> SUFFICES ASSUME ReadInv, [Next]_vars PROVE ReadInv'
  OBVIOUS
<1>1. UpdateInv'
  BY UpdateInductive DEF ReadInv
<1>2. ASSUME NEW t \in Threads, OpenFails(t) PROVE ReadInv'
  BY <1>1, <1>2, ReadFailsSound DEF OpenFails
<1> QED BY <1>1, <1>2, ThreadsApart, EditSound, NotifySound, NothingSound, HearSound, LockSound,
           ServeSound, QueryFailsSound, OpenSound, GotExtentSound, GotPageSound, ConnectSound,
           ConnectFailsSound, SwapSound, SwapFailsSound, GotLoginSound
  DEF Next, Step

LEMMA AlwaysSound == Spec => []ReadInv
  BY InitRead, ReadInductive, PTL DEF Spec

\* TypeOK: a thread that reads has configUpdateMutex, only the connections in
\* use or about to be are open, and what has been heard had been told.
THEOREM ConfigurationTyped == Spec => []TypeOK
<1>1. ReadInv => TypeOK
  BY DEF ReadInv, UpdateInv, OneInside, Inside, Counts, Sound, Sock, Link, TypeOK
<1> QED BY <1>1, AlwaysSound, PTL

\* ReadsExact: hfsReadFSConfigFromServer, undisturbed, gives the table the
\* administrator made, for any numbers of servers and any size of a page, the
\* full last page included.
THEOREM ReadingsExact == Spec => []ReadsExact
<1>1. ReadInv => ReadsExact
  <2> SUFFICES ASSUME ReadInv, NEW t \in Threads, at[t] \in {"connect", "swap"}, ~disturbed,
                      \A n \in since[t]..until[t] : Table(n) = Table(since[t])
               PROVE  ctx[t] = Rows(Table(since[t]))
    BY DEF ReadsExact
  <2>1. Exact(t) /\ Same(t, until[t])
    BY DEF ReadInv, Sound, Same
  <2> QED BY <2>1 DEF Exact, All
<1> QED BY <1>1, AlwaysSound, PTL
=============================================================================
