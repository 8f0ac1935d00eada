------------------------- MODULE FileCreate_proofs -------------------------
(***************************************************************************)
(* Proofs about FileCreate, for any clients, servers, calls and failures.  *)
(* A client that is making a file owns the inode it has allocated: nobody  *)
(* else knows it (Owned), and only its owner sets its attributes (Sets).   *)
(* A name is given to it when they are set, and from then on they stay     *)
(* (Settled), so that whoever finds the name finds them whole.  A data     *)
(* server gives out a handle to the holder of its lock, which has read the *)
(* counter as it still is (Draws).                                         *)
(***************************************************************************)
EXTENDS FileCreate, FiniteSetTheorems, SequenceTheorems, TLAPS

\* Records of the form of a job and of a client's variables.
JobShaped(j) == j = [at |-> j.at, srv |-> j.srv, cmd |-> j.cmd, rows |-> j.rows,
                     status |-> j.status]
MyShaped(m) == m = [pos |-> m.pos, dir |-> m.dir, first |-> m.first, rows |-> m.rows,
                    new |-> m.new, read |-> m.read]
Shaped ==
    /\ DOMAIN job = Clients /\ \A c \in Clients : JobShaped(job[c])
    /\ DOMAIN my = Clients /\ \A c \in Clients : MyShaped(my[c])
    /\ DOMAIN at = Clients /\ DOMAIN script = Clients
    /\ result \in [Servers -> Clients \cup {Nobody}]
    /\ lock \in [Servers -> Clients \cup {Nobody}]
    /\ dlock \in [DataServers -> Clients \cup {Nobody}]
    /\ scenario \in DOMAIN Scenarios /\ diskErrors \in 0..Given.diskErrors

Waiting == {"name", "entries", "inode", "handles", "checked", "free", "max"}
Locked == {"select free", "free", "select max", "max", "insert inode"}

\* What a client asks for where it is in its call, and how far the handler is.
Serves(c, op, steps) == Cmd(c).op = op /\ job[c].at \in steps \cup {"answered"}
Obeys(c) ==
    \/ at[c] \in {"idle", "extents", "counted", "next page"} /\ job[c] = NoJob
    \/ at[c] \in {"walk", "parent"} /\ Serves(c, "lookup", {"select name", "name"})
       /\ Pair(c) \in Pairs
    \/ at[c] = "list" /\ Serves(c, "readdir", {"select entries", "entries"})
    \/ at[c] = "attributes of"
       /\ Serves(c, "getattr", {"select inode", "inode", "select handles", "handles"})
    \/ at[c] = "inode" /\ Serves(c, "alloc", {"lock"} \cup Locked)
       /\ Pair(c) \in Pairs
       /\ (job[c].at \in {"max", "insert inode"} => job[c].rows[1] \in Nat)
    \/ at[c] = "attributes"
       /\ Serves(c, "setattr", {"update inode", "check handles", "checked", "insert handle"})
    \/ at[c] = "name" /\ Serves(c, "add", {"insert name"})

\* A result waits for the client whose handler is to store it; a lock is held by
\* one that allocates.
HoldsRequest(c) ==
    \A s \in Servers : /\ result[s] = c => Srv(c) = s /\ job[c].at \in Waiting
                       /\ lock[s] = c => Srv(c) = s /\ job[c].at \in Locked
Holds(c) ==
    /\ HoldsRequest(c)
    /\ \A d \in DataServers : dlock[d] = c <=> at[c] = "counted" /\ d = NextServer(c)

-----------------------------------------------------------------------------
(* The tables and the files *)

Tables ==
    /\ DOMAIN inode = Pairs /\ DOMAIN extents = Pairs /\ DOMAIN names = Pairs
    /\ \A p \in Pairs :
          /\ DOMAIN inode[p] \subseteq Nat /\ IsFiniteSet(DOMAIN inode[p])
          /\ Root \in DOMAIN inode[p] /\ DOMAIN extents[p] \subseteq DOMAIN inode[p]
          /\ \A h \in DOMAIN inode[p] :
                inode[p][h] \in [mode : {"none", "dir", "file"}, stripes : {0, Stripes}]
          /\ names[p] \in Seq(Range(names[p]))
Disks ==
    /\ DOMAIN counter = DataServers /\ DOMAIN file = DataServers
    /\ \A d \in DataServers : counter[d] \in Nat /\ DOMAIN file[d] \subseteq 1..counter[d]

\* hfs_create_alloc_data_handle: where the extents of a file are, each another's.
Extent == [srv : DataServers, hdl : Int]
Laid(rows, f) == \A i \in 1..Len(rows) : rows[i].srv = Placement(f, i - 1)
Apart(rows) ==
    \A i, j \in 1..Len(rows) : rows[i] = rows[j] => i = j \/ rows[i].hdl \in {Invalid, Lost}
Rows(c) == my[c].rows
Draws(c) ==
    at[c] \in {"extents", "counted"} =>
        /\ Call(c).op # "mkdir" /\ my[c].first \in DataServers
        /\ Rows(c) \in Seq(Extent) /\ Len(Rows(c)) <= Copies
        /\ Laid(Rows(c), my[c].first) /\ Apart(Rows(c))
        /\ \A i \in 1..Len(Rows(c)) :
              /\ Rows(c)[i].hdl \in {Invalid, Lost} \cup DOMAIN file[Rows(c)[i].srv]
              /\ diskErrors = 0 => Rows(c)[i].hdl # Invalid
        /\ at[c] = "counted" => Len(Rows(c)) < Copies /\ my[c].read = counter[NextServer(c)]
Drawn(c) ==
    at[c] \in {"inode", "attributes"} =>
        /\ Rows(c) \in Seq(Extent)
        /\ Len(Rows(c)) = IF Call(c).op = "mkdir" THEN 0 ELSE Copies
        /\ \E f \in DataServers : Laid(Rows(c), f)
        /\ Apart(Rows(c)) /\ \A i \in 1..Len(Rows(c)) : Rows(c)[i].hdl # Lost

-----------------------------------------------------------------------------
(* Who knows an inode *)

\* The inode a call has allocated: nobody else has.
Owns(c, p, h) ==
    \/ at[c] = "inode" /\ Succeeded(c) /\ p = Pair(c) /\ h = job[c].rows[1]
    \/ at[c] \in {"attributes", "name"} /\ p = my[c].new.pair /\ h = my[c].new.handle
OwnsFresh(c) ==
    \A p, h : Owns(c, p, h) =>
        /\ p \in Pairs /\ h \in DOMAIN inode[p] /\ h # Root
        /\ at[c] = "inode" => HandlesOf(p, h) = <<>>
OneOwner == \A c, d \in Clients : \A p, h : Owns(c, p, h) /\ Owns(d, p, h) => c = d

\* dbSetAttr, in the middle of it or after a part of it.
Begins(rows, all) == Len(rows) \in 0..Len(all) /\ rows = SubSeq(all, 1, Len(rows))
Sets(c) ==
    at[c] = "attributes" =>
        LET p == my[c].new.pair
            h == my[c].new.handle
            rows == HandlesOf(p, h)
        IN /\ Pair(c) = p /\ Cmd(c).file = h /\ Cmd(c).extents = Rows(c)
           /\ Cmd(c).mode = IF Call(c).op = "mkdir" THEN "dir" ELSE "file"
           /\ Cmd(c).stripes = Len(Rows(c)) \div 2
           /\ Begins(rows, Rows(c))
           /\ job[c].at \in {"check handles", "checked", "insert handle"} \/ Succeeded(c) =>
                 inode[p][h] = [mode |-> Cmd(c).mode, stripes |-> Cmd(c).stripes]
           /\ job[c].at \in {"checked", "insert handle"} => job[c].rows = rows
           /\ job[c].at = "insert handle" => Len(rows) < Len(Rows(c))
           /\ Succeeded(c) => rows = Rows(c)

\* A file whose attributes are set, and will not be again.
Complete(p, h) ==
    /\ p \in Pairs /\ h \in DOMAIN inode[p] /\ inode[p][h].mode # "none"
    /\ Len(HandlesOf(p, h)) = 2 * inode[p][h].stripes
    /\ \A i, j \in 1..Len(HandlesOf(p, h)) :
          HandlesOf(p, h)[i] = HandlesOf(p, h)[j] => i = j \/ HandlesOf(p, h)[i].hdl = Invalid
Settled(p, h) == Complete(p, h) /\ \A d \in Clients : Owns(d, p, h) => at[d] = "name"

\* Whatever has a name is settled, and so is whatever a lookup gives.
NamesSettled ==
    /\ Settled(RootPair, Root)
    /\ \A p \in Pairs : \A i \in DOMAIN names[p] : Settled(names[p][i].home, names[p][i].file)
LooksUp(c) ==
    at[c] \in {"walk", "parent"} =>
        /\ Succeeded(c) => job[c].rows # <<>>
        /\ (job[c].at = "name" \/ Succeeded(c)) /\ job[c].rows # <<>> =>
              Settled(job[c].rows[1].home, job[c].rows[1].file)
Names(c) ==
    at[c] = "name" =>
        /\ Complete(my[c].new.pair, my[c].new.handle)
        /\ Cmd(c).file = my[c].new.handle /\ Cmd(c).home = my[c].new.pair
Examines(c) ==
    at[c] = "attributes of" =>
        /\ Settled(Pair(c), Cmd(c).file)
        /\ job[c].at \in {"inode", "select handles"} =>
              job[c].rows = <<inode[Pair(c)][Cmd(c).file]>>
        /\ job[c].at = "handles" \/ Succeeded(c) =>
              job[c].rows = <<inode[Pair(c)][Cmd(c).file]>> \o HandlesOf(Pair(c), Cmd(c).file)

LaidOut ==
    \A p \in Pairs : \A h \in DOMAIN inode[p] :
        /\ HandlesOf(p, h) \in Seq(Extent)
        /\ \E f \in DataServers : Laid(HandlesOf(p, h), f)

Sound(c) ==
    /\ Obeys(c) /\ Holds(c) /\ Draws(c) /\ Drawn(c)
    /\ OwnsFresh(c) /\ Sets(c) /\ LooksUp(c) /\ Names(c) /\ Examines(c)
CreateInv ==
    /\ Shaped /\ Tables /\ Disks /\ LaidOut
    /\ OneOwner /\ NamesSettled /\ \A c \in Clients : Sound(c)

-----------------------------------------------------------------------------
(* Where extents are *)

LEMMA CountsOfCopies ==
    /\ DSCount \in Nat /\ Stripes \in Nat /\ Stripes >= 3 /\ Stripes <= DSCount
    /\ Copies = 2 * Stripes /\ Copies \div 2 = Stripes
  BY DataAssumption, CreateAssumption DEF Stripes, Copies

LEMMA Remainder ==
    ASSUME NEW a \in Nat, NEW b \in Nat \ {0}
    PROVE  a % b \in 0..b - 1 /\ a \div b \in Nat /\ a = b * (a \div b) + (a % b)
  OBVIOUS

\* Numbers that differ by less than b, and by a multiple of it, are equal.
LEMMA SameRemainder ==
    ASSUME NEW a \in Nat, NEW e \in Nat, NEW b \in Nat \ {0}, a % b = e % b, a <= e, e - a < b
    PROVE  a = e
<1> DEFINE q == a \div b
           r == e \div b
           z == a % b
<1>1. q \in Nat /\ z \in Nat /\ a = b * q + z
  <2>1. a % b \in 0..b - 1 /\ a \div b \in Nat /\ a = b * (a \div b) + (a % b)
    BY Remainder
  <2> QED BY <2>1
<1>2. r \in Nat /\ e = b * r + z
  BY Remainder
<1> HIDE DEF q, r, z
<1>3. e - a = b * (r - q) /\ r - q \in Int
  BY <1>1, <1>2
<1> DEFINE k == r - q
<1>4. k \in Int /\ e - a = b * k
  BY <1>3
<1> HIDE DEF k
<1>5. k >= 1 => b * k >= b
  BY <1>4
<1>6. k <= -1 => b * k <= -b
  BY <1>4
<1>7. k = 0 => b * k = 0
  BY <1>4
<1> QED BY <1>4, <1>5, <1>6, <1>7

LEMMA PlacedOnServer ==
    ASSUME NEW f \in DataServers, NEW i \in 0..Copies - 1
    PROVE  Placement(f, i) \in DataServers
<1> DEFINE n == f + SecondCopy(i) + i
<1>1. n \in Nat /\ f \in Nat /\ DSCount \in Nat \ {0} /\ Stripes \in Nat \ {0}
  BY CountsOfCopies DEF DataServers, SecondCopy
<1> HIDE DEF n
<1>2. (n % Stripes) + f \in Nat
  BY <1>1, Remainder
<1>3. ((n % Stripes) + f) % DSCount \in 0..DSCount - 1
  BY <1>1, <1>2, Remainder
<1> QED BY <1>3 DEF Placement, DataServers, n

\* hfs_create_alloc_data_handle: the copies of a stripe are on different servers.
LEMMA CopiesOnDifferentServers ==
    ASSUME NEW f \in DataServers, NEW i \in 0..Stripes - 1
    PROVE  Placement(f, i) # Placement(f, i + Stripes)
<1> DEFINE x == f + i
           y == f + 1 + (i + Stripes)
           u == x % Stripes
           v == y % Stripes
<1>1. /\ f \in Nat /\ i \in Nat /\ DSCount \in Nat \ {0} /\ Stripes \in Nat \ {0}
      /\ Stripes >= 3 /\ Stripes <= DSCount /\ i < Stripes
  BY CountsOfCopies DEF DataServers
<1>2. x \in Nat /\ y \in Nat /\ y = x + Stripes + 1
  BY <1>1
<1>3. u \in 0..Stripes - 1 /\ v \in 0..Stripes - 1
  BY <1>1, <1>2, Remainder
<1>4. u # v
  <2>1. (x + Stripes) % Stripes = u
    <3> DEFINE w == (x + Stripes) % Stripes
               q == x \div Stripes
               r == (x + Stripes) \div Stripes
    <3>1. x = Stripes * q + u /\ q \in Nat
      BY <1>1, <1>2, Remainder
    <3>2. x + Stripes \in Nat
      BY <1>1, <1>2
    <3>3. x + Stripes = Stripes * r + w /\ r \in Nat /\ w \in 0..Stripes - 1
      BY <1>1, <3>2, Remainder
    <3> HIDE DEF w, q, r, u, x
    <3> DEFINE k == r - q - 1
    <3>4. k \in Int /\ u - w = Stripes * k
      BY <1>1, <1>3, <3>1, <3>3
    <3> HIDE DEF k
    <3>5. k >= 1 => Stripes * k >= Stripes
      BY <1>1, <3>4
    <3>6. k <= -1 => Stripes * k <= -Stripes
      BY <1>1, <3>4
    <3>7. k = 0 => Stripes * k = 0
      BY <1>1, <3>4
    <3>8. u = w
      BY <1>1, <1>3, <3>3, <3>4, <3>5, <3>6, <3>7
    <3> QED BY <3>8 DEF w
  <2>2. ASSUME u = v PROVE FALSE
    <3>1. (x + Stripes) % Stripes = y % Stripes
      BY <2>1, <2>2
    <3> HIDE DEF x, y, u, v
    <3>2. x + Stripes \in Nat /\ x + Stripes <= y /\ y - (x + Stripes) < Stripes
      BY <1>1, <1>2
    <3>3. x + Stripes = y
      BY <1>1, <1>2, <3>1, <3>2, SameRemainder
    <3> QED BY <1>2, <3>3
  <2> QED BY <2>2
<1>5. Placement(f, i) = (u + f) % DSCount /\ Placement(f, i + Stripes) = (v + f) % DSCount
  BY <1>1 DEF Placement, SecondCopy
<1> HIDE DEF u, v
<1>6. u + f \in Nat /\ v + f \in Nat
  BY <1>1, <1>3
<1>7. ASSUME (u + f) % DSCount = (v + f) % DSCount, u <= v PROVE FALSE
  <2>1. u + f <= v + f /\ (v + f) - (u + f) < DSCount
    BY <1>1, <1>3, <1>7
  <2>2. u + f = v + f
    BY <1>1, <1>6, <1>7, <2>1, SameRemainder
  <2> QED BY <1>1, <1>3, <1>4, <2>2
<1>8. ASSUME (u + f) % DSCount = (v + f) % DSCount, v <= u PROVE FALSE
  <2>1. v + f <= u + f /\ (u + f) - (v + f) < DSCount
    BY <1>1, <1>3, <1>8
  <2>2. v + f = u + f
    BY <1>1, <1>6, <1>8, <2>1, SameRemainder
  <2> QED BY <1>1, <1>3, <1>4, <2>2
<1> QED BY <1>3, <1>5, <1>7, <1>8

-----------------------------------------------------------------------------
(* What a step of one client leaves alone *)

\* Only this client goes on.
Turned(c) ==
    /\ DOMAIN job' = Clients /\ JobShaped(job'[c]) /\ DOMAIN my' = Clients /\ MyShaped(my'[c])
    /\ DOMAIN at' = Clients /\ DOMAIN script' = Clients
    /\ \A d \in Clients \ {c} : /\ job'[d] = job[d] /\ my'[d] = my[d]
                                /\ at'[d] = at[d] /\ script'[d] = script[d]

\* It takes no lock away from another, and no counter another has read.
LeavesLocks(c) ==
    /\ \A d \in Clients \ {c} :
          /\ \A s \in Servers : /\ result'[s] = d => result[s] = d
                                /\ lock'[s] = d => lock[s] = d
          /\ \A x \in DataServers : dlock'[x] = d <=> dlock[x] = d
    /\ \A x \in DataServers : /\ DOMAIN file[x] \subseteq DOMAIN file'[x]
                              /\ dlock[x] # c => counter'[x] = counter[x]
    /\ diskErrors' = 0 => diskErrors = 0

\* It comes to own only what was not there.
OwnsNoMore(c) ==
    \A p, h : Owns(c, p, h)' => \/ Owns(c, p, h) /\ (at[c] = "name" => at'[c] = "name")
                                \/ h \notin DOMAIN inode[p]

\* It writes the attributes of what it owns, and names only what it owns.
Unwritten(p, h) == inode'[p][h] = inode[p][h] /\ HandlesOf(p, h)' = HandlesOf(p, h)
WritesOwn(c) ==
    /\ \A p \in Pairs : \A h \in DOMAIN inode[p] :
          /\ h \in DOMAIN inode'[p]
          /\ \/ Unwritten(p, h)
             \/ /\ Owns(c, p, h) /\ at[c] = "attributes"
                /\ at'[c] = "attributes" /\ my'[c] = my[c]
    /\ \A p \in Pairs : \A h \in DOMAIN inode'[p] \ DOMAIN inode[p] : HandlesOf(p, h)' = <<>>
    /\ \A p \in Pairs : \A i \in DOMAIN names'[p] :
          \/ i \in DOMAIN names[p] /\ names'[p][i] = names[p][i]
          \/ /\ at[c] = "name" /\ at'[c] = "name"
             /\ names'[p][i].home = my[c].new.pair /\ names'[p][i].file = my[c].new.handle

\* Another client still owns what it did.
LEMMA OwnersRemain ==
    ASSUME NEW c \in Clients, Turned(c), NEW d \in Clients \ {c}, NEW p, NEW h
    PROVE  Owns(d, p, h)' <=> Owns(d, p, h)
  BY DEF Turned, Owns, Succeeded, Answered, Pair

\* What a step leaves unwritten stays complete.
LEMMA CompleteRemains ==
    ASSUME NEW c \in Clients, WritesOwn(c), NEW p, NEW h, Complete(p, h), Unwritten(p, h)
    PROVE  Complete(p, h)'
  BY DEF Complete, WritesOwn, Unwritten

\* What is settled is not written, and stays settled.
LEMMA SettledRemains ==
    ASSUME NEW c \in Clients, Turned(c), WritesOwn(c), OwnsNoMore(c),
           NEW p, NEW h, Settled(p, h)
    PROVE  Settled(p, h)' /\ Unwritten(p, h)
<1>1. Complete(p, h) /\ p \in Pairs /\ h \in DOMAIN inode[p]
  BY DEF Settled, Complete
<1>2. Unwritten(p, h)
  BY <1>1 DEF Settled, WritesOwn
<1>3. Complete(p, h)'
  BY <1>1, <1>2, CompleteRemains
<1>4. ASSUME NEW d \in Clients, Owns(d, p, h)' PROVE at'[d] = "name"
  <2>1. CASE d = c
    <3>1. Owns(c, p, h) /\ (at[c] = "name" => at'[c] = "name")
      BY <1>1, <1>4, <2>1 DEF OwnsNoMore
    <3> QED BY <2>1, <3>1 DEF Settled
  <2>2. CASE d # c
    <3>1. Owns(d, p, h)
      BY <1>4, <2>2, OwnersRemain
    <3> QED BY <2>2, <3>1 DEF Settled, Turned
  <2> QED BY <2>1, <2>2
<1> QED BY <1>2, <1>3, <1>4 DEF Settled

\* What another client owns is not written.
LEMMA OwnedUnwritten ==
    ASSUME OneOwner, NEW c \in Clients, NEW d \in Clients \ {c}, WritesOwn(c),
           OwnsFresh(d), NEW p, NEW h, Owns(d, p, h)
    PROVE  Unwritten(p, h) /\ h \in DOMAIN inode[p] /\ h \in DOMAIN inode'[p] /\ p \in Pairs
<1>1. p \in Pairs /\ h \in DOMAIN inode[p]
  BY DEF OwnsFresh
<1>2. ~Owns(c, p, h)
  BY DEF OneOwner
<1> QED BY <1>1, <1>2 DEF WritesOwn

-----------------------------------------------------------------------------
(* What holds of a client remains while another takes a step *)

LEMMA ObeysRemains ==
    ASSUME NEW c \in Clients, NEW d \in Clients \ {c}, Turned(c), Obeys(d)
    PROVE  Obeys(d)'
<1>1. job'[d] = job[d] /\ at'[d] = at[d]
  BY DEF Turned
<1>2. \A op, steps : Serves(d, op, steps) => Serves(d, op, steps)'
  BY <1>1 DEF Serves, Cmd
<1>3. Pair(d)' = Pair(d)
  BY <1>1 DEF Pair
<1> QED BY <1>1, <1>2, <1>3 DEF Obeys

LEMMA HoldsRemains ==
    ASSUME NEW c \in Clients, NEW d \in Clients \ {c}, Turned(c), LeavesLocks(c), Holds(d)
    PROVE  Holds(d)'
<1>1. my'[d] = my[d] /\ at'[d] = at[d] /\ job'[d] = job[d]
  BY DEF Turned
<1>2. NextServer(d)' = NextServer(d) /\ Srv(d)' = Srv(d)
  BY <1>1 DEF NextServer, Srv
<1> QED BY <1>1, <1>2 DEF Holds, HoldsRequest, LeavesLocks

LEMMA DrawsRemains ==
    ASSUME NEW c \in Clients, NEW d \in Clients \ {c}, Turned(c), LeavesLocks(c),
           Holds(d), Draws(d)
    PROVE  Draws(d)'
<1> SUFFICES ASSUME at[d] \in {"extents", "counted"} PROVE Draws(d)'
  BY DEF Turned, Draws
<1>1. my'[d] = my[d] /\ at'[d] = at[d] /\ script'[d] = script[d]
  BY DEF Turned
<1>2. NextServer(d)' = NextServer(d) /\ Rows(d)' = Rows(d) /\ Call(d)' = Call(d)
  BY <1>1 DEF NextServer, Rows, Call
<1>3. ASSUME NEW i \in 1..Len(Rows(d))
      PROVE  /\ Rows(d)[i].hdl \in {Invalid, Lost} \cup DOMAIN file'[Rows(d)[i].srv]
             /\ diskErrors' = 0 => Rows(d)[i].hdl # Invalid
  <2>1. Rows(d)[i].srv \in DataServers
    <3>1. Rows(d) \in Seq(Extent)
      BY DEF Draws
    <3>2. Rows(d)[i] \in Extent
      BY <3>1
    <3> QED BY <3>2 DEF Extent
  <2>2. Rows(d)[i].hdl \in {Invalid, Lost} \cup DOMAIN file[Rows(d)[i].srv]
        /\ (diskErrors = 0 => Rows(d)[i].hdl # Invalid)
    BY DEF Draws
  <2> QED BY <2>1, <2>2 DEF LeavesLocks
<1>4. at[d] = "counted" => counter'[NextServer(d)] = counter[NextServer(d)]
  <2> SUFFICES ASSUME at[d] = "counted" PROVE counter'[NextServer(d)] = counter[NextServer(d)]
    OBVIOUS
  <2>1. NextServer(d) \in DataServers
    <3>1. my[d].first \in DataServers /\ Len(my[d].rows) \in 0..Copies - 1
      BY CountsOfCopies DEF Draws, Rows
    <3> QED BY <3>1, PlacedOnServer DEF NextServer
  <2>2. dlock[NextServer(d)] = d
    BY <2>1 DEF Holds
  <2> QED BY <2>1, <2>2 DEF LeavesLocks
<1> QED BY <1>1, <1>2, <1>3, <1>4 DEF Draws

LEMMA DrawnRemains ==
    ASSUME NEW c \in Clients, NEW d \in Clients \ {c}, Turned(c), Drawn(d)
    PROVE  Drawn(d)'
  BY DEF Turned, Drawn, Rows, Call

LEMMA OwnsFreshRemains ==
    ASSUME NEW c \in Clients, NEW d \in Clients \ {c}, Turned(c), WritesOwn(c), OneOwner,
           OwnsFresh(d)
    PROVE  OwnsFresh(d)'
<1> SUFFICES ASSUME NEW p, NEW h, Owns(d, p, h)'
             PROVE  /\ p \in Pairs /\ h \in DOMAIN inode'[p] /\ h # Root
                    /\ at'[d] = "inode" => HandlesOf(p, h)' = <<>>
  BY DEF OwnsFresh
<1>1. Owns(d, p, h)
  BY OwnersRemain
<1>2. Unwritten(p, h) /\ h \in DOMAIN inode'[p] /\ p \in Pairs
  BY <1>1, OwnedUnwritten
<1>3. h # Root /\ (at[d] = "inode" => HandlesOf(p, h) = <<>>)
  BY <1>1 DEF OwnsFresh
<1> QED BY <1>2, <1>3 DEF Turned, Unwritten

LEMMA SetsRemains ==
    ASSUME NEW c \in Clients, NEW d \in Clients \ {c}, Turned(c), WritesOwn(c), OneOwner,
           OwnsFresh(d), Sets(d)
    PROVE  Sets(d)'
<1> SUFFICES ASSUME at[d] = "attributes" PROVE Sets(d)'
  BY DEF Turned, Sets
<1> DEFINE p == my[d].new.pair
           h == my[d].new.handle
<1>1. my'[d] = my[d] /\ at'[d] = at[d] /\ script'[d] = script[d] /\ job'[d] = job[d]
  BY DEF Turned
<1>2. Owns(d, p, h)
  BY DEF Owns
<1>3. \A q, x : q = p /\ x = h => Unwritten(q, x)
  BY <1>2, OwnedUnwritten
<1>4. Rows(d)' = Rows(d) /\ Call(d)' = Call(d) /\ Cmd(d)' = Cmd(d) /\ Pair(d)' = Pair(d)
      /\ Succeeded(d)' = Succeeded(d)
  BY <1>1 DEF Rows, Call, Cmd, Pair, Succeeded, Answered
<1>5. HandlesOf(my[d].new.pair, my[d].new.handle)' = HandlesOf(p, h)
  BY <1>1, <1>3 DEF Unwritten, HandlesOf
<1>6. inode'[my[d].new.pair][my[d].new.handle] = inode[p][h]
  BY <1>3 DEF Unwritten
<1> QED BY <1>1, <1>4, <1>5, <1>6 DEF Sets

LEMMA LooksUpRemains ==
    ASSUME NEW c \in Clients, NEW d \in Clients \ {c}, Turned(c), WritesOwn(c),
           OwnsNoMore(c), LooksUp(d)
    PROVE  LooksUp(d)'
<1> SUFFICES ASSUME at[d] \in {"walk", "parent"} PROVE LooksUp(d)'
  BY DEF Turned, LooksUp
<1>1. at'[d] = at[d] /\ job'[d] = job[d]
  BY DEF Turned
<1>2. Succeeded(d)' = Succeeded(d)
  BY <1>1 DEF Succeeded, Answered
<1>3. \A p, h : Settled(p, h) => Settled(p, h)'
  BY SettledRemains
<1>4. ASSUME (job[d].at = "name" \/ Succeeded(d)) /\ job[d].rows # <<>>
      PROVE  Settled(job[d].rows[1].home, job[d].rows[1].file)'
  <2>1. Settled(job[d].rows[1].home, job[d].rows[1].file)
    BY <1>4 DEF LooksUp
  <2>2. ASSUME NEW p, NEW h, p = job[d].rows[1].home, h = job[d].rows[1].file
        PROVE  Settled(job[d].rows[1].home, job[d].rows[1].file)'
    <3>1. Settled(p, h)'
      BY <1>3, <2>1, <2>2
    <3>2. p = job'[d].rows[1].home /\ h = job'[d].rows[1].file
      BY <1>1, <2>2
    <3> QED BY <3>1, <3>2 DEF Settled, Complete, HandlesOf
  <2> QED BY <2>2
<1> QED BY <1>1, <1>2, <1>4 DEF LooksUp

LEMMA NamesRemains ==
    ASSUME NEW c \in Clients, NEW d \in Clients \ {c}, Turned(c), WritesOwn(c), OneOwner,
           OwnsFresh(d), Names(d)
    PROVE  Names(d)'
<1> SUFFICES ASSUME at[d] = "name" PROVE Names(d)'
  BY DEF Turned, Names
<1> DEFINE p == my[d].new.pair
           h == my[d].new.handle
<1>1. my'[d] = my[d] /\ at'[d] = at[d] /\ job'[d] = job[d]
  BY DEF Turned
<1>2. Owns(d, p, h)
  BY DEF Owns
<1>3. ASSUME NEW q, NEW x, q = p, x = h
      PROVE  Complete(my[d].new.pair, my[d].new.handle)'
  <2>1. Unwritten(q, x)
    BY <1>2, <1>3, OwnedUnwritten
  <2>2. Complete(q, x)
    BY <1>3 DEF Names
  <2>3. Complete(q, x)'
    BY <2>1, <2>2, CompleteRemains
  <2>4. q = my'[d].new.pair /\ x = my'[d].new.handle
    BY <1>1, <1>3
  <2> QED BY <2>3, <2>4 DEF Complete, HandlesOf
<1>6. Complete(my[d].new.pair, my[d].new.handle)'
  BY <1>3
<1> QED BY <1>1, <1>6 DEF Names, Cmd

LEMMA ExaminesRemains ==
    ASSUME NEW c \in Clients, NEW d \in Clients \ {c}, Turned(c), WritesOwn(c),
           OwnsNoMore(c), Examines(d)
    PROVE  Examines(d)'
<1> SUFFICES ASSUME at[d] = "attributes of" PROVE Examines(d)'
  BY DEF Turned, Examines
<1> DEFINE p == Pair(d)
           h == Cmd(d).file
<1>1. at'[d] = at[d] /\ job'[d] = job[d]
  BY DEF Turned
<1>2. Settled(p, h)
  BY DEF Examines
<1>3. ASSUME NEW q, NEW x, q = Pair(d), x = Cmd(d).file
      PROVE  Settled(q, x)' /\ Unwritten(q, x)
  BY <1>2, <1>3, SettledRemains
<1>4. Pair(d)' = Pair(d) /\ Cmd(d)' = Cmd(d) /\ Succeeded(d)' = Succeeded(d)
  BY <1>1 DEF Pair, Cmd, Succeeded, Answered
<1>5. Settled(Pair(d), Cmd(d).file)'
  <2>1. ASSUME NEW q, NEW x, q = Pair(d), x = Cmd(d).file
        PROVE  Settled(Pair(d), Cmd(d).file)'
    <3>1. Settled(q, x)'
      BY <1>3, <2>1
    <3>2. q = Pair(d)' /\ x = Cmd(d)'.file
      BY <1>4, <2>1
    <3> QED BY <3>1, <3>2 DEF Settled, Complete, HandlesOf
  <2> QED BY <2>1
<1>6. inode'[p][h] = inode[p][h] /\ HandlesOf(Pair(d), Cmd(d).file)' = HandlesOf(p, h)
  <2>1. ASSUME NEW q, NEW x, q = Pair(d), x = Cmd(d).file
        PROVE  inode'[q][x] = inode[q][x]
               /\ HandlesOf(Pair(d), Cmd(d).file)' = HandlesOf(q, x)
    BY <1>3, <1>4, <2>1 DEF Unwritten, HandlesOf
  <2> QED BY <1>4, <2>1
<1> QED BY <1>1, <1>4, <1>5, <1>6 DEF Examines

LEMMA OthersRemain ==
    ASSUME NEW c \in Clients, NEW d \in Clients \ {c}, OneOwner, Turned(c), LeavesLocks(c),
           WritesOwn(c), OwnsNoMore(c), Sound(d)
    PROVE  Sound(d)'
<1>1. Obeys(d)'
  BY ObeysRemains DEF Sound
<1>2. Holds(d)'
  BY HoldsRemains DEF Sound
<1>3. Draws(d)' /\ Drawn(d)'
  BY DrawsRemains, DrawnRemains DEF Sound
<1>4. OwnsFresh(d)' /\ Sets(d)'
  BY OwnsFreshRemains, SetsRemains DEF Sound
<1>5. LooksUp(d)' /\ Names(d)' /\ Examines(d)'
  BY LooksUpRemains, NamesRemains, ExaminesRemains DEF Sound
<1> QED BY <1>1, <1>2, <1>3, <1>4, <1>5 DEF Sound

LEMMA OneOwnerRemains ==
    ASSUME OneOwner, \A d \in Clients : OwnsFresh(d), NEW c \in Clients, Turned(c), OwnsNoMore(c)
    PROVE  OneOwner'
<1>1. ASSUME NEW d \in Clients \ {c}, NEW p, NEW h, Owns(d, p, h)', Owns(c, p, h)' PROVE FALSE
  <2>1. Owns(d, p, h)
    BY <1>1, OwnersRemain
  <2>2. h \in DOMAIN inode[p]
    BY <2>1 DEF OwnsFresh
  <2>3. Owns(c, p, h)
    BY <1>1, <2>2 DEF OwnsNoMore
  <2> QED BY <2>1, <2>3 DEF OneOwner
<1>2. ASSUME NEW d \in Clients \ {c}, NEW e \in Clients \ {c}, NEW p, NEW h,
             Owns(d, p, h)', Owns(e, p, h)'
      PROVE  d = e
  <2>1. Owns(d, p, h) /\ Owns(e, p, h)
    BY <1>2, OwnersRemain
  <2> QED BY <2>1 DEF OneOwner
<1> QED BY <1>1, <1>2 DEF OneOwner

\* A client that gives a name to its inode has set its attributes.
LEMMA NamedIsSettled ==
    ASSUME OneOwner, NEW c \in Clients, at[c] = "name", Names(c),
           NEW p, NEW h, p = my[c].new.pair, h = my[c].new.handle
    PROVE  Settled(p, h) /\ Owns(c, p, h)
<1>1. Complete(p, h)
  BY DEF Names
<1>2. Owns(c, p, h)
  BY DEF Owns
<1> QED BY <1>1, <1>2 DEF Settled, OneOwner

LEMMA NamesSettledRemain ==
    ASSUME OneOwner, NamesSettled, NEW c \in Clients, Turned(c), WritesOwn(c), OwnsNoMore(c),
           Names(c), OwnsFresh(c)
    PROVE  NamesSettled'
<1>1. Settled(RootPair, Root)'
  BY SettledRemains DEF NamesSettled
<1>2. ASSUME NEW p \in Pairs, NEW i \in DOMAIN names'[p],
             NEW q, NEW h, q = names'[p][i].home, h = names'[p][i].file
      PROVE  Settled(q, h)'
  <2>1. CASE i \in DOMAIN names[p] /\ names'[p][i] = names[p][i]
    <3>1. Settled(q, h)
      BY <1>2, <2>1 DEF NamesSettled
    <3> QED BY <3>1, SettledRemains
  <2>2. CASE at[c] = "name" /\ q = my[c].new.pair /\ h = my[c].new.handle
    <3>1. Settled(q, h)
      BY <2>2, NamedIsSettled
    <3> QED BY <3>1, SettledRemains
  <2> QED BY <1>2, <2>1, <2>2 DEF WritesOwn
<1>3. ASSUME NEW p \in Pairs, NEW i \in DOMAIN names'[p]
      PROVE  Settled(names[p][i].home, names[p][i].file)'
  <2>1. ASSUME NEW q, NEW h, q = names'[p][i].home, h = names'[p][i].file
        PROVE  Settled(names[p][i].home, names[p][i].file)'
    <3>1. Settled(q, h)'
      BY <1>2, <2>1
    <3> QED BY <2>1, <3>1 DEF Settled, Complete, HandlesOf
  <2> QED BY <2>1
<1> QED BY <1>1, <1>3 DEF NamesSettled

\* A part of what a file is given is where the whole is.
LEMMA PartLaid ==
    ASSUME NEW all \in Seq(Extent), NEW rows, Begins(rows, all), NEW f, Laid(all, f)
    PROVE  rows \in Seq(Extent) /\ Laid(rows, f)
<1> DEFINE n == Len(rows)
<1>1. n \in 0..Len(all) /\ rows = SubSeq(all, 1, n)
  BY DEF Begins
<1> HIDE DEF n
<1>2. SubSeq(all, 1, n) \in Seq(Extent) /\ Len(SubSeq(all, 1, n)) = n
      /\ \A i \in 1..n : SubSeq(all, 1, n)[i] = all[i]
  BY <1>1
<1> QED BY <1>1, <1>2 DEF Laid

LEMMA LaidOutRemains ==
    ASSUME LaidOut, NEW c \in Clients, WritesOwn(c), Drawn(c)', Sets(c)', DataServers # {}
    PROVE  LaidOut'
<1> SUFFICES ASSUME NEW p \in Pairs, NEW h \in DOMAIN inode'[p]
             PROVE  /\ HandlesOf(p, h)' \in Seq(Extent)
                    /\ \E f \in DataServers : Laid(HandlesOf(p, h), f)'
  BY DEF LaidOut
<1>1. CASE h \in DOMAIN inode[p] /\ Unwritten(p, h)
  <2>1. HandlesOf(p, h) \in Seq(Extent) /\ \E f \in DataServers : Laid(HandlesOf(p, h), f)
    BY <1>1 DEF LaidOut
  <2> QED BY <1>1, <2>1 DEF Unwritten, Laid
<1>2. CASE HandlesOf(p, h)' = <<>>
  BY <1>2 DEF Laid
<1>3. CASE Owns(c, p, h) /\ at[c] = "attributes" /\ at'[c] = "attributes" /\ my'[c] = my[c]
  <2>1. p = my'[c].new.pair /\ h = my'[c].new.handle
    BY <1>3 DEF Owns
  <2>2. Begins(HandlesOf(my[c].new.pair, my[c].new.handle)', Rows(c)')
    BY <1>3 DEF Sets, Begins
  <2>3. HandlesOf(my[c].new.pair, my[c].new.handle)' = HandlesOf(p, h)'
    BY <2>1 DEF HandlesOf
  <2>4. Rows(c)' \in Seq(Extent) /\ \E f \in DataServers : Laid(Rows(c), f)'
    BY <1>3 DEF Drawn
  <2>5. PICK f \in DataServers : Laid(Rows(c), f)'
    BY <2>4
  <2>6. Laid(Rows(c)', f)
    BY <2>5 DEF Laid
  <2>7. HandlesOf(p, h)' \in Seq(Extent) /\ Laid(HandlesOf(p, h)', f)
    BY <2>2, <2>3, <2>4, <2>6, PartLaid
  <2> QED BY <2>7 DEF Laid
<1> QED BY <1>1, <1>2, <1>3 DEF WritesOwn

LEMMA Continues ==
    ASSUME CreateInv, NEW c \in Clients, Turned(c), LeavesLocks(c), WritesOwn(c), OwnsNoMore(c),
           Shaped', Tables', Disks', Sound(c)'
    PROVE  CreateInv'
<1>1. \A d \in Clients : Sound(d)'
  BY OthersRemain DEF CreateInv
<1>2. OneOwner'
  BY OneOwnerRemains DEF CreateInv, Sound
<1>3. NamesSettled'
  BY NamesSettledRemain DEF CreateInv, Sound
<1>4. DataServers # {}
  BY DataAssumption DEF DataServers
<1>5. LaidOut'
  BY <1>4, LaidOutRemains DEF CreateInv, Sound
<1> QED BY <1>1, <1>2, <1>3, <1>5 DEF CreateInv

-----------------------------------------------------------------------------
(* Steps of a request *)

\* The request goes on, on behalf of the same client.
JobTurned(c) ==
    /\ DOMAIN job' = Clients /\ JobShaped(job'[c])
    /\ \A d \in Clients \ {c} : job'[d] = job[d]

LEMMA ServeTurns ==
    ASSUME Shaped, NEW c \in Clients, NEW srv, NEW cmd, Serve(c, srv, cmd)
    PROVE  /\ JobTurned(c)
           /\ job'[c] = [at |-> FirstStep(cmd.op), srv |-> srv, cmd |-> cmd, rows |-> <<>>,
                         status |-> "none"]
  BY DEF Shaped, Serve, JobTurned, JobShaped

LEMMA AskTurns ==
    ASSUME Shaped, NEW c \in Clients, NEW pair, NEW cmd, Serve(c, <<pair, "primary">>, cmd)
    PROVE  /\ JobTurned(c) /\ job'[c].at = FirstStep(cmd.op)
           /\ Cmd(c)' = cmd /\ Pair(c)' = pair
<1>1. /\ JobTurned(c)
      /\ job'[c] = [at |-> FirstStep(cmd.op), srv |-> <<pair, "primary">>, cmd |-> cmd,
                    rows |-> <<>>, status |-> "none"]
  BY ServeTurns
<1>2. Pair(c)' = job'[c].srv[1] /\ Cmd(c)' = job'[c].cmd
  BY DEF Pair, Cmd
<1> QED BY <1>1, <1>2

LEMMA AnswerTurns ==
    ASSUME Shaped, NEW c \in Clients, NEW status, NEW rows, Answer(c, status, rows)
    PROVE  /\ JobTurned(c) /\ Answered(c)' /\ job'[c].status = status /\ job'[c].rows = rows
           /\ Srv(c)' = Srv(c) /\ Pair(c)' = Pair(c) /\ Cmd(c)' = Cmd(c)
<1>1. JobShaped(job[c]) /\ DOMAIN job = Clients
  BY DEF Shaped
<1>2. job'[c] = [at |-> "answered", srv |-> job[c].srv, cmd |-> job[c].cmd, rows |-> rows,
                 status |-> status]
  BY <1>1 DEF Answer, JobShaped
<1> QED BY <1>1, <1>2 DEF Answer, JobTurned, JobShaped, Answered, Srv, Pair, Cmd

LEMMA ThenTurns ==
    ASSUME Shaped, NEW c \in Clients, NEW next, NEW rows, Then(c, next, rows)
    PROVE  /\ JobTurned(c) /\ job'[c].at = next /\ job'[c].rows = rows
           /\ job'[c].status = job[c].status
           /\ Srv(c)' = Srv(c) /\ Pair(c)' = Pair(c) /\ Cmd(c)' = Cmd(c)
<1>1. JobShaped(job[c]) /\ DOMAIN job = Clients
  BY DEF Shaped
<1>2. job'[c] = [at |-> next, srv |-> job[c].srv, cmd |-> job[c].cmd, rows |-> rows,
                 status |-> job[c].status]
  BY <1>1 DEF Then, JobShaped
<1> QED BY <1>1, <1>2 DEF Then, JobTurned, JobShaped, Srv, Pair, Cmd

\* Results and locks of other clients are left alone.
LeavesConnections(c) ==
    /\ result' \in [Servers -> Clients \cup {Nobody}]
    /\ lock' \in [Servers -> Clients \cup {Nobody}]
    /\ \A d \in Clients \ {c} : \A s \in Servers : /\ result'[s] = d => result[s] = d
                                                   /\ lock'[s] = d => lock[s] = d

\* No inode is given to the client in this step.
LEMMA RequestContinues ==
    ASSUME CreateInv, NEW c \in Clients, Serving, JobTurned(c), Cmd(c)' = Cmd(c),
           Tables', WritesOwn(c), LeavesConnections(c), HoldsRequest(c)',
           at[c] = "inode" => ~Succeeded(c)',
           Obeys(c)', Sets(c)', LooksUp(c)', Examines(c)'
    PROVE  CreateInv'
<1>1. UNCHANGED <<counter, file, script, at, my, dlock, scenario, diskErrors>>
  BY DEF Serving, dataVars, client, faults
<1>2. Turned(c)
  BY <1>1 DEF CreateInv, Shaped, Turned, JobTurned
<1>3. LeavesLocks(c)
  <2>1. counter' = counter /\ file' = file /\ dlock' = dlock /\ diskErrors' = diskErrors
    BY <1>1
  <2>2. \A d \in Clients \ {c} : \A s \in Servers : /\ result'[s] = d => result[s] = d
                                                    /\ lock'[s] = d => lock[s] = d
    BY DEF LeavesConnections
  <2> QED BY <2>1, <2>2 DEF LeavesLocks
<1>4. \A p, h : Owns(c, p, h)' => Owns(c, p, h) /\ at[c] # "inode"
  BY <1>1 DEF Owns
<1>5. OwnsNoMore(c)
  BY <1>1, <1>4 DEF OwnsNoMore
<1>6. Shaped'
  BY <1>1, <1>2 DEF CreateInv, Shaped, Turned, LeavesConnections, JobShaped, MyShaped, Given
<1>7. Disks'
  BY <1>1 DEF CreateInv, Disks
<1>8. NextServer(c)' = NextServer(c) /\ Rows(c)' = Rows(c) /\ Call(c)' = Call(c)
  BY <1>1 DEF NextServer, Rows, Call
<1>9. Sound(c)
  BY DEF CreateInv
<1>10. Holds(c)'
  BY <1>1, <1>8, <1>9 DEF Sound, Holds
<1>11. Draws(c)' /\ Drawn(c)'
  BY <1>1, <1>8, <1>9 DEF Sound, Draws, Drawn
<1>12. OwnsFresh(c)'
  <2>1. OwnsFresh(c)
    BY <1>9 DEF Sound
  <2> QED BY <1>1, <1>4, <2>1 DEF OwnsFresh, WritesOwn
<1>13. Names(c)'
  <2> SUFFICES ASSUME at[c] = "name" PROVE Names(c)'
    BY <1>1 DEF Names
  <2>1. ASSUME NEW p, NEW h, p = my[c].new.pair, h = my[c].new.handle
        PROVE  Complete(my[c].new.pair, my[c].new.handle)'
    <3>1. Complete(p, h)
      BY <1>9, <2>1 DEF Sound, Names
    <3>2. Unwritten(p, h)
      BY <3>1 DEF WritesOwn, Complete
    <3>3. Complete(p, h)'
      BY <3>1, <3>2, CompleteRemains
    <3>4. p = my'[c].new.pair /\ h = my'[c].new.handle
      BY <1>1, <2>1
    <3> QED BY <3>3, <3>4 DEF Complete, HandlesOf
  <2>2. Complete(my[c].new.pair, my[c].new.handle)'
    BY <2>1
  <2> QED BY <1>1, <1>9, <2>2 DEF Sound, Names
<1>14. Sound(c)'
  BY <1>10, <1>11, <1>12, <1>13 DEF Sound
<1> QED BY <1>2, <1>3, <1>5, <1>6, <1>7, <1>14, Continues

LEMMA TablesStay ==
    ASSUME Tables, NEW c \in Clients, UNCHANGED tables
    PROVE  Tables' /\ WritesOwn(c)
<1>1. inode' = inode /\ extents' = extents /\ names' = names
  BY DEF tables
<1>2. Tables'
  BY <1>1 DEF Tables
<1>3. \A p, h : Unwritten(p, h)
  BY <1>1 DEF Unwritten, HandlesOf
<1> QED BY <1>1, <1>2, <1>3 DEF WritesOwn

\* A select's result is the client's; one that is stored is gone.
LEMMA SelectHolds ==
    ASSUME Shaped, NEW c \in Clients, NEW where, NEW rows, NEW next \in Waiting,
           Select(c, where, rows, next), HoldsRequest(c),
           where \in Locked => next \in Locked
    PROVE  /\ LeavesConnections(c) /\ HoldsRequest(c)' /\ job[c].at = where
           /\ JobTurned(c) /\ job'[c].at = next /\ job'[c].rows = rows /\ UNCHANGED tables
           /\ Srv(c)' = Srv(c) /\ Pair(c)' = Pair(c) /\ Cmd(c)' = Cmd(c)
<1>1. Then(c, next, rows) /\ lock' = lock /\ result' = [result EXCEPT ![Srv(c)] = c]
      /\ job[c].at = where /\ UNCHANGED tables
  BY DEF Select, Then, Statement
<1>2. /\ JobTurned(c) /\ job'[c].at = next /\ job'[c].rows = rows
      /\ Srv(c)' = Srv(c) /\ Pair(c)' = Pair(c) /\ Cmd(c)' = Cmd(c)
  BY <1>1, ThenTurns
<1>3. LeavesConnections(c)
  BY <1>1 DEF Shaped, LeavesConnections
<1>4. HoldsRequest(c)'
  BY <1>1, <1>2 DEF Shaped, HoldsRequest
<1> QED BY <1>1, <1>2, <1>3, <1>4

LEMMA StoreHolds ==
    ASSUME Shaped, NEW c \in Clients, NEW where, Store(c, where), lock' = lock, HoldsRequest(c),
           Srv(c)' = Srv(c), where \in Locked => job'[c].at \in Locked
    PROVE  LeavesConnections(c) /\ HoldsRequest(c)' /\ job[c].at = where /\ UNCHANGED tables
<1>1. result' = [result EXCEPT ![Srv(c)] = Nobody] /\ job[c].at = where /\ UNCHANGED tables
  BY DEF Store
<1>2. LeavesConnections(c)
  BY <1>1, MetaAssumption DEF Shaped, LeavesConnections
<1>3. HoldsRequest(c)'
  BY <1>1, MetaAssumption DEF Shaped, HoldsRequest
<1> QED BY <1>1, <1>2, <1>3

\* No result of its own waits while a statement is made.
LEMMA StatementHolds ==
    ASSUME Shaped, NEW c \in Clients, result' = result, lock' = lock \/ Unlock(c),
           HoldsRequest(c), job[c].at \notin Waiting, job[c].at \notin Locked \/ Unlock(c)
    PROVE  LeavesConnections(c) /\ HoldsRequest(c)'
<1>1. LeavesConnections(c)
  BY MetaAssumption DEF Shaped, LeavesConnections, Unlock
<1>2. HoldsRequest(c)'
  BY MetaAssumption DEF Shaped, HoldsRequest, Unlock
<1> QED BY <1>1, <1>2

-----------------------------------------------------------------------------
(* Requests that read *)

\* A step of a request that writes no table and gives no inode.
Reads(c) ==
    /\ Serving /\ JobTurned(c) /\ Cmd(c)' = Cmd(c) /\ Pair(c)' = Pair(c)
    /\ UNCHANGED tables
    /\ at[c] = "inode" => ~Succeeded(c)'

LEMMA ReadsSettled ==
    ASSUME CreateInv, NEW c \in Clients, Reads(c), NEW p, NEW h, Settled(p, h)
    PROVE  Settled(p, h)' /\ Unwritten(p, h)
<1>1. UNCHANGED <<script, at, my>>
  BY DEF Reads, Serving, client
<1>2. Turned(c)
  BY <1>1 DEF CreateInv, Shaped, Reads, Turned, JobTurned
<1>3. OwnsNoMore(c)
  <2>1. \A q, x : Owns(c, q, x)' => Owns(c, q, x)
    BY <1>1 DEF Owns, Reads
  <2> QED BY <1>1, <2>1 DEF OwnsNoMore
<1>4. WritesOwn(c)
  BY TablesStay DEF CreateInv, Reads
<1> QED BY <1>2, <1>3, <1>4, SettledRemains

LEMMA LooksUpNext ==
    ASSUME CreateInv, NEW c \in Clients, Reads(c),
           Succeeded(c)' => job'[c].rows # <<>>,
           NEW p, NEW h, p = job'[c].rows[1].home, h = job'[c].rows[1].file,
           (job'[c].at = "name" \/ Succeeded(c)') /\ job'[c].rows # <<>> => Settled(p, h)
    PROVE  LooksUp(c)'
<1>1. (job'[c].at = "name" \/ Succeeded(c)') /\ job'[c].rows # <<>>
        => Settled(job[c].rows[1].home, job[c].rows[1].file)'
  <2> SUFFICES ASSUME Settled(p, h) PROVE Settled(job[c].rows[1].home, job[c].rows[1].file)'
    OBVIOUS
  <2>1. Settled(p, h)'
    BY ReadsSettled
  <2> QED BY <2>1 DEF Settled, Complete, HandlesOf
<1> QED BY <1>1 DEF LooksUp

LEMMA ExaminesNext ==
    ASSUME CreateInv, NEW c \in Clients, Reads(c), at[c] = "attributes of",
           NEW p, NEW h, p = Pair(c), h = Cmd(c).file,
           job'[c].at \in {"inode", "select handles"} => job'[c].rows = <<inode[p][h]>>,
           job'[c].at = "handles" \/ Succeeded(c)' =>
              job'[c].rows = <<inode[p][h]>> \o HandlesOf(p, h)
    PROVE  Examines(c)'
<1>1. Settled(p, h)
  BY DEF CreateInv, Sound, Examines
<1>2. Settled(p, h)' /\ Unwritten(p, h)
  BY <1>1, ReadsSettled
<1>3. p = Pair(c)' /\ h = Cmd(c)'.file
  BY DEF Reads
<1>4. Settled(Pair(c), Cmd(c).file)'
  BY <1>2, <1>3 DEF Settled, Complete, HandlesOf
<1>5. inode'[Pair(c)'][Cmd(c)'.file] = inode[p][h]
      /\ HandlesOf(Pair(c), Cmd(c).file)' = HandlesOf(p, h)
  BY <1>2, <1>3 DEF Unwritten, HandlesOf
<1> QED BY <1>3, <1>4, <1>5 DEF Examines

\* What the attributes are set to does not change on the way.
LEMMA SetsNext ==
    ASSUME CreateInv, NEW c \in Clients, Reads(c), at[c] = "attributes",
           NEW rows, rows = HandlesOf(my[c].new.pair, my[c].new.handle),
           job'[c].at \in {"check handles", "checked", "insert handle"} \/ Succeeded(c)' =>
              job[c].at \in {"check handles", "checked", "insert handle"} \/ Succeeded(c),
           job'[c].at \in {"checked", "insert handle"} => job'[c].rows = rows,
           job'[c].at = "insert handle" => Len(rows) < Len(Rows(c)),
           Succeeded(c)' => rows = Rows(c)
    PROVE  Sets(c)'
<1>1. UNCHANGED <<script, at, my>> /\ inode' = inode /\ extents' = extents
  BY DEF Reads, Serving, client, tables
<1>2. HandlesOf(my[c].new.pair, my[c].new.handle)' = rows /\ Rows(c)' = Rows(c)
      /\ Call(c)' = Call(c) /\ Cmd(c)' = Cmd(c) /\ Pair(c)' = Pair(c)
  BY <1>1 DEF HandlesOf, Rows, Call, Reads
<1>3. Sets(c)
  BY DEF CreateInv, Sound
<1> QED BY <1>1, <1>2, <1>3 DEF Sets

LEMMA ReadsContinue ==
    ASSUME CreateInv, NEW c \in Clients, Reads(c), LeavesConnections(c), HoldsRequest(c)',
           Obeys(c)', at[c] = "attributes" => Sets(c)',
           at[c] \in {"walk", "parent"} => LooksUp(c)', at[c] = "attributes of" => Examines(c)'
    PROVE  CreateInv'
<1>1. at' = at
  BY DEF Reads, Serving, client
<1>2. Sets(c)' /\ LooksUp(c)' /\ Examines(c)'
  BY <1>1 DEF Sets, LooksUp, Examines
<1>3. Tables' /\ WritesOwn(c)
  BY TablesStay DEF CreateInv, Reads
<1> QED BY <1>2, <1>3, RequestContinues DEF Reads

\* Where a client is whose request has come so far.
LEMMA WhereServed ==
    ASSUME NEW c \in Clients, Obeys(c)
    PROVE  /\ job[c].at \in {"select name", "name"} =>
                at[c] \in {"walk", "parent"} /\ Cmd(c).op = "lookup" /\ Pair(c) \in Pairs
           /\ job[c].at \in {"select entries", "entries"} => at[c] = "list" /\ Cmd(c).op = "readdir"
           /\ job[c].at \in {"select inode", "inode", "select handles", "handles"} =>
                at[c] = "attributes of" /\ Cmd(c).op = "getattr"
           /\ job[c].at \in {"lock"} \cup Locked =>
                at[c] = "inode" /\ Cmd(c).op = "alloc" /\ Pair(c) \in Pairs
           /\ job[c].at \in {"update inode", "check handles", "checked", "insert handle"} =>
                at[c] = "attributes" /\ Cmd(c).op = "setattr"
           /\ job[c].at = "insert name" => at[c] = "name" /\ Cmd(c).op = "add"
<1>1. job[c] = NoJob => job[c].at = "none"
  BY DEF NoJob
<1>2. job[c].at \in {"select name", "name"} =>
         at[c] \in {"walk", "parent"} /\ Cmd(c).op = "lookup" /\ Pair(c) \in Pairs
  BY <1>1 DEF Obeys, Serves, Locked
<1>3. job[c].at \in {"select entries", "entries"} => at[c] = "list" /\ Cmd(c).op = "readdir"
  BY <1>1 DEF Obeys, Serves, Locked
<1>4. job[c].at \in {"select inode", "inode", "select handles", "handles"} =>
         at[c] = "attributes of" /\ Cmd(c).op = "getattr"
  BY <1>1 DEF Obeys, Serves, Locked
<1>5. job[c].at \in {"lock"} \cup Locked =>
         at[c] = "inode" /\ Cmd(c).op = "alloc" /\ Pair(c) \in Pairs
  BY <1>1 DEF Obeys, Serves, Locked
<1>6. job[c].at \in {"update inode", "check handles", "checked", "insert handle"} =>
         at[c] = "attributes" /\ Cmd(c).op = "setattr"
  BY <1>1 DEF Obeys, Serves, Locked
<1>7. job[c].at = "insert name" => at[c] = "name" /\ Cmd(c).op = "add"
  BY <1>1 DEF Obeys, Serves, Locked
<1> QED BY <1>2, <1>3, <1>4, <1>5, <1>6, <1>7

\* dbGetDirListing.
LEMMA ReadDirContinues ==
    ASSUME CreateInv, NEW c \in Clients, Serving, ReadDir(c) \/ ReadDirStored(c)
    PROVE  CreateInv'
<1>1. Shaped /\ HoldsRequest(c) /\ Obeys(c)
  BY DEF CreateInv, Sound, Holds
<1>2. at' = at
  BY DEF Serving, client
<1>3. CASE ReadDir(c)
  <2>1. /\ LeavesConnections(c) /\ HoldsRequest(c)' /\ job[c].at = "select entries"
        /\ JobTurned(c) /\ job'[c].at = "entries" /\ UNCHANGED tables
        /\ Srv(c)' = Srv(c) /\ Pair(c)' = Pair(c) /\ Cmd(c)' = Cmd(c)
    <3>1. Select(c, "select entries", EntriesOf(Pair(c), Cmd(c).dir), "entries")
      BY <1>3 DEF ReadDir
    <3>2. "entries" \in Waiting /\ "select entries" \notin Locked
      BY DEF Waiting, Locked
    <3> QED BY <1>1, <3>1, <3>2, SelectHolds
  <2>2. at[c] = "list" /\ Cmd(c).op = "readdir"
    BY <1>1, <2>1, WhereServed
  <2>3. Reads(c) /\ Obeys(c)'
    BY <1>2, <2>1, <2>2 DEF Reads, Obeys, Serves
  <2> QED BY <2>1, <2>2, <2>3, ReadsContinue
<1>4. CASE ReadDirStored(c)
  <2>1. job[c].at = "entries" /\ Store(c, "entries") /\ lock' = lock /\ UNCHANGED tables
    BY <1>4 DEF ReadDirStored, Store
  <2>2. at[c] = "list" /\ Cmd(c).op = "readdir"
    BY <1>1, <2>1, WhereServed
  <2>3. \/ Answer(c, "no_such_record", <<>>)
        \/ Answer(c, "ok", Page(job[c].rows, Cmd(c).offset))
    BY <1>4 DEF ReadDirStored
  <2>4. JobTurned(c) /\ Answered(c)' /\ Srv(c)' = Srv(c) /\ Pair(c)' = Pair(c) /\ Cmd(c)' = Cmd(c)
    BY <1>1, <2>3, AnswerTurns
  <2>5. LeavesConnections(c) /\ HoldsRequest(c)'
    BY <1>1, <2>1, <2>4, StoreHolds DEF Locked
  <2>6. Reads(c) /\ Obeys(c)'
    BY <1>2, <2>1, <2>2, <2>4 DEF Reads, Obeys, Serves, Answered
  <2> QED BY <2>2, <2>5, <2>6, ReadsContinue
<1> QED BY <1>3, <1>4

-----------------------------------------------------------------------------
(* The least and the largest number of a set *)

LEMMA LeastIsThere ==
    ASSUME NEW T \in SUBSET Nat, T # {}
    PROVE  \E x \in T : \A y \in T : x <= y
<1> DEFINE Below == {0..x : x \in T}
<1>1. Below \subseteq FiniteSubsetsOf(Nat) /\ Below # {}
  <2>1. ASSUME NEW x \in T PROVE 0..x \in FiniteSubsetsOf(Nat)
    <3>1. IsFiniteSet(0..x)
      BY FS_Interval
    <3> QED BY <3>1 DEF FiniteSubsetsOf
  <2> QED BY <2>1
<1>2. PICK b \in Below : \A d \in Below : ~(<<d, b>> \in StrictSubsetOrdering(Nat))
  BY <1>1, FS_StrictSubsetOrderingWellFounded, WFMin
<1>3. PICK x \in T : b = 0..x
  OBVIOUS
<1>4. ASSUME NEW y \in T PROVE x <= y
  <2>1. SUFFICES ASSUME y < x PROVE FALSE
    OBVIOUS
  <2>2. 0..y \subseteq 0..x /\ x \in 0..x /\ x \notin 0..y
    BY <2>1
  <2>3. 0..y \in Below /\ 0..y \subseteq Nat /\ 0..x \subseteq Nat
    OBVIOUS
  <2>4. 0..y # 0..x
    BY <2>2
  <2>5. <<0..y, 0..x>> \in StrictSubsetOrdering(Nat)
    BY <2>2, <2>3, <2>4 DEF StrictSubsetOrdering
  <2> HIDE DEF Below
  <2> QED BY <2>3, <2>5, <1>2, <1>3
<1> QED BY <1>4

LEMMA LargestIsThere ==
    ASSUME NEW S \in SUBSET Nat, IsFiniteSet(S), S # {}
    PROVE  Largest(S) \in S /\ \A y \in S : y <= Largest(S)
<1> DEFINE From(x) == {y \in S : x <= y}
           Above == {From(x) : x \in S}
<1>1. Above \subseteq FiniteSubsetsOf(S) /\ Above # {}
  <2>1. ASSUME NEW x \in S PROVE From(x) \in FiniteSubsetsOf(S)
    <3>1. From(x) \in SUBSET S
      OBVIOUS
    <3>2. IsFiniteSet(From(x))
      BY <3>1, FS_Subset
    <3> QED BY <3>1, <3>2 DEF FiniteSubsetsOf
  <2> QED BY <2>1
<1>2. PICK b \in Above : \A d \in Above : ~(<<d, b>> \in StrictSubsetOrdering(S))
  BY <1>1, FS_StrictSubsetOrderingWellFounded, WFMin
<1>3. PICK x \in S : b = From(x)
  OBVIOUS
<1>4. ASSUME NEW y \in S PROVE y <= x
  <2>1. SUFFICES ASSUME x < y PROVE FALSE
    OBVIOUS
  <2>2. From(y) \subseteq From(x) /\ x \in From(x) /\ x \notin From(y)
    <3>1. x \in Nat /\ y \in Nat /\ \A z \in S : z \in Nat
      OBVIOUS
    <3>2. ASSUME NEW z \in S, y <= z PROVE x <= z
      BY <2>1, <3>1, <3>2
    <3>3. x <= x /\ ~(y <= x)
      BY <2>1, <3>1
    <3> QED BY <3>2, <3>3
  <2>3. From(y) \in Above /\ From(y) \subseteq S /\ From(x) \subseteq S
    OBVIOUS
  <2> HIDE DEF From
  <2>4. From(y) # From(x)
    BY <2>2
  <2>5. <<From(y), From(x)>> \in StrictSubsetOrdering(S)
    BY <2>2, <2>3, <2>4 DEF StrictSubsetOrdering
  <2> HIDE DEF Above
  <2> QED BY <2>3, <2>5, <1>2, <1>3
<1> QED BY <1>4 DEF Largest

\* dbLookUp: the row it finds is one of the table.
LEMMA FirstRowOfTable ==
    ASSUME Tables, NEW p \in Pairs, NEW dir, NEW name, EntriesNamed(p, dir, name) # {}
    PROVE  \E i \in DOMAIN names[p] : FirstRow(p, EntriesNamed(p, dir, name)) = names[p][i]
<1> DEFINE T == EntriesNamed(p, dir, name)
<1>1. names[p] \in Seq(Range(names[p]))
  BY DEF Tables
<1>2. DOMAIN names[p] = 1..Len(names[p]) /\ Len(names[p]) \in Nat
  BY <1>1
<1>3. T \in SUBSET Nat /\ T \subseteq DOMAIN names[p]
  BY <1>2 DEF EntriesNamed
<1>4. \E i \in T : \A j \in T : i <= j
  BY <1>3, LeastIsThere
<1> HIDE DEF T
<1>5. (CHOOSE i \in T : \A j \in T : i <= j) \in T
  BY <1>4
<1> QED BY <1>3, <1>5 DEF FirstRow, T

\* dbLookUp: what it finds is a file that is whole.
LEMMA LookUpContinues ==
    ASSUME CreateInv, NEW c \in Clients, Serving, LookUp(c) \/ LookUpStored(c)
    PROVE  CreateInv'
<1>1. Shaped /\ HoldsRequest(c) /\ Obeys(c) /\ LooksUp(c) /\ Tables /\ NamesSettled
  BY DEF CreateInv, Sound, Holds
<1>2. at' = at
  BY DEF Serving, client
<1>3. CASE LookUp(c)
  <2> DEFINE found == EntriesNamed(Pair(c), Cmd(c).dir, Cmd(c).name)
             rows == IF found = {} THEN <<>> ELSE <<FirstRow(Pair(c), found)>>
  <2>1. Select(c, "select name", rows, "name")
    BY <1>3 DEF LookUp, NameRows
  <2> HIDE DEF rows
  <2>2. "name" \in Waiting /\ "select name" \notin Locked
    BY DEF Waiting, Locked
  <2>3. /\ LeavesConnections(c) /\ HoldsRequest(c)' /\ job[c].at = "select name"
        /\ JobTurned(c) /\ job'[c].at = "name" /\ job'[c].rows = rows /\ UNCHANGED tables
        /\ Srv(c)' = Srv(c) /\ Pair(c)' = Pair(c) /\ Cmd(c)' = Cmd(c)
    BY <1>1, <2>1, <2>2, SelectHolds
  <2>4. at[c] \in {"walk", "parent"} /\ Cmd(c).op = "lookup" /\ Pair(c) \in Pairs
    BY <1>1, <2>3, WhereServed
  <2>5. Reads(c) /\ Obeys(c)'
    BY <1>2, <2>3, <2>4 DEF Reads, Obeys, Serves
  <2>6. ASSUME rows # <<>> PROVE Settled(rows[1].home, rows[1].file)
    <3>1. found # {} /\ rows[1] = FirstRow(Pair(c), found)
      BY <2>6 DEF rows
    <3>2. PICK i \in DOMAIN names[Pair(c)] : FirstRow(Pair(c), found) = names[Pair(c)][i]
      BY <1>1, <2>4, <3>1, FirstRowOfTable
    <3> QED BY <1>1, <2>4, <3>1, <3>2 DEF NamesSettled
  <2>7. ~Succeeded(c)'
    BY <2>3 DEF Succeeded, Answered
  <2>8. LooksUp(c)'
    BY <2>3, <2>5, <2>6, <2>7, LooksUpNext
  <2> QED BY <2>3, <2>4, <2>5, <2>8, ReadsContinue
<1>4. CASE LookUpStored(c)
  <2>1. job[c].at = "name" /\ Store(c, "name") /\ lock' = lock /\ UNCHANGED tables
    BY <1>4 DEF LookUpStored, Store
  <2>2. at[c] \in {"walk", "parent"} /\ Cmd(c).op = "lookup" /\ Pair(c) \in Pairs
    BY <1>1, <2>1, WhereServed
  <2>3. \/ job[c].rows = <<>> /\ Answer(c, "no_such_record", <<>>)
        \/ job[c].rows # <<>> /\ Answer(c, "ok", job[c].rows)
    BY <1>4 DEF LookUpStored
  <2>4. JobTurned(c) /\ Answered(c)' /\ Srv(c)' = Srv(c) /\ Pair(c)' = Pair(c) /\ Cmd(c)' = Cmd(c)
    BY <1>1, <2>3, AnswerTurns
  <2>5. \/ job'[c].status = "no_such_record" /\ job'[c].rows = <<>>
        \/ job[c].rows # <<>> /\ job'[c].rows = job[c].rows
    BY <1>1, <2>3, AnswerTurns
  <2>6. LeavesConnections(c) /\ HoldsRequest(c)'
    BY <1>1, <2>1, <2>4, StoreHolds DEF Locked
  <2>7. Reads(c) /\ Obeys(c)'
    BY <1>2, <2>1, <2>2, <2>4 DEF Reads, Obeys, Serves, Answered
  <2>8. job[c].rows # <<>> => Settled(job[c].rows[1].home, job[c].rows[1].file)
    BY <1>1, <2>1, <2>2 DEF LooksUp
  <2>9. LooksUp(c)'
    <3>1. Succeeded(c)' => job'[c].rows # <<>>
      BY <2>5 DEF Succeeded
    <3>2. job'[c].rows # <<>> => Settled(job'[c].rows[1].home, job'[c].rows[1].file)
      BY <2>5, <2>8
    <3> QED BY <2>7, <3>1, <3>2, LooksUpNext
  <2> QED BY <2>2, <2>6, <2>7, <2>9, ReadsContinue
<1> QED BY <1>3, <1>4

\* dbGetAttr: the inode and its data handles belong together, however the two
\* selects are apart.
LEMMA RowsOfSettled ==
    ASSUME LaidOut, NEW p, NEW h, Settled(p, h), NEW rows,
           rows = <<inode[p][h]>> \o HandlesOf(p, h)
    PROVE  /\ rows[1] = inode[p][h] /\ Len(rows) = 1 + Len(HandlesOf(p, h))
           /\ Len(HandlesOf(p, h)) \in Nat
<1>1. p \in Pairs /\ h \in DOMAIN inode[p] /\ Len(HandlesOf(p, h)) = 2 * inode[p][h].stripes
  BY DEF Settled, Complete
<1>2. HandlesOf(p, h) \in Seq(Extent)
  BY <1>1 DEF LaidOut
<1> DEFINE S == Extent \cup {inode[p][h]}
           t == HandlesOf(p, h)
<1>3. t \in Seq(S) /\ <<inode[p][h]>> \in Seq(S)
  BY <1>2
<1> HIDE DEF S, t
<1>4. Len(<<inode[p][h]>> \o t) = 1 + Len(t) /\ (<<inode[p][h]>> \o t)[1] = inode[p][h]
  BY <1>3
<1> QED BY <1>1, <1>4 DEF t

LEMMA GetAttrContinues ==
    ASSUME CreateInv, NEW c \in Clients, Serving,
           GetAttr(c) \/ GetAttrStored(c) \/ GetHandles(c) \/ GetHandlesStored(c)
    PROVE  CreateInv'
<1> DEFINE p == Pair(c)
           h == Cmd(c).file
<1>1. Shaped /\ HoldsRequest(c) /\ Obeys(c) /\ Examines(c) /\ LaidOut
  BY DEF CreateInv, Sound, Holds
<1>2. at' = at
  BY DEF Serving, client
<1>3. CASE GetAttr(c)
  <2> DEFINE rows == IF h \in DOMAIN inode[p] THEN <<inode[p][h]>> ELSE <<>>
  <2>1. Select(c, "select inode", rows, "inode")
    BY <1>3 DEF GetAttr, InodeRows
  <2> HIDE DEF rows
  <2>2. "inode" \in Waiting /\ "select inode" \notin Locked
    BY DEF Waiting, Locked
  <2>3. /\ LeavesConnections(c) /\ HoldsRequest(c)' /\ job[c].at = "select inode"
        /\ JobTurned(c) /\ job'[c].at = "inode" /\ job'[c].rows = rows /\ UNCHANGED tables
        /\ Srv(c)' = Srv(c) /\ Pair(c)' = Pair(c) /\ Cmd(c)' = Cmd(c)
    BY <1>1, <2>1, <2>2, SelectHolds
  <2>4. at[c] = "attributes of" /\ Cmd(c).op = "getattr"
    BY <1>1, <2>3, WhereServed
  <2>5. Reads(c) /\ Obeys(c)'
    BY <1>2, <2>3, <2>4 DEF Reads, Obeys, Serves
  <2>6. rows = <<inode[p][h]>>
    BY <1>1, <2>4 DEF Examines, Settled, Complete, rows
  <2>7. Examines(c)'
    BY <2>3, <2>4, <2>5, <2>6, ExaminesNext DEF Succeeded, Answered
  <2> QED BY <2>3, <2>4, <2>5, <2>7, ReadsContinue
<1>4. CASE GetAttrStored(c)
  <2>1. job[c].at = "inode" /\ Store(c, "inode") /\ lock' = lock /\ UNCHANGED tables
    BY <1>4 DEF GetAttrStored, Store
  <2>2. at[c] = "attributes of" /\ Cmd(c).op = "getattr"
    BY <1>1, <2>1, WhereServed
  <2>3. job[c].rows = <<inode[p][h]>>
    BY <1>1, <2>1, <2>2 DEF Examines
  <2>4. Then(c, "select handles", job[c].rows)
    <3>1. job[c].rows # <<>>
      BY <2>3
    <3> QED BY <1>4, <3>1 DEF GetAttrStored
  <2>5. /\ JobTurned(c) /\ job'[c].at = "select handles" /\ job'[c].rows = job[c].rows
        /\ Srv(c)' = Srv(c) /\ Pair(c)' = Pair(c) /\ Cmd(c)' = Cmd(c)
    BY <1>1, <2>4, ThenTurns
  <2>6. LeavesConnections(c) /\ HoldsRequest(c)'
    BY <1>1, <2>1, <2>5, StoreHolds DEF Locked
  <2>7. Reads(c) /\ Obeys(c)'
    BY <1>2, <2>1, <2>2, <2>5 DEF Reads, Obeys, Serves
  <2>8. Examines(c)'
    BY <2>2, <2>3, <2>5, <2>7, ExaminesNext DEF Succeeded, Answered
  <2> QED BY <2>2, <2>6, <2>7, <2>8, ReadsContinue
<1>5. CASE GetHandles(c)
  <2> DEFINE rows == job[c].rows \o HandlesOf(p, h)
  <2>1. Select(c, "select handles", rows, "handles")
    BY <1>5 DEF GetHandles
  <2> HIDE DEF rows
  <2>2. "handles" \in Waiting /\ "select handles" \notin Locked
    BY DEF Waiting, Locked
  <2>3. /\ LeavesConnections(c) /\ HoldsRequest(c)' /\ job[c].at = "select handles"
        /\ JobTurned(c) /\ job'[c].at = "handles" /\ job'[c].rows = rows /\ UNCHANGED tables
        /\ Srv(c)' = Srv(c) /\ Pair(c)' = Pair(c) /\ Cmd(c)' = Cmd(c)
    BY <1>1, <2>1, <2>2, SelectHolds
  <2>4. at[c] = "attributes of" /\ Cmd(c).op = "getattr"
    BY <1>1, <2>3, WhereServed
  <2>5. Reads(c) /\ Obeys(c)'
    BY <1>2, <2>3, <2>4 DEF Reads, Obeys, Serves
  <2>6. rows = <<inode[p][h]>> \o HandlesOf(p, h)
    BY <1>1, <2>3, <2>4 DEF Examines, rows
  <2>7. Examines(c)'
    BY <2>3, <2>4, <2>5, <2>6, ExaminesNext
  <2> QED BY <2>3, <2>4, <2>5, <2>7, ReadsContinue
<1>6. CASE GetHandlesStored(c)
  <2>1. job[c].at = "handles" /\ Store(c, "handles") /\ lock' = lock /\ UNCHANGED tables
    BY <1>6 DEF GetHandlesStored, Store
  <2>2. at[c] = "attributes of" /\ Cmd(c).op = "getattr"
    BY <1>1, <2>1, WhereServed
  <2>3. Settled(p, h) /\ job[c].rows = <<inode[p][h]>> \o HandlesOf(p, h)
    BY <1>1, <2>1, <2>2 DEF Examines
  <2>4. /\ job[c].rows[1] = inode[p][h] /\ Len(job[c].rows) = 1 + Len(HandlesOf(p, h))
        /\ Len(HandlesOf(p, h)) \in Nat
    BY <1>1, <2>3, RowsOfSettled
  <2>5. Len(job[c].rows) <= 1 + 2 * job[c].rows[1].stripes
    <3>1. inode[p][h].stripes \in {0, Stripes} /\ Len(HandlesOf(p, h)) = 2 * inode[p][h].stripes
      BY <2>3 DEF CreateInv, Tables, Settled, Complete
    <3> QED BY <2>4, <3>1, CountsOfCopies
  <2>6. Answer(c, "ok", job[c].rows)
    BY <1>6, <2>5 DEF GetHandlesStored
  <2>7. /\ JobTurned(c) /\ Answered(c)' /\ job'[c].rows = job[c].rows
        /\ Srv(c)' = Srv(c) /\ Pair(c)' = Pair(c) /\ Cmd(c)' = Cmd(c)
    BY <1>1, <2>6, AnswerTurns
  <2>8. LeavesConnections(c) /\ HoldsRequest(c)'
    BY <1>1, <2>1, <2>7, StoreHolds DEF Locked
  <2>9. Reads(c) /\ Obeys(c)'
    BY <1>2, <2>1, <2>2, <2>7 DEF Reads, Obeys, Serves, Answered
  <2>10. Examines(c)'
    BY <2>2, <2>3, <2>7, <2>9, ExaminesNext DEF Answered
  <2> QED BY <2>2, <2>8, <2>9, <2>10, ReadsContinue
<1> QED BY <1>3, <1>4, <1>5, <1>6

\* dbSetAttr: are the data handles set?
LEMMA CheckHandlesContinues ==
    ASSUME CreateInv, NEW c \in Clients, Serving, CheckHandles(c) \/ CheckHandlesStored(c)
    PROVE  CreateInv'
<1> DEFINE rows == HandlesOf(my[c].new.pair, my[c].new.handle)
<1>1. Shaped /\ HoldsRequest(c) /\ Obeys(c) /\ Sets(c) /\ Drawn(c)
  BY DEF CreateInv, Sound, Holds
<1>2. at' = at
  BY DEF Serving, client
<1>3. CASE CheckHandles(c)
  <2>1. Select(c, "check handles", HandlesOf(Pair(c), Cmd(c).file), "checked")
    BY <1>3 DEF CheckHandles
  <2>2. "checked" \in Waiting /\ "check handles" \notin Locked
    BY DEF Waiting, Locked
  <2>3. /\ LeavesConnections(c) /\ HoldsRequest(c)' /\ job[c].at = "check handles"
        /\ JobTurned(c) /\ job'[c].at = "checked" /\ job'[c].rows = HandlesOf(Pair(c), Cmd(c).file)
        /\ UNCHANGED tables
        /\ Srv(c)' = Srv(c) /\ Pair(c)' = Pair(c) /\ Cmd(c)' = Cmd(c)
    BY <1>1, <2>1, <2>2, SelectHolds
  <2>4. at[c] = "attributes" /\ Cmd(c).op = "setattr"
    BY <1>1, <2>3, WhereServed
  <2>5. Reads(c) /\ Obeys(c)'
    BY <1>2, <2>3, <2>4 DEF Reads, Obeys, Serves
  <2>6. job'[c].rows = rows
    BY <1>1, <2>3, <2>4 DEF Sets
  <2>7. Sets(c)'
    BY <2>3, <2>4, <2>5, <2>6, SetsNext DEF Succeeded, Answered
  <2> QED BY <2>3, <2>4, <2>5, <2>7, ReadsContinue
<1>4. CASE CheckHandlesStored(c)
  <2>1. job[c].at = "checked" /\ Store(c, "checked") /\ lock' = lock /\ UNCHANGED tables
    BY <1>4 DEF CheckHandlesStored, Store
  <2>2. at[c] = "attributes" /\ Cmd(c).op = "setattr"
    BY <1>1, <2>1, WhereServed
  <2>3. job[c].rows = rows /\ Cmd(c).extents = Rows(c) /\ Rows(c) \in Seq(Extent)
    BY <1>1, <2>1, <2>2 DEF Sets, Drawn
  <2>4. \/ rows # <<>> /\ Answer(c, "protocol_error", <<>>)
        \/ rows = <<>> /\ Rows(c) = <<>> /\ Answer(c, "ok", <<>>)
        \/ rows = <<>> /\ Rows(c) # <<>> /\ Then(c, "insert handle", <<>>)
    BY <1>4, <2>3 DEF CheckHandlesStored, AlreadySet
  <2> HIDE DEF rows
  <2>5. JobTurned(c) /\ Srv(c)' = Srv(c) /\ Pair(c)' = Pair(c) /\ Cmd(c)' = Cmd(c)
    BY <1>1, <2>4, AnswerTurns, ThenTurns
  <2>6. \/ Answered(c)' /\ job'[c].status = "protocol_error"
        \/ rows = <<>> /\ Rows(c) = <<>> /\ Answered(c)'
        \/ rows = <<>> /\ Rows(c) # <<>> /\ job'[c].at = "insert handle" /\ job'[c].rows = <<>>
    BY <1>1, <2>4, AnswerTurns, ThenTurns
  <2>7. LeavesConnections(c) /\ HoldsRequest(c)'
    BY <1>1, <2>1, <2>5, StoreHolds DEF Locked
  <2>8. Reads(c) /\ Obeys(c)'
    BY <1>2, <2>1, <2>2, <2>5, <2>6 DEF Reads, Obeys, Serves, Answered
  <2>9. job'[c].at = "insert handle" => Len(rows) < Len(Rows(c))
    <3> SUFFICES ASSUME rows = <<>>, Rows(c) # <<>> PROVE Len(rows) < Len(Rows(c))
      BY <2>6 DEF Answered
    <3> QED BY <2>3
  <2>10. Sets(c)'
    BY <2>1, <2>2, <2>6, <2>8, <2>9, SetsNext DEF Succeeded, Answered, rows
  <2> QED BY <2>2, <2>7, <2>8, <2>10, ReadsContinue
<1> QED BY <1>3, <1>4

-----------------------------------------------------------------------------
(* Requests that fail, or are made again *)

LEMMA FirstSteps ==
    /\ FirstStep("lookup") = "select name" /\ FirstStep("readdir") = "select entries"
    /\ FirstStep("getattr") = "select inode" /\ FirstStep("setattr") = "update inode"
    /\ FirstStep("alloc") = "lock" /\ FirstStep("add") = "insert name"
  BY DEF FirstStep

\* A request under way is that of a handler.
LEMMA UnderWay ==
    ASSUME NEW c \in Clients, Obeys(c), job[c].at # "none"
    PROVE  /\ at[c] \notin {"idle", "extents", "counted", "next page"}
           /\ Cmd(c).op \in {"lookup", "readdir", "getattr", "alloc", "setattr", "add"}
           /\ FirstStep(Cmd(c).op) \notin Waiting \cup Locked
<1>1. job[c] # NoJob
  BY DEF NoJob
<1>2. /\ at[c] \notin {"idle", "extents", "counted", "next page"}
      /\ Cmd(c).op \in {"lookup", "readdir", "getattr", "alloc", "setattr", "add"}
  BY <1>1 DEF Obeys, Serves
<1>3. FirstStep(Cmd(c).op) \notin Waiting \cup Locked
  BY <1>2, FirstSteps DEF Waiting, Locked
<1> QED BY <1>2, <1>3

\* A request that ends in an error changes nothing else.
LEMMA FailureContinues ==
    ASSUME CreateInv, NEW c \in Clients, Serving, NEW status, status # "ok",
           Answer(c, status, <<>>), UNCHANGED <<tables, result>>, lock' = lock \/ Unlock(c),
           job[c].at # "none", job[c].at \notin Waiting, job[c].at \notin Locked \/ Unlock(c)
    PROVE  CreateInv'
<1>1. Shaped /\ HoldsRequest(c) /\ Obeys(c) /\ Sets(c) /\ Examines(c)
  BY DEF CreateInv, Sound, Holds
<1>2. at' = at
  BY DEF Serving, client
<1>3. JobTurned(c) /\ Answered(c)' /\ job'[c].status = status /\ job'[c].rows = <<>>
      /\ Srv(c)' = Srv(c) /\ Pair(c)' = Pair(c) /\ Cmd(c)' = Cmd(c)
  BY <1>1, AnswerTurns
<1>4. LeavesConnections(c) /\ HoldsRequest(c)'
  BY <1>1, StatementHolds
<1>5. ~Succeeded(c)'
  BY <1>3 DEF Succeeded
<1>6. Reads(c)
  BY <1>3, <1>5 DEF Reads
<1>7. Obeys(c)'
  BY <1>1, <1>2, <1>3, UnderWay DEF Obeys, Serves, Answered
<1>8. at[c] = "attributes" => Sets(c)'
  BY <1>3, <1>5, <1>6, SetsNext DEF Answered
<1>9. LooksUp(c)'
  BY <1>3, <1>5 DEF LooksUp, Answered
<1>10. at[c] = "attributes of" => Examines(c)'
  BY <1>3, <1>5, <1>6, ExaminesNext DEF Answered
<1> QED BY <1>4, <1>6, <1>7, <1>8, <1>9, <1>10, ReadsContinue

LEMMA OutOfSyncContinues ==
    ASSUME CreateInv, NEW c \in Clients, Serving, OutOfSync(c)
    PROVE  CreateInv'
<1>1. Answer(c, "db_error", <<>>) /\ Unlock(c) /\ UNCHANGED <<tables, result>>
  BY DEF OutOfSync, Statements
<1>2. job[c].at # "none" /\ job[c].at \notin Waiting
  BY DEF OutOfSync, Statements, Waiting
<1> QED BY <1>1, <1>2, FailureContinues

LEMMA TransmissionFailsContinues ==
    ASSUME CreateInv, NEW c \in Clients, TransmissionFails(c)
    PROVE  CreateInv'
<1>1. Answer(c, "transmission_failed", <<>>) /\ lock' = lock /\ UNCHANGED <<tables, result>>
      /\ Serving /\ job[c].at # "none" /\ job[c].at = FirstStep(Cmd(c).op)
  BY DEF TransmissionFails
<1>2. job[c].at \notin Waiting \cup Locked
  BY <1>1, UnderWay DEF CreateInv, Sound
<1> QED BY <1>1, <1>2, FailureContinues

\* hfsDegradedMDSRequest: the backup begins anew.
LEMMA RetryContinues ==
    ASSUME CreateInv, NEW c \in Clients, Retry(c)
    PROVE  CreateInv'
<1>1. Serve(c, <<Pair(c), "backup">>, Cmd(c)) /\ Serving /\ UNCHANGED <<tables, result, lock>>
      /\ Answered(c)
  BY DEF Retry
<1>2. Shaped /\ HoldsRequest(c) /\ Obeys(c) /\ Sets(c) /\ Examines(c)
  BY DEF CreateInv, Sound, Holds
<1>3. at' = at
  BY <1>1 DEF Serving, client
<1>4. JobTurned(c) /\ job'[c].at = FirstStep(Cmd(c).op) /\ job'[c].rows = <<>>
      /\ Pair(c)' = Pair(c) /\ Cmd(c)' = Cmd(c)
  <2>1. /\ JobTurned(c)
        /\ job'[c] = [at |-> FirstStep(Cmd(c).op), srv |-> <<Pair(c), "backup">>, cmd |-> Cmd(c),
                      rows |-> <<>>, status |-> "none"]
    BY <1>1, <1>2, ServeTurns
  <2>2. Pair(c)' = job'[c].srv[1] /\ Cmd(c)' = job'[c].cmd
    BY DEF Pair, Cmd
  <2> QED BY <2>1, <2>2
<1>5. job[c].at \notin Waiting \cup Locked \cup {"none"}
  BY <1>1 DEF Answered, Waiting, Locked
<1>6. LeavesConnections(c) /\ HoldsRequest(c)'
  <2>1. result' = result /\ lock' = lock
    BY <1>1
  <2> QED BY <1>2, <1>5, <2>1 DEF Shaped, LeavesConnections, HoldsRequest
<1>7. /\ at[c] \notin {"idle", "extents", "counted", "next page"}
      /\ Cmd(c).op \in {"lookup", "readdir", "getattr", "alloc", "setattr", "add"}
  BY <1>2, <1>5, UnderWay
<1>8. ~Answered(c)'
  BY <1>4, <1>7, FirstSteps DEF Answered
<1>9. Reads(c)
  BY <1>1, <1>4, <1>8 DEF Reads, Succeeded
<1>10. Obeys(c)'
  <2>1. ASSUME NEW op, NEW steps, Serves(c, op, steps), FirstStep(op) \in steps
        PROVE  Serves(c, op, steps)'
    BY <1>4, <2>1 DEF Serves
  <2>2. at[c] = "inode" => job'[c].at = "lock"
    BY <1>2, <1>4, FirstSteps DEF Obeys, Serves
  <2> QED BY <1>2, <1>3, <1>4, <1>7, <2>1, <2>2, FirstSteps DEF Obeys
<1>11. at[c] = "attributes" => Sets(c)'
  <2> SUFFICES ASSUME at[c] = "attributes" PROVE Sets(c)'
    OBVIOUS
  <2>1. job'[c].at = "update inode"
    BY <1>2, <1>4, <1>7, FirstSteps DEF Obeys, Serves
  <2> QED BY <1>8, <1>9, <2>1, SetsNext DEF Succeeded
<1>12. LooksUp(c)'
  BY <1>4, <1>8 DEF LooksUp, Succeeded
<1>13. at[c] = "attributes of" => Examines(c)'
  <2> SUFFICES ASSUME at[c] = "attributes of" PROVE Examines(c)'
    OBVIOUS
  <2>1. job'[c].at = "select inode"
    BY <1>2, <1>4, <1>7, FirstSteps DEF Obeys, Serves
  <2> QED BY <1>8, <1>9, <2>1, ExaminesNext DEF Succeeded
<1> QED BY <1>6, <1>9, <1>10, <1>11, <1>12, <1>13, ReadsContinue

-----------------------------------------------------------------------------
(* dbAllocMetaDataHandle *)

LEMMA FirstOfOne == \A x : <<x>>[1] = x
  OBVIOUS

LEMMA LockContinues ==
    ASSUME CreateInv, NEW c \in Clients, Serving, LockUpdates(c)
    PROVE  CreateInv'
<1>1. Shaped /\ HoldsRequest(c) /\ Obeys(c)
  BY DEF CreateInv, Sound, Holds
<1>2. at' = at
  BY DEF Serving, client
<1>3. job[c].at = "lock" /\ lock' = [lock EXCEPT ![Srv(c)] = c] /\ Then(c, "select free", <<>>)
      /\ result' = result /\ UNCHANGED tables
  BY DEF LockUpdates
<1>4. /\ JobTurned(c) /\ job'[c].at = "select free"
      /\ Srv(c)' = Srv(c) /\ Pair(c)' = Pair(c) /\ Cmd(c)' = Cmd(c)
  BY <1>1, <1>3, ThenTurns
<1>5. at[c] = "inode" /\ Cmd(c).op = "alloc" /\ Pair(c) \in Pairs
  BY <1>1, <1>3, WhereServed
<1>6. LeavesConnections(c) /\ HoldsRequest(c)'
  BY <1>1, <1>3, <1>4 DEF Shaped, LeavesConnections, HoldsRequest, Waiting, Locked
<1>7. Reads(c) /\ Obeys(c)'
  BY <1>2, <1>3, <1>4, <1>5 DEF Reads, Obeys, Serves, Succeeded, Answered, Locked
<1> QED BY <1>5, <1>6, <1>7, ReadsContinue

LEMMA SelectFreeContinues ==
    ASSUME CreateInv, NEW c \in Clients, Serving, SelectFree(c) \/ FreeStored(c)
    PROVE  CreateInv'
<1>1. Shaped /\ HoldsRequest(c) /\ Obeys(c)
  BY DEF CreateInv, Sound, Holds
<1>2. at' = at
  BY DEF Serving, client
<1>3. CASE SelectFree(c)
  <2>1. Select(c, "select free", <<>>, "free")
    BY <1>3 DEF SelectFree
  <2>2. "free" \in Waiting /\ "free" \in Locked /\ "select free" \in Locked
    BY DEF Waiting, Locked
  <2>3. /\ LeavesConnections(c) /\ HoldsRequest(c)' /\ job[c].at = "select free"
        /\ JobTurned(c) /\ job'[c].at = "free" /\ UNCHANGED tables
        /\ Srv(c)' = Srv(c) /\ Pair(c)' = Pair(c) /\ Cmd(c)' = Cmd(c)
    BY <1>1, <2>1, <2>2, SelectHolds
  <2>4. at[c] = "inode" /\ Cmd(c).op = "alloc" /\ Pair(c) \in Pairs
    BY <1>1, <2>2, <2>3, WhereServed
  <2>5. Reads(c) /\ Obeys(c)'
    BY <1>2, <2>3, <2>4 DEF Reads, Obeys, Serves, Succeeded, Answered, Locked
  <2> QED BY <2>3, <2>4, <2>5, ReadsContinue
<1>4. CASE FreeStored(c)
  <2>1. job[c].at = "free" /\ Store(c, "free") /\ lock' = lock /\ UNCHANGED tables
        /\ Then(c, "select max", <<>>)
    BY <1>4 DEF FreeStored, Store
  <2>2. at[c] = "inode" /\ Cmd(c).op = "alloc" /\ Pair(c) \in Pairs
    BY <1>1, <2>1, WhereServed DEF Locked
  <2>3. /\ JobTurned(c) /\ job'[c].at = "select max"
        /\ Srv(c)' = Srv(c) /\ Pair(c)' = Pair(c) /\ Cmd(c)' = Cmd(c)
    BY <1>1, <2>1, ThenTurns
  <2>4. LeavesConnections(c) /\ HoldsRequest(c)'
    BY <1>1, <2>1, <2>3, StoreHolds DEF Locked
  <2>5. Reads(c) /\ Obeys(c)'
    BY <1>2, <2>1, <2>2, <2>3 DEF Reads, Obeys, Serves, Succeeded, Answered, Locked
  <2> QED BY <2>2, <2>4, <2>5, ReadsContinue
<1> QED BY <1>3, <1>4

LEMMA SelectMaxContinues ==
    ASSUME CreateInv, NEW c \in Clients, Serving, SelectMax(c) \/ MaxStored(c)
    PROVE  CreateInv'
<1>1. Shaped /\ HoldsRequest(c) /\ Obeys(c) /\ Tables
  BY DEF CreateInv, Sound, Holds
<1>2. at' = at
  BY DEF Serving, client
<1>3. CASE SelectMax(c)
  <2> DEFINE most == Largest(DOMAIN inode[Pair(c)])
  <2>1. Select(c, "select max", <<most>>, "max")
    BY <1>3 DEF SelectMax
  <2>2. "max" \in Waiting /\ "max" \in Locked /\ "select max" \in Locked
    BY DEF Waiting, Locked
  <2>3. /\ LeavesConnections(c) /\ HoldsRequest(c)' /\ job[c].at = "select max"
        /\ JobTurned(c) /\ job'[c].at = "max" /\ job'[c].rows = <<most>> /\ UNCHANGED tables
        /\ Srv(c)' = Srv(c) /\ Pair(c)' = Pair(c) /\ Cmd(c)' = Cmd(c)
    BY <1>1, <2>1, <2>2, SelectHolds
  <2>4. at[c] = "inode" /\ Cmd(c).op = "alloc" /\ Pair(c) \in Pairs
    BY <1>1, <2>2, <2>3, WhereServed
  <2>5. most \in Nat
    <3>1. DOMAIN inode[Pair(c)] \in SUBSET Nat /\ IsFiniteSet(DOMAIN inode[Pair(c)])
          /\ DOMAIN inode[Pair(c)] # {}
      BY <1>1, <2>4 DEF Tables
    <3>2. most \in DOMAIN inode[Pair(c)]
      BY <3>1, LargestIsThere
    <3> QED BY <3>1, <3>2
  <2> HIDE DEF most
  <2>6. Reads(c) /\ Obeys(c)'
    <3>1. job'[c].rows[1] \in Nat
      BY <2>3, <2>5, FirstOfOne
    <3> QED BY <1>2, <2>3, <2>4, <3>1 DEF Reads, Obeys, Serves, Succeeded, Answered, Locked
  <2> QED BY <2>3, <2>4, <2>6, ReadsContinue
<1>4. CASE MaxStored(c)
  <2>1. job[c].at = "max" /\ Store(c, "max") /\ lock' = lock /\ UNCHANGED tables
        /\ Then(c, "insert inode", <<job[c].rows[1] + 1>>)
    BY <1>4 DEF MaxStored, Store
  <2>2. at[c] = "inode" /\ Cmd(c).op = "alloc" /\ Pair(c) \in Pairs
    BY <1>1, <2>1, WhereServed DEF Locked
  <2>3. job[c].rows[1] \in Nat
    BY <1>1, <2>1, <2>2 DEF Obeys
  <2>4. /\ JobTurned(c) /\ job'[c].at = "insert inode" /\ job'[c].rows = <<job[c].rows[1] + 1>>
        /\ Srv(c)' = Srv(c) /\ Pair(c)' = Pair(c) /\ Cmd(c)' = Cmd(c)
    <3>1. PICK next : next = <<job[c].rows[1] + 1>>
      OBVIOUS
    <3>2. Then(c, "insert inode", next)
      BY <2>1, <3>1
    <3>3. /\ JobTurned(c) /\ job'[c].at = "insert inode" /\ job'[c].rows = next
          /\ Srv(c)' = Srv(c) /\ Pair(c)' = Pair(c) /\ Cmd(c)' = Cmd(c)
      BY <1>1, <3>2, ThenTurns
    <3> QED BY <3>1, <3>3
  <2>5. job'[c].rows[1] \in Nat
    <3>1. job'[c].rows[1] = job[c].rows[1] + 1
      BY <2>4, FirstOfOne
    <3> QED BY <2>3, <3>1
  <2>6. LeavesConnections(c) /\ HoldsRequest(c)'
    BY <1>1, <2>1, <2>4, StoreHolds DEF Locked
  <2>7. Reads(c) /\ Obeys(c)'
    BY <1>2, <2>1, <2>2, <2>4, <2>5 DEF Reads, Obeys, Serves, Succeeded, Answered, Locked
  <2> QED BY <2>2, <2>6, <2>7, ReadsContinue
<1> QED BY <1>3, <1>4

-----------------------------------------------------------------------------
(* Requests that write *)

LEMMA BeginsMore ==
    ASSUME NEW all \in Seq(Extent), NEW rows, Begins(rows, all), Len(rows) < Len(all)
    PROVE  LET more == Append(rows, all[Len(rows) + 1])
           IN /\ Begins(more, all) /\ Len(more) = Len(rows) + 1
              /\ Len(more) = Len(all) => more = all
<1> DEFINE n == Len(rows)
           more == Append(rows, all[n + 1])
<1>1. n \in Nat /\ rows = SubSeq(all, 1, n) /\ n < Len(all) /\ Len(all) \in Nat
  BY DEF Begins
<1> HIDE DEF n
<1>2. rows \in Seq(Extent) /\ Len(rows) = n /\ \A i \in 1..n : rows[i] = all[i]
  BY <1>1
<1>3. all[n + 1] \in Extent
  BY <1>1
<1>4. more \in Seq(Extent) /\ Len(more) = n + 1 /\ \A i \in 1..n + 1 : more[i] = all[i]
  BY <1>1, <1>2, <1>3
<1>5. SubSeq(all, 1, n + 1) \in Seq(Extent) /\ Len(SubSeq(all, 1, n + 1)) = n + 1
      /\ \A i \in 1..n + 1 : SubSeq(all, 1, n + 1)[i] = all[i]
  BY <1>1
<1> HIDE DEF more
<1>6. more = SubSeq(all, 1, n + 1)
  BY <1>4, <1>5, SeqEqual
<1>7. n + 1 = Len(all) => more = all
  BY <1>4, SeqEqual
<1> QED BY <1>1, <1>4, <1>6, <1>7 DEF Begins, more, n

\* Whoever sets attributes sets those of its own inode.
LEMMA SetsItsOwn ==
    ASSUME CreateInv, NEW c \in Clients, at[c] = "attributes"
    PROVE  LET p == Pair(c)
               h == Cmd(c).file
           IN /\ Owns(c, p, h) /\ p \in Pairs /\ h \in DOMAIN inode[p]
              /\ p = my[c].new.pair /\ h = my[c].new.handle
<1>1. Pair(c) = my[c].new.pair /\ Cmd(c).file = my[c].new.handle
  BY DEF CreateInv, Sound, Sets
<1>2. Owns(c, Pair(c), Cmd(c).file)
  BY <1>1 DEF Owns
<1> QED BY <1>1, <1>2 DEF CreateInv, Sound, OwnsFresh

\* dbSetAttr: the inode.
LEMMA SetAttrContinues ==
    ASSUME CreateInv, NEW c \in Clients, Serving, SetAttr(c)
    PROVE  CreateInv' /\ WritesOwn(c)
<1> DEFINE p == Pair(c)
           h == Cmd(c).file
           set == [mode |-> Cmd(c).mode, stripes |-> Cmd(c).stripes]
<1>1. Shaped /\ HoldsRequest(c) /\ Obeys(c) /\ Sets(c) /\ Drawn(c) /\ Tables
  BY DEF CreateInv, Sound, Holds
<1>2. at' = at /\ my' = my /\ script' = script
  BY DEF Serving, client
<1>3. /\ job[c].at = "update inode" /\ Then(c, "check handles", <<>>)
      /\ inode' = [inode EXCEPT ![p] = [x \in DOMAIN inode[p] |->
                                           IF x = h THEN set ELSE inode[p][x]]]
      /\ UNCHANGED <<extents, names, result, lock>>
  BY DEF SetAttr, Statement
<1> HIDE DEF set
<1>4. JobTurned(c) /\ job'[c].at = "check handles"
      /\ Srv(c)' = Srv(c) /\ Pair(c)' = Pair(c) /\ Cmd(c)' = Cmd(c)
  BY <1>1, <1>3, ThenTurns
<1>5. at[c] = "attributes" /\ Cmd(c).op = "setattr"
  BY <1>1, <1>3, WhereServed
<1>6. Owns(c, p, h) /\ p \in Pairs /\ h \in DOMAIN inode[p]
      /\ p = my[c].new.pair /\ h = my[c].new.handle
  BY <1>5, SetsItsOwn
<1>7. set \in [mode : {"none", "dir", "file"}, stripes : {0, Stripes}]
  <2>1. Cmd(c).mode \in {"dir", "file"} /\ Cmd(c).stripes = Len(Rows(c)) \div 2
    BY <1>1, <1>5 DEF Sets
  <2>2. Len(Rows(c)) \in {0, Copies}
    BY <1>1, <1>5 DEF Drawn
  <2>3. 0 \div 2 = 0
    OBVIOUS
  <2> QED BY <2>1, <2>2, <2>3, CountsOfCopies DEF set
<1> HIDE DEF p, h
<1>8. /\ DOMAIN inode' = Pairs /\ DOMAIN inode'[p] = DOMAIN inode[p] /\ inode'[p][h] = set
      /\ \A x \in DOMAIN inode[p] : x # h => inode'[p][x] = inode[p][x]
      /\ \A q \in Pairs : q # p => inode'[q] = inode[q]
  BY <1>1, <1>3, <1>6 DEF Tables
<1>9. extents' = extents /\ names' = names /\ result' = result /\ lock' = lock
  BY <1>3
<1>10. \A q \in Pairs : DOMAIN inode'[q] = DOMAIN inode[q]
  BY <1>8
<1>11. Tables'
  <2>1. \A q \in Pairs : \A x \in DOMAIN inode'[q] :
          inode'[q][x] \in [mode : {"none", "dir", "file"}, stripes : {0, Stripes}]
    BY <1>1, <1>7, <1>8 DEF Tables
  <2> QED BY <1>1, <1>8, <1>9, <1>10, <2>1 DEF Tables
<1>12. \A q, x : HandlesOf(q, x)' = HandlesOf(q, x)
  BY <1>9 DEF HandlesOf
<1>13. WritesOwn(c)
  BY <1>2, <1>5, <1>6, <1>8, <1>9, <1>10, <1>12 DEF WritesOwn, Unwritten
<1>14. LeavesConnections(c) /\ HoldsRequest(c)'
  BY <1>1, <1>3, <1>9, StatementHolds DEF Waiting, Locked
<1>15. Obeys(c)'
  BY <1>2, <1>4, <1>5 DEF Obeys, Serves
<1>16. Sets(c)'
  <2>1. inode'[my[c].new.pair][my[c].new.handle] = [mode |-> Cmd(c).mode, stripes |-> Cmd(c).stripes]
    BY <1>6, <1>8 DEF set
  <2>2. HandlesOf(my[c].new.pair, my[c].new.handle)' = HandlesOf(my[c].new.pair, my[c].new.handle)
    BY <1>2, <1>9 DEF HandlesOf
  <2>3. Rows(c)' = Rows(c) /\ Call(c)' = Call(c) /\ ~Succeeded(c)'
    BY <1>2, <1>4 DEF Rows, Call, Succeeded, Answered
  <2> QED BY <1>1, <1>2, <1>4, <1>5, <2>1, <2>2, <2>3 DEF Sets
<1>17. LooksUp(c)' /\ Examines(c)'
  BY <1>2, <1>5 DEF LooksUp, Examines
<1> QED BY <1>4, <1>5, <1>11, <1>13, <1>14, <1>15, <1>16, <1>17, RequestContinues

\* dbSetAttr: one of the data handles.
LEMMA InsertHandleContinues ==
    ASSUME CreateInv, NEW c \in Clients, Serving, InsertHandle(c)
    PROVE  CreateInv' /\ WritesOwn(c)
<1> DEFINE p == Pair(c)
           h == Cmd(c).file
           all == Rows(c)
           rows == HandlesOf(p, h)
           more == Append(rows, all[Len(rows) + 1])
<1>1. Shaped /\ HoldsRequest(c) /\ Obeys(c) /\ Sets(c) /\ Drawn(c) /\ Tables
  BY DEF CreateInv, Sound, Holds
<1>2. at' = at /\ my' = my /\ script' = script
  BY DEF Serving, client
<1>3. job[c].at = "insert handle"
  BY DEF InsertHandle, Statement
<1>4. at[c] = "attributes" /\ Cmd(c).op = "setattr"
  BY <1>1, <1>3, WhereServed
<1>5. Owns(c, p, h) /\ p \in Pairs /\ h \in DOMAIN inode[p]
      /\ p = my[c].new.pair /\ h = my[c].new.handle
  BY <1>4, SetsItsOwn
<1>6. job[c].rows = rows /\ Cmd(c).extents = all /\ all \in Seq(Extent)
      /\ Begins(rows, all) /\ Len(rows) < Len(all)
  BY <1>1, <1>3, <1>4, <1>5 DEF Sets, Drawn
<1>7. /\ extents' = [extents EXCEPT ![p] = [x \in DOMAIN extents[p] \cup {h} |->
                                               IF x = h THEN more ELSE extents[p][x]]]
      /\ \/ Len(rows) + 1 = Len(all) /\ Answer(c, "ok", <<>>)
         \/ Len(rows) + 1 # Len(all) /\ Then(c, "insert handle", more)
      /\ UNCHANGED <<inode, names, result, lock>>
  BY <1>6 DEF InsertHandle
<1>8. Begins(more, all) /\ Len(more) = Len(rows) + 1 /\ (Len(more) = Len(all) => more = all)
  BY <1>6, BeginsMore
<1> HIDE DEF p, h, rows, more, all
<1>9. JobTurned(c) /\ Srv(c)' = Srv(c) /\ Pair(c)' = Pair(c) /\ Cmd(c)' = Cmd(c)
  BY <1>1, <1>7, AnswerTurns, ThenTurns
<1>10. \/ more = all /\ job'[c].at = "answered"
       \/ Len(more) # Len(all) /\ job'[c].at = "insert handle" /\ job'[c].rows = more
  <2>1. CASE Len(rows) + 1 = Len(all) /\ Answer(c, "ok", <<>>)
    <3>1. Answered(c)'
      BY <1>1, <2>1, AnswerTurns
    <3>2. more = all
      BY <1>8, <2>1
    <3> QED BY <3>1, <3>2 DEF Answered
  <2>2. CASE Len(rows) + 1 # Len(all) /\ Then(c, "insert handle", more)
    <3>1. job'[c].at = "insert handle" /\ job'[c].rows = more
      BY <1>1, <2>2, ThenTurns
    <3> QED BY <1>8, <2>2, <3>1
  <2> QED BY <1>7, <2>1, <2>2
<1>11. inode' = inode /\ names' = names /\ result' = result /\ lock' = lock
  BY <1>7
<1>12. DOMAIN extents' = Pairs /\ DOMAIN extents'[p] = DOMAIN extents[p] \cup {h}
       /\ \A q \in Pairs : q # p => extents'[q] = extents[q]
  BY <1>1, <1>5, <1>7 DEF Tables
<1>13. extents'[p][h] = more /\ \A x \in DOMAIN extents[p] : x # h => extents'[p][x] = extents[p][x]
  BY <1>1, <1>5, <1>7 DEF Tables
<1>14. HandlesOf(my[c].new.pair, my[c].new.handle)' = more
  BY <1>2, <1>5, <1>12, <1>13 DEF HandlesOf
<1>15. ASSUME NEW q \in Pairs, NEW x, q # p \/ x # h
       PROVE  HandlesOf(q, x)' = HandlesOf(q, x)
  BY <1>12, <1>13, <1>15 DEF HandlesOf
<1>16. Tables'
  BY <1>1, <1>5, <1>11, <1>12 DEF Tables
<1>17. WritesOwn(c)
  <2>1. ASSUME NEW q \in Pairs, NEW x \in DOMAIN inode[q]
        PROVE  /\ x \in DOMAIN inode'[q]
               /\ \/ Unwritten(q, x)
                  \/ /\ Owns(c, q, x) /\ at[c] = "attributes"
                     /\ at'[c] = "attributes" /\ my'[c] = my[c]
    BY <1>2, <1>4, <1>5, <1>11, <1>15 DEF Unwritten
  <2> QED BY <1>11, <2>1 DEF WritesOwn
<1>18. LeavesConnections(c) /\ HoldsRequest(c)'
  BY <1>1, <1>3, <1>11, StatementHolds DEF Waiting, Locked
<1>19. Obeys(c)'
  BY <1>2, <1>4, <1>9, <1>10 DEF Obeys, Serves
<1>20. Sets(c)'
  <2>1. inode'[my[c].new.pair][my[c].new.handle] = [mode |-> Cmd(c).mode, stripes |-> Cmd(c).stripes]
    BY <1>1, <1>3, <1>4, <1>11 DEF Sets
  <2>2. Rows(c)' = all /\ Call(c)' = Call(c)
    BY <1>2 DEF Rows, Call, all
  <2>3. Succeeded(c)' => more = all
    BY <1>10 DEF Succeeded, Answered
  <2>4. job'[c].at = "insert handle" => Len(more) < Len(all)
    <3>1. Len(more) <= Len(all) /\ Len(more) \in Nat /\ Len(all) \in Nat
      BY <1>6, <1>8 DEF Begins
    <3>2. job'[c].at = "insert handle" => Len(more) # Len(all)
      BY <1>10
    <3> DEFINE m == Len(more)
               n == Len(all)
    <3>3. m <= n /\ m \in Nat /\ n \in Nat
      BY <3>1
    <3> HIDE DEF m, n
    <3>4. m # n => m < n
      BY <3>3
    <3> QED BY <3>2, <3>4 DEF m, n
  <2>5. job'[c].at \in {"checked", "insert handle"} => job'[c].rows = more
    BY <1>10
  <2>6. /\ my[c].new.pair = Pair(c) /\ Cmd(c).file = my[c].new.handle /\ Cmd(c).extents = all
        /\ Cmd(c).mode = (IF Call(c).op = "mkdir" THEN "dir" ELSE "file")
        /\ Cmd(c).stripes = Len(all) \div 2
    BY <1>1, <1>4 DEF Sets, all
  <2> QED BY <1>2, <1>4, <1>8, <1>9, <1>14, <2>1, <2>2, <2>3, <2>4, <2>5, <2>6 DEF Sets
<1>21. LooksUp(c)' /\ Examines(c)'
  BY <1>2, <1>4 DEF LooksUp, Examines
<1> QED BY <1>4, <1>9, <1>16, <1>17, <1>18, <1>19, <1>20, <1>21, RequestContinues

\* dbAllocMetaDataHandle: the handle is taken only if it is new, and then it is
\* nobody else's.
LEMMA InsertInodeContinues ==
    ASSUME CreateInv, NEW c \in Clients, Serving, InsertInode(c)
    PROVE  CreateInv' /\ WritesOwn(c)
<1> DEFINE p == Pair(c)
           h == job[c].rows[1]
<1>1. Shaped /\ HoldsRequest(c) /\ Obeys(c) /\ Tables /\ Disks /\ Draws(c) /\ Drawn(c) /\ Holds(c)
  BY DEF CreateInv, Sound, Holds
<1>2. UNCHANGED <<counter, file, script, at, my, dlock, scenario, diskErrors>>
  BY DEF Serving, dataVars, client, faults
<1>3. job[c].at = "insert inode" /\ Unlock(c) /\ UNCHANGED <<extents, names, result>>
  BY DEF InsertInode, Statement
<1>4. at[c] = "inode" /\ Cmd(c).op = "alloc" /\ p \in Pairs /\ h \in Nat
  <2>1. "insert inode" \in Locked
    BY DEF Locked
  <2> QED BY <1>1, <1>3, <2>1, WhereServed DEF Obeys
<1>5. CASE h \in DOMAIN inode[p]
  <2>1. Answer(c, "db_error", <<>>) /\ UNCHANGED tables
    BY <1>3, <1>5 DEF InsertInode, tables
  <2>2. job[c].at # "none" /\ job[c].at \notin Waiting
    BY <1>3 DEF Waiting
  <2>3. WritesOwn(c)
    BY <1>1, <2>1, TablesStay
  <2> QED BY <1>3, <2>1, <2>2, <2>3, FailureContinues
<1>6. CASE h \notin DOMAIN inode[p]
  <2>1. /\ inode' = [inode EXCEPT ![p] = [x \in DOMAIN inode[p] \cup {h} |->
                                            IF x = h THEN Blank ELSE inode[p][x]]]
        /\ Answer(c, "ok", <<h>>)
    BY <1>6 DEF InsertInode
  <2>2. JobTurned(c) /\ job'[c].at = "answered" /\ job'[c].rows = <<h>>
        /\ Srv(c)' = Srv(c) /\ Pair(c)' = p /\ Cmd(c)' = Cmd(c)
    BY <1>1, <2>1, AnswerTurns DEF Answered
  <2>3. job'[c].rows[1] = h
    BY <2>2, FirstOfOne
  <2> HIDE DEF p, h
  <2>4. /\ DOMAIN inode' = Pairs /\ DOMAIN inode'[p] = DOMAIN inode[p] \cup {h}
        /\ \A q \in Pairs : q # p => inode'[q] = inode[q]
    BY <1>1, <1>4, <2>1 DEF Tables
  <2>5. inode'[p][h] = Blank /\ \A x \in DOMAIN inode[p] : inode'[p][x] = inode[p][x]
    BY <1>1, <1>4, <1>6, <2>1 DEF Tables
  <2>6. extents' = extents /\ names' = names /\ result' = result
    BY <1>3
  <2>7. \A q, x : HandlesOf(q, x)' = HandlesOf(q, x)
    BY <2>6 DEF HandlesOf
  <2>8. ASSUME NEW q \in Pairs, NEW x, x \notin DOMAIN inode[q] PROVE HandlesOf(q, x) = <<>>
    BY <1>1, <2>8 DEF Tables, HandlesOf
  <2>9. Tables'
    <3>1. h \in Nat /\ IsFiniteSet(DOMAIN inode[p] \cup {h})
      BY <1>1, <1>4, FS_AddElement DEF Tables
    <3>2. Blank \in [mode : {"none", "dir", "file"}, stripes : {0, Stripes}]
      BY DEF Blank
    <3>3. ASSUME NEW q \in Pairs
          PROVE  /\ DOMAIN inode'[q] \subseteq Nat /\ IsFiniteSet(DOMAIN inode'[q])
                 /\ Root \in DOMAIN inode'[q] /\ DOMAIN extents[q] \subseteq DOMAIN inode'[q]
      <4>1. /\ DOMAIN inode[q] \subseteq Nat /\ IsFiniteSet(DOMAIN inode[q])
            /\ Root \in DOMAIN inode[q] /\ DOMAIN extents[q] \subseteq DOMAIN inode[q]
        BY <1>1 DEF Tables
      <4>2. CASE q = p
        BY <2>4, <3>1, <4>1, <4>2
      <4>3. CASE q # p
        <5>1. inode'[q] = inode[q]
          BY <2>4, <4>3
        <5> QED BY <4>1, <5>1
      <4> QED BY <4>2, <4>3
    <3>4. \A q \in Pairs : \A x \in DOMAIN inode'[q] :
            inode'[q][x] \in [mode : {"none", "dir", "file"}, stripes : {0, Stripes}]
      <4> DEFINE Attributes == [mode : {"none", "dir", "file"}, stripes : {0, Stripes}]
      <4>1. \A q \in Pairs : \A x \in DOMAIN inode[q] : inode[q][x] \in Attributes
        BY <1>1 DEF Tables
      <4>2. Blank \in Attributes
        BY <3>2
      <4> HIDE DEF Attributes
      <4>3. \A q \in Pairs : \A x \in DOMAIN inode'[q] : inode'[q][x] \in Attributes
        BY <2>4, <2>5, <4>1, <4>2
      <4> QED BY <4>3 DEF Attributes
    <3> QED BY <1>1, <2>4, <2>6, <3>3, <3>4 DEF Tables
  <2>10. WritesOwn(c)
    <3>1. \A q \in Pairs : \A x \in DOMAIN inode[q] : x \in DOMAIN inode'[q] /\ Unwritten(q, x)
      BY <2>4, <2>5, <2>7 DEF Unwritten
    <3> QED BY <2>6, <2>7, <2>8, <3>1 DEF WritesOwn
  <2>11. Turned(c)
    BY <1>1, <1>2, <2>2 DEF Shaped, Turned, JobTurned
  <2>12. LeavesConnections(c) /\ HoldsRequest(c)'
    BY <1>1, <1>3, StatementHolds DEF Waiting
  <2>13. LeavesLocks(c)
    <3>1. counter' = counter /\ file' = file /\ dlock' = dlock /\ diskErrors' = diskErrors
      BY <1>2
    <3>2. \A d \in Clients \ {c} : \A s \in Servers : /\ result'[s] = d => result[s] = d
                                                      /\ lock'[s] = d => lock[s] = d
      BY <2>12 DEF LeavesConnections
    <3> QED BY <3>1, <3>2 DEF LeavesLocks
  <2>14. ASSUME NEW q, NEW x, Owns(c, q, x)' PROVE q = p /\ x = h
    BY <1>2, <1>4, <2>2, <2>3, <2>14 DEF Owns
  <2>15. OwnsNoMore(c)
    BY <1>6, <2>14 DEF OwnsNoMore
  <2>16. Shaped'
    BY <1>1, <1>2, <2>11, <2>12 DEF Shaped, Turned, LeavesConnections, JobShaped, MyShaped, Given
  <2>17. Disks'
    BY <1>1, <1>2 DEF Disks
  <2>18. NextServer(c)' = NextServer(c) /\ Rows(c)' = Rows(c) /\ Call(c)' = Call(c)
    BY <1>2 DEF NextServer, Rows, Call
  <2>19. Holds(c)' /\ Draws(c)' /\ Drawn(c)'
    BY <1>1, <1>2, <1>4, <2>12, <2>18 DEF Holds, Draws, Drawn
  <2>20. OwnsFresh(c)'
    <3>1. h # Root /\ h \in DOMAIN inode'[p]
      BY <1>1, <1>4, <1>6, <2>4 DEF Tables
    <3>2. ASSUME NEW q, NEW x, Owns(c, q, x)'
          PROVE  /\ q \in Pairs /\ x \in DOMAIN inode'[q] /\ x # Root
                 /\ HandlesOf(q, x)' = <<>>
      <4>1. q = p /\ x = h
        BY <2>14, <3>2
      <4> QED BY <1>4, <1>6, <2>7, <2>8, <3>1, <4>1
    <3> QED BY <3>2 DEF OwnsFresh
  <2>21. Obeys(c)'
    BY <1>2, <1>4, <2>2 DEF Obeys, Serves
  <2>22. Sets(c)' /\ LooksUp(c)' /\ Names(c)' /\ Examines(c)'
    BY <1>2, <1>4 DEF Sets, LooksUp, Names, Examines
  <2>23. Sound(c)'
    BY <2>19, <2>20, <2>21, <2>22 DEF Sound
  <2> QED BY <2>9, <2>10, <2>11, <2>13, <2>15, <2>16, <2>17, <2>23, Continues
<1> QED BY <1>5, <1>6

LEMMA AppendedSeq ==
    ASSUME NEW s, s \in Seq(Range(s)), NEW e
    PROVE  /\ Append(s, e) \in Seq(Range(Append(s, e)))
           /\ Len(Append(s, e)) = Len(s) + 1 /\ Append(s, e)[Len(s) + 1] = e
           /\ \A i \in 1..Len(s) : Append(s, e)[i] = s[i]
           /\ DOMAIN Append(s, e) = 1..Len(s) + 1 /\ DOMAIN s = 1..Len(s) /\ Len(s) \in Nat
<1> DEFINE S == Range(s) \cup {e}
           t == Append(s, e)
<1>1. s \in Seq(S) /\ Len(s) \in Nat /\ DOMAIN s = 1..Len(s)
  OBVIOUS
<1> HIDE DEF S
<1>2. e \in S
  BY DEF S
<1>3. t \in Seq(S) /\ Len(t) = Len(s) + 1 /\ t[Len(s) + 1] = e /\ \A i \in 1..Len(s) : t[i] = s[i]
  BY <1>1, <1>2
<1> HIDE DEF t
<1>4. DOMAIN t = 1..Len(t) /\ Len(t) \in Nat /\ t = [i \in DOMAIN t |-> t[i]]
  BY <1>3
<1>5. t \in [1..Len(t) -> Range(t)]
  BY <1>4 DEF Range
<1>6. t \in Seq(Range(t))
  BY <1>4, <1>5
<1> QED BY <1>1, <1>3, <1>4, <1>6 DEF t

\* dbAddDirent: the name is given to the inode of the call.
LEMMA AddDirentContinues ==
    ASSUME CreateInv, NEW c \in Clients, Serving, AddDirent(c)
    PROVE  CreateInv' /\ WritesOwn(c)
<1> DEFINE p == Pair(c)
           e == Dirent(Cmd(c))
<1>1. Shaped /\ HoldsRequest(c) /\ Obeys(c) /\ Tables /\ Names(c)
  BY DEF CreateInv, Sound, Holds
<1>2. at' = at
  BY DEF Serving, client
<1>3. job[c].at = "insert name" /\ Answer(c, "ok", <<>>)
      /\ names' = [names EXCEPT ![p] = Append(names[p], e)]
      /\ UNCHANGED <<inode, extents, result, lock>>
  BY DEF AddDirent, Statement
<1>4. at[c] = "name" /\ Cmd(c).op = "add"
  BY <1>1, <1>3, WhereServed
<1>5. JobTurned(c) /\ Answered(c)' /\ Srv(c)' = Srv(c) /\ Pair(c)' = p /\ Cmd(c)' = Cmd(c)
  BY <1>1, <1>3, AnswerTurns
<1>6. e.home = my[c].new.pair /\ e.file = my[c].new.handle
  BY <1>1, <1>4 DEF Names, Dirent
<1> HIDE DEF p, e
<1>7. inode' = inode /\ extents' = extents /\ result' = result /\ lock' = lock
  BY <1>3
<1>8. DOMAIN names' = Pairs /\ \A q \in Pairs : names'[q] = IF q = p THEN Append(names[q], e) ELSE names[q]
  BY <1>1, <1>3 DEF Tables
<1>9. ASSUME NEW q \in Pairs
      PROVE  /\ names'[q] \in Seq(Range(names'[q]))
             /\ \A i \in DOMAIN names'[q] : \/ i \in DOMAIN names[q] /\ names'[q][i] = names[q][i]
                                            \/ names'[q][i] = e
  <2>1. names[q] \in Seq(Range(names[q]))
    BY <1>1 DEF Tables
  <2>2. CASE q = p
    <3> DEFINE t == Append(names[q], e)
               n == Len(names[q])
    <3>1. names'[q] = t
      BY <1>8, <2>2
    <3>2. /\ t \in Seq(Range(t)) /\ Len(t) = n + 1 /\ t[n + 1] = e
          /\ \A i \in 1..n : t[i] = names[q][i]
          /\ DOMAIN t = 1..n + 1 /\ DOMAIN names[q] = 1..n /\ n \in Nat
      BY <2>1, AppendedSeq
    <3> HIDE DEF t, n
    <3>3. ASSUME NEW i \in DOMAIN t
          PROVE  (i \in DOMAIN names[q] /\ t[i] = names[q][i]) \/ t[i] = e
      <4>1. CASE i = n + 1
        BY <3>2, <4>1
      <4>2. CASE i # n + 1
        BY <3>2, <4>2
      <4> QED BY <4>1, <4>2
    <3> QED BY <3>1, <3>2, <3>3
  <2>3. CASE q # p
    BY <1>8, <2>1, <2>3
  <2> QED BY <2>2, <2>3
<1>10. Tables'
  BY <1>1, <1>7, <1>8, <1>9 DEF Tables
<1>11. \A q, x : Unwritten(q, x)
  BY <1>7 DEF Unwritten, HandlesOf
<1>12. WritesOwn(c)
  BY <1>2, <1>4, <1>6, <1>7, <1>9, <1>11 DEF WritesOwn
<1>13. LeavesConnections(c) /\ HoldsRequest(c)'
  BY <1>1, <1>3, <1>7, StatementHolds DEF Waiting, Locked
<1>14. Obeys(c)'
  BY <1>2, <1>4, <1>5 DEF Obeys, Serves, Answered
<1>15. Sets(c)' /\ LooksUp(c)' /\ Examines(c)'
  BY <1>2, <1>4 DEF Sets, LooksUp, Examines
<1> QED BY <1>4, <1>5, <1>10, <1>12, <1>13, <1>14, <1>15, RequestContinues

LEMMA WorkContinues ==
    ASSUME CreateInv, NEW c \in Clients, Work(c)
    PROVE  CreateInv'
<1>1. MetaStep(c) /\ Serving
  BY DEF Work
<1> QED BY <1>1, LookUpContinues, ReadDirContinues, GetAttrContinues, SetAttrContinues,
           CheckHandlesContinues, InsertHandleContinues, LockContinues, SelectFreeContinues,
           SelectMaxContinues, InsertInodeContinues, AddDirentContinues, OutOfSyncContinues
        DEF MetaStep

-----------------------------------------------------------------------------
(* Steps of a call between two requests *)

\* Nothing is held on a client's behalf.
Rests(c) == at[c] # "counted" /\ job[c].at \notin Waiting \cup Locked

LEMMA GivenScenario ==
    ASSUME Shaped
    PROVE  /\ Given.firsts \subseteq DataServers /\ Given.diskErrors \in Nat
           /\ \A c \in Clients : Given.homes[c] \subseteq Pairs
<1>1. Given \in Range(Scenarios)
  BY DEF Shaped, Given, Range
<1>2. Given.firsts \subseteq DataServers /\ Given.diskErrors \in Nat
      /\ Given.homes \in [Clients -> SUBSET Pairs]
  BY <1>1, CreateAssumption
<1> QED BY <1>2

LEMMA LocalContinues ==
    ASSUME CreateInv, NEW c \in Clients, Local, Turned(c), Rests(c), at'[c] # "counted",
           \A p, h : Owns(c, p, h)' =>
               Owns(c, p, h) /\ at'[c] # "inode" /\ (at[c] = "name" => at'[c] = "name"),
           Obeys(c)', Draws(c)', Drawn(c)', Sets(c)', LooksUp(c)', Names(c)', Examines(c)'
    PROVE  CreateInv'
<1>1. UNCHANGED <<counter, file, result, lock, dlock, scenario, diskErrors>> /\ UNCHANGED tables
  BY DEF Local, dataVars, faults
<1>2. Shaped /\ Tables /\ Disks /\ Holds(c) /\ OwnsFresh(c)
  BY DEF CreateInv, Sound
<1>3. Tables' /\ WritesOwn(c)
  BY <1>1, <1>2, TablesStay
<1>4. OwnsNoMore(c)
  BY DEF OwnsNoMore
<1>5. LeavesLocks(c)
  <2>1. counter' = counter /\ file' = file /\ dlock' = dlock /\ diskErrors' = diskErrors
        /\ result' = result /\ lock' = lock
    BY <1>1
  <2> QED BY <2>1 DEF LeavesLocks
<1>6. Shaped'
  BY <1>1, <1>2 DEF Shaped, Turned, JobShaped, MyShaped, Given
<1>7. Disks'
  BY <1>1, <1>2 DEF Disks
<1>8. Holds(c)'
  BY <1>1, <1>2 DEF Holds, HoldsRequest, Rests
<1>9. OwnsFresh(c)'
  BY <1>2, <1>3 DEF OwnsFresh, WritesOwn
<1>10. Sound(c)'
  BY <1>8, <1>9 DEF Sound
<1> QED BY <1>3, <1>4, <1>5, <1>6, <1>7, <1>10, Continues

\* A step after which the client owns no inode.
LEMMA Arrives ==
    ASSUME CreateInv, NEW c \in Clients, Local, Turned(c), Rests(c),
           at'[c] \notin {"counted", "attributes", "name"}, at'[c] = "inode" => ~Answered(c)',
           Obeys(c)', at'[c] = "extents" => Draws(c)', at'[c] = "inode" => Drawn(c)',
           at'[c] \in {"walk", "parent"} => LooksUp(c)', at'[c] = "attributes of" => Examines(c)'
    PROVE  CreateInv'
<1>1. \A p, h : ~Owns(c, p, h)'
  BY DEF Owns, Succeeded
<1>2. Draws(c)' /\ Drawn(c)' /\ LooksUp(c)' /\ Examines(c)'
  BY DEF Draws, Drawn, LooksUp, Examines
<1>3. Sets(c)' /\ Names(c)'
  BY DEF Sets, Names
<1> QED BY <1>1, <1>2, <1>3, LocalContinues

LEMMA ReturnArrives ==
    ASSUME CreateInv, NEW c \in Clients, Local, Rests(c), NEW what, Return(c, what)
    PROVE  CreateInv'
<1>1. Shaped
  BY DEF CreateInv
<1>2. /\ at' = [at EXCEPT ![c] = "idle"] /\ script' = [script EXCEPT ![c] = Tail(@)]
      /\ my' = [my EXCEPT ![c] = Fresh] /\ job' = [job EXCEPT ![c] = NoJob]
  BY DEF Return, Go
<1>3. JobShaped(NoJob) /\ MyShaped(Fresh)
  BY DEF JobShaped, NoJob, MyShaped, Fresh
<1>4. Turned(c) /\ at'[c] = "idle" /\ job'[c] = NoJob
  BY <1>1, <1>2, <1>3 DEF Shaped, Turned, JobShaped, MyShaped
<1>5. Obeys(c)'
  BY <1>4 DEF Obeys
<1> QED BY <1>4, <1>5, Arrives

LEMMA LookArrives ==
    ASSUME CreateInv, NEW c \in Clients, Local, Rests(c), NEW pair \in Pairs, NEW handle, NEW name,
           Look(c, pair, handle, name), at'[c] \in {"walk", "parent"},
           DOMAIN at' = Clients, DOMAIN my' = Clients, MyShaped(my'[c]), script' = script,
           \A d \in Clients \ {c} : at'[d] = at[d] /\ my'[d] = my[d]
    PROVE  CreateInv'
<1>1. Shaped
  BY DEF CreateInv
<1> DEFINE cmd == [op |-> "lookup", dir |-> handle, name |-> name]
<1>2. Serve(c, <<pair, "primary">>, cmd) /\ cmd.op = "lookup"
  BY DEF Look, Ask
<1> HIDE DEF cmd
<1>3. JobTurned(c) /\ job'[c].at = FirstStep(cmd.op) /\ Pair(c)' = pair /\ Cmd(c)' = cmd
  BY <1>1, <1>2, AskTurns
<1>4. job'[c].at = "select name"
  BY <1>2, <1>3, FirstSteps
<1>5. Turned(c)
  BY <1>1, <1>3 DEF Shaped, Turned, JobTurned
<1>6. Obeys(c)'
  BY <1>2, <1>3, <1>4 DEF Obeys, Serves
<1>7. LooksUp(c)'
  BY <1>4 DEF LooksUp, Succeeded, Answered
<1> QED BY <1>5, <1>6, <1>7, Arrives

\* Attributes are fetched of what is settled.
LEMMA VisitArrives ==
    ASSUME CreateInv, NEW c \in Clients, Local, Rests(c), NEW pair, NEW handle,
           Visit(c, pair, handle), Settled(pair, handle)
    PROVE  CreateInv'
<1>1. Shaped
  BY DEF CreateInv
<1>2. script' = script /\ my' = my
  BY DEF Visit
<1>3. CASE Call(c).op = "list"
  <2> DEFINE cmd == [op |-> "readdir", dir |-> handle, offset |-> Len(my[c].rows)]
  <2>1. Serve(c, <<pair, "primary">>, cmd) /\ cmd.op = "readdir" /\ at' = [at EXCEPT ![c] = "list"]
    BY <1>3 DEF Visit, Ask, Go
  <2> HIDE DEF cmd
  <2>2. JobTurned(c) /\ job'[c].at = FirstStep(cmd.op) /\ Pair(c)' = pair /\ Cmd(c)' = cmd
    BY <1>1, <2>1, AskTurns
  <2>3. job'[c].at = "select entries"
    BY <2>1, <2>2, FirstSteps
  <2>4. Turned(c) /\ at'[c] = "list"
    BY <1>1, <1>2, <2>1, <2>2 DEF Shaped, Turned, JobTurned
  <2>5. Obeys(c)'
    BY <2>1, <2>2, <2>3, <2>4 DEF Obeys, Serves
  <2> QED BY <2>4, <2>5, Arrives
<1>4. CASE Call(c).op # "list"
  <2> DEFINE cmd == [op |-> "getattr", file |-> handle]
  <2>1. Serve(c, <<pair, "primary">>, cmd) /\ cmd.op = "getattr" /\ cmd.file = handle
        /\ at' = [at EXCEPT ![c] = "attributes of"]
    BY <1>4 DEF Visit, Ask, Go
  <2> HIDE DEF cmd
  <2>2. JobTurned(c) /\ job'[c].at = FirstStep(cmd.op) /\ Pair(c)' = pair /\ Cmd(c)' = cmd
    BY <1>1, <2>1, AskTurns
  <2>3. job'[c].at = "select inode"
    BY <2>1, <2>2, FirstSteps
  <2>4. Turned(c) /\ at'[c] = "attributes of"
    BY <1>1, <1>2, <2>1, <2>2 DEF Shaped, Turned, JobTurned
  <2>5. Obeys(c)'
    BY <2>1, <2>2, <2>3, <2>4 DEF Obeys, Serves
  <2>6. WritesOwn(c)
    BY TablesStay DEF CreateInv, Local
  <2>7. OwnsNoMore(c)
    BY <2>4 DEF OwnsNoMore, Owns
  <2>8. Settled(pair, handle)'
    BY <2>4, <2>6, <2>7, SettledRemains
  <2>9. Settled(Pair(c), Cmd(c).file)'
    BY <2>1, <2>2, <2>8 DEF Settled, Complete, HandlesOf
  <2>10. Examines(c)'
    BY <2>3, <2>9 DEF Examines, Succeeded, Answered
  <2> QED BY <2>4, <2>5, <2>10, Arrives
<1> QED BY <1>3, <1>4

\* An inode is asked for, with the extents that were drawn.
LEMMA AskInodeArrives ==
    ASSUME CreateInv, NEW c \in Clients, Local, Rests(c), AskInode(c), script' = script,
           DOMAIN my' = Clients, MyShaped(my'[c]), \A d \in Clients \ {c} : my'[d] = my[d],
           my'[c].rows \in Seq(Extent),
           Len(my'[c].rows) = IF Call(c).op = "mkdir" THEN 0 ELSE Copies,
           NEW f \in DataServers, Laid(my'[c].rows, f), Apart(my'[c].rows),
           \A i \in 1..Len(my'[c].rows) : my'[c].rows[i].hdl # Lost
    PROVE  CreateInv'
<1>1. Shaped
  BY DEF CreateInv
<1> DEFINE cmd == [op |-> "alloc"]
<1>2. PICK p \in Given.homes[c] : Serve(c, <<p, "primary">>, cmd)
  BY DEF AskInode, Ask
<1>3. p \in Pairs
  BY <1>1, GivenScenario
<1>4. cmd.op = "alloc" /\ at' = [at EXCEPT ![c] = "inode"]
  BY DEF AskInode, Go
<1> HIDE DEF cmd
<1>5. JobTurned(c) /\ job'[c].at = FirstStep(cmd.op) /\ Pair(c)' = p /\ Cmd(c)' = cmd
  BY <1>1, <1>2, AskTurns
<1>6. job'[c].at = "lock"
  BY <1>4, <1>5, FirstSteps
<1>7. Turned(c) /\ at'[c] = "inode"
  BY <1>1, <1>4, <1>5 DEF Shaped, Turned, JobTurned
<1>8. Obeys(c)'
  BY <1>3, <1>4, <1>5, <1>6, <1>7 DEF Obeys, Serves
<1>9. Drawn(c)'
  <2>1. Rows(c)' = my'[c].rows /\ Call(c)' = Call(c)
    BY DEF Rows, Call
  <2>2. Laid(Rows(c), f)' /\ Apart(Rows(c))'
    BY <2>1 DEF Laid, Apart
  <2> QED BY <2>1, <2>2 DEF Drawn
<1>10. ~Answered(c)'
  BY <1>6 DEF Answered
<1> QED BY <1>7, <1>8, <1>9, <1>10, Arrives

LEMMA LocatedArrives ==
    ASSUME CreateInv, NEW c \in Clients, Local, Rests(c), NEW inode_, Located(c, inode_),
           script' = script
    PROVE  CreateInv'
<1>1. Shaped
  BY DEF CreateInv
<1>2. CASE Call(c).op = "mkdir"
  <2> DEFINE m == [Fresh EXCEPT !.dir = inode_]
  <2>1. AskInode(c) /\ my' = [my EXCEPT ![c] = m]
    BY <1>2 DEF Located
  <2>2. MyShaped(m) /\ m.rows = <<>>
    BY DEF MyShaped, Fresh
  <2> HIDE DEF m
  <2>3. DOMAIN my' = Clients /\ my'[c] = m /\ \A d \in Clients \ {c} : my'[d] = my[d]
    BY <1>1, <2>1 DEF Shaped
  <2>4. 0 \in DataServers
    BY DataAssumption DEF DataServers
  <2>5. Laid(<<>>, 0) /\ Apart(<<>>) /\ <<>> \in Seq(Extent) /\ Len(<<>>) = 0
    BY DEF Laid, Apart
  <2>6. /\ my'[c].rows \in Seq(Extent) /\ Laid(my'[c].rows, 0) /\ Apart(my'[c].rows)
        /\ \A i \in 1..Len(my'[c].rows) : my'[c].rows[i].hdl # Lost
    <3>1. my'[c].rows = <<>>
      BY <2>2, <2>3
    <3>2. \A i \in 1..Len(<<>>) : FALSE
      BY <2>5
    <3> QED BY <2>5, <3>1, <3>2
  <2>7. Len(my'[c].rows) = IF Call(c).op = "mkdir" THEN 0 ELSE Copies
    BY <1>2, <2>2, <2>3, <2>5
  <2>8. MyShaped(my'[c])
    BY <2>2, <2>3
  <2> QED BY <2>6, <2>7, <2>8,  <1>2, <2>1, <2>2, <2>3, <2>4, <2>5, AskInodeArrives
<1>3. CASE Call(c).op # "mkdir"
  <2>1. /\ at' = [at EXCEPT ![c] = "extents"] /\ job' = [job EXCEPT ![c] = NoJob]
        /\ \E f \in Given.firsts :
              my' = [my EXCEPT ![c] = [Fresh EXCEPT !.dir = inode_, !.first = f]]
    BY <1>3 DEF Located, Go
  <2>2. PICK f \in Given.firsts :
              my' = [my EXCEPT ![c] = [Fresh EXCEPT !.dir = inode_, !.first = f]]
    BY <2>1
  <2>3. f \in DataServers
    BY <1>1, GivenScenario
  <2> DEFINE m == [Fresh EXCEPT !.dir = inode_, !.first = f]
  <2>4. MyShaped(m) /\ m.rows = <<>> /\ m.first = f
    <3>1. m = [pos |-> 0, dir |-> inode_, first |-> f, rows |-> <<>>, new |-> RootInode,
               read |-> 0]
      <4> DEFINE k == [Fresh EXCEPT !.dir = inode_]
      <4>1. k = [pos |-> 0, dir |-> inode_, first |-> 0, rows |-> <<>>, new |-> RootInode,
                 read |-> 0]
        BY DEF Fresh
      <4>2. m = [k EXCEPT !.first = f]
        BY DEF Fresh
      <4> HIDE DEF k, m
      <4> QED BY <4>1, <4>2
    <3> HIDE DEF m
    <3> QED BY <3>1 DEF MyShaped
  <2> HIDE DEF m
  <2>5. DOMAIN my' = Clients /\ my'[c] = m /\ \A d \in Clients \ {c} : my'[d] = my[d]
    BY <1>1, <2>2 DEF Shaped, m
  <2>6. JobShaped(NoJob)
    BY DEF JobShaped, NoJob
  <2>7. Turned(c) /\ at'[c] = "extents" /\ job'[c] = NoJob
    BY <1>1, <2>1, <2>4, <2>5, <2>6 DEF Shaped, Turned
  <2>8. Obeys(c)'
    BY <2>7 DEF Obeys
  <2>9. Draws(c)'
    <3>1. Rows(c)' = <<>> /\ my'[c].first = f /\ Call(c)' = Call(c)
      BY <2>4, <2>5 DEF Rows, Call
    <3>2. <<>> \in Seq(Extent) /\ Len(<<>>) = 0 /\ Laid(<<>>, f) /\ Apart(<<>>)
      BY DEF Laid, Apart
    <3>3. Laid(Rows(c), my[c].first)' /\ Apart(Rows(c))'
      BY <3>1 DEF Laid, Apart
    <3>4. Len(Rows(c))' <= Copies
      BY <3>1, <3>2, CountsOfCopies
    <3> QED BY <1>3, <2>3, <2>7, <3>1, <3>2, <3>3, <3>4 DEF Draws
  <2> QED BY <2>7, <2>8, <2>9, Arrives
<1> QED BY <1>2, <1>3

LEMMA AnsweredRests ==
    ASSUME NEW c, Answered(c), at[c] # "counted"
    PROVE  Rests(c)
  BY DEF Rests, Answered, Waiting, Locked

LEMMA IdleRests ==
    ASSUME NEW c \in Clients, Obeys(c), at[c] \in {"idle", "extents", "next page"}
    PROVE  Rests(c) /\ job[c] = NoJob
<1>1. job[c] = NoJob
  BY DEF Obeys
<1>2. job[c].at = "none"
  <2>1. NoJob.at = "none"
    <3>1. PICK srv : srv = <<RootPair, "primary">>
      OBVIOUS
    <3>2. PICK cmd : cmd = [op |-> "none"]
      OBVIOUS
    <3>3. NoJob = [at |-> "none", srv |-> srv, cmd |-> cmd, rows |-> <<>>, status |-> "none"]
      BY <3>1, <3>2 DEF NoJob
    <3> QED BY <3>3
  <2> QED BY <1>1, <2>1
<1> QED BY <1>1, <1>2 DEF Rests, Waiting, Locked

\* What a lookup has answered with is a file that is whole.
LEMMA ChildSettled ==
    ASSUME CreateInv, NEW c \in Clients, at[c] \in {"walk", "parent"}, Succeeded(c)
    PROVE  Settled(Child(c).pair, Child(c).handle) /\ Child(c).pair \in Pairs
<1>1. Settled(job[c].rows[1].home, job[c].rows[1].file)
  BY DEF CreateInv, Sound, LooksUp
<1>2. Child(c).pair = job[c].rows[1].home /\ Child(c).handle = job[c].rows[1].file
  BY DEF Child
<1> QED BY <1>1, <1>2 DEF Settled, Complete

LEMMA StartContinues ==
    ASSUME CreateInv, NEW c \in Clients, Start(c)
    PROVE  CreateInv'
<1>1. Shaped /\ Obeys(c)
  BY DEF CreateInv, Sound
<1>2. at[c] \in {"idle", "next page"} /\ Local
  BY DEF Start
<1>3. Rests(c)
  BY <1>1, <1>2, IdleRests
<1>4. CASE Path(c) = <<>>
  <2>1. Visit(c, RootPair, Root)
    BY <1>4 DEF Start
  <2> QED BY <1>2, <1>3, <2>1, VisitArrives DEF CreateInv, NamesSettled
<1>5. CASE Path(c) # <<>>
  <2>1. /\ at' = [at EXCEPT ![c] = "walk"] /\ my' = [my EXCEPT ![c].pos = 1]
        /\ Look(c, RootPair, Root, Path(c)[1]) /\ script' = script
    BY <1>5 DEF Start, Go
  <2>2. /\ DOMAIN at' = Clients /\ at'[c] = "walk"
        /\ DOMAIN my' = Clients /\ MyShaped(my'[c])
        /\ \A d \in Clients \ {c} : at'[d] = at[d] /\ my'[d] = my[d]
    BY <1>1, <2>1 DEF Shaped, MyShaped
  <2> QED BY <1>2, <1>3, <2>1, <2>2, MetaAssumption, LookArrives
<1> QED BY <1>4, <1>5

LEMMA WalkOnContinues ==
    ASSUME CreateInv, NEW c \in Clients, WalkOn(c)
    PROVE  CreateInv'
<1>1. Shaped
  BY DEF CreateInv
<1>2. at[c] \in {"walk", "parent"} /\ Succeeded(c) /\ Local /\ at' = at /\ script' = script
      /\ my' = [my EXCEPT ![c].pos = @ + 1, ![c].dir = Child(c)]
      /\ Look(c, Child(c).pair, Child(c).handle, Path(c)[my[c].pos + 1])
  BY DEF WalkOn
<1>3. Rests(c)
  BY <1>2, AnsweredRests DEF Succeeded
<1>4. Child(c).pair \in Pairs
  BY <1>2, ChildSettled
<1>5. DOMAIN my' = Clients /\ MyShaped(my'[c]) /\ \A d \in Clients \ {c} : my'[d] = my[d]
  BY <1>1, <1>2 DEF Shaped, MyShaped
<1> QED BY <1>1, <1>2, <1>3, <1>4, <1>5, LookArrives DEF Shaped

LEMMA FoundContinues ==
    ASSUME CreateInv, NEW c \in Clients, Found(c)
    PROVE  CreateInv'
<1>1. at[c] = "walk" /\ Succeeded(c) /\ Local
  BY DEF Found
<1>2. Rests(c)
  BY <1>1, AnsweredRests DEF Succeeded
<1>3. Return(c, "EEXIST") \/ Visit(c, Child(c).pair, Child(c).handle)
  BY DEF Found
<1>4. Settled(Child(c).pair, Child(c).handle)
  BY <1>1, ChildSettled
<1> QED BY <1>1, <1>2, <1>3, <1>4, ReturnArrives, VisitArrives

LEMMA NotThereContinues ==
    ASSUME CreateInv, NEW c \in Clients, NotThere(c)
    PROVE  CreateInv'
<1>1. Shaped
  BY DEF CreateInv
<1>2. at[c] = "walk" /\ Failed(c) /\ Local
  BY DEF NotThere, Absent
<1>3. Rests(c)
  BY <1>2, AnsweredRests DEF Failed
<1>4. CASE ~Makes(Call(c).op)
  <2>1. \E what : Return(c, what)
    BY <1>4 DEF NotThere
  <2> QED BY <1>2, <1>3, <2>1, ReturnArrives
<1>5. CASE Makes(Call(c).op) /\ Len(Path(c)) = 1
  <2>1. Located(c, RootInode) /\ script' = script
    BY <1>5 DEF NotThere
  <2> QED BY <1>2, <1>3, <2>1, LocatedArrives
<1>6. CASE Makes(Call(c).op) /\ Len(Path(c)) # 1
  <2>1. /\ at' = [at EXCEPT ![c] = "parent"] /\ script' = script
        /\ my' = [my EXCEPT ![c] = [Fresh EXCEPT !.pos = 1]]
        /\ Look(c, RootPair, Root, Path(c)[1])
    BY <1>6 DEF NotThere, Go
  <2>2. /\ DOMAIN at' = Clients /\ at'[c] = "parent"
        /\ DOMAIN my' = Clients /\ MyShaped(my'[c])
        /\ \A d \in Clients \ {c} : at'[d] = at[d] /\ my'[d] = my[d]
    BY <1>1, <2>1 DEF Shaped, MyShaped, Fresh
  <2> QED BY <1>2, <1>3, <2>1, <2>2, MetaAssumption, LookArrives
<1> QED BY <1>4, <1>5, <1>6

LEMMA ParentFoundContinues ==
    ASSUME CreateInv, NEW c \in Clients, ParentFound(c)
    PROVE  CreateInv'
<1>1. at[c] = "parent" /\ Succeeded(c) /\ Local /\ Located(c, Child(c)) /\ script' = script
  BY DEF ParentFound
<1>2. Rests(c)
  BY <1>1, AnsweredRests DEF Succeeded
<1> QED BY <1>1, <1>2, LocatedArrives

LEMMA ExtentsDoneContinues ==
    ASSUME CreateInv, NEW c \in Clients, ExtentsDone(c)
    PROVE  CreateInv'
<1>1. Shaped /\ Obeys(c) /\ Draws(c)
  BY DEF CreateInv, Sound
<1>2. at[c] = "extents" /\ Len(Rows(c)) = Copies /\ Local
  BY DEF ExtentsDone, Rows
<1>3. Rests(c)
  BY <1>1, <1>2, IdleRests
<1>4. CASE \E i \in 1..Copies : Rows(c)[i].hdl = Lost
  <2>1. Return(c, "EREMOTEIO")
    BY <1>4 DEF ExtentsDone, Rows
  <2> QED BY <1>2, <1>3, <2>1, ReturnArrives
<1>5. CASE ~\E i \in 1..Copies : Rows(c)[i].hdl = Lost
  <2>1. AskInode(c) /\ my' = [my EXCEPT ![c].first = 0] /\ script' = script
    BY <1>5 DEF ExtentsDone, Rows
  <2>2. DOMAIN my' = Clients /\ MyShaped(my'[c]) /\ my'[c].rows = Rows(c)
        /\ \A d \in Clients \ {c} : my'[d] = my[d]
    BY <1>1, <2>1 DEF Shaped, MyShaped, Rows
  <2>3. /\ Call(c).op # "mkdir" /\ my[c].first \in DataServers /\ Rows(c) \in Seq(Extent)
        /\ Laid(Rows(c), my[c].first) /\ Apart(Rows(c))
    BY <1>1, <1>2 DEF Draws
  <2>4. \A i \in 1..Len(Rows(c)) : Rows(c)[i].hdl # Lost
    BY <1>2, <1>5
  <2>5. Len(my'[c].rows) = IF Call(c).op = "mkdir" THEN 0 ELSE Copies
    BY <1>2, <2>2, <2>3
  <2> HIDE DEF Rests
  <2> QED BY <1>2, <1>3, <2>1, <2>2, <2>3, <2>4, <2>5, AskInodeArrives
<1> QED BY <1>4, <1>5

\* hfs_setIAttr is given the inode just made, of which nothing is set.
LEMMA InodeDoneContinues ==
    ASSUME CreateInv, NEW c \in Clients, InodeDone(c)
    PROVE  CreateInv'
<1> DEFINE cmd == [op |-> "setattr", file |-> job[c].rows[1],
                   mode |-> IF Call(c).op = "mkdir" THEN "dir" ELSE "file",
                   stripes |-> Len(my[c].rows) \div 2, extents |-> my[c].rows]
           new == [pair |-> Pair(c), handle |-> job[c].rows[1]]
<1>1. Shaped /\ Drawn(c) /\ OwnsFresh(c)
  BY DEF CreateInv, Sound
<1>2. at[c] = "inode" /\ Succeeded(c) /\ Local /\ script' = script
      /\ at' = [at EXCEPT ![c] = "attributes"] /\ my' = [my EXCEPT ![c].new = new]
      /\ Serve(c, <<Pair(c), "primary">>, cmd)
  BY DEF InodeDone, Go, Ask
<1>3. /\ cmd.op = "setattr" /\ cmd.file = job[c].rows[1] /\ cmd.extents = Rows(c)
      /\ cmd.mode = (IF Call(c).op = "mkdir" THEN "dir" ELSE "file")
      /\ cmd.stripes = Len(Rows(c)) \div 2
      /\ new.pair = Pair(c) /\ new.handle = job[c].rows[1]
  BY DEF Rows
<1> HIDE DEF cmd, new
<1>4. Rests(c)
  BY <1>2, AnsweredRests DEF Succeeded
<1>5. JobTurned(c) /\ job'[c].at = FirstStep(cmd.op) /\ Pair(c)' = Pair(c) /\ Cmd(c)' = cmd
  BY <1>1, <1>2, AskTurns
<1>6. job'[c].at = "update inode"
  BY <1>3, <1>5, FirstSteps
<1>7. DOMAIN my' = Clients /\ MyShaped(my'[c]) /\ my'[c].rows = Rows(c) /\ my'[c].new = new
      /\ \A d \in Clients \ {c} : my'[d] = my[d]
  BY <1>1, <1>2 DEF Shaped, MyShaped, Rows
<1>8. Turned(c) /\ at'[c] = "attributes"
  BY <1>1, <1>2, <1>5, <1>7 DEF Shaped, Turned, JobTurned
<1>9. Owns(c, Pair(c), job[c].rows[1])
  BY <1>2 DEF Owns
<1>10. \A p, h : Owns(c, p, h)' => p = Pair(c) /\ h = job[c].rows[1]
  BY <1>3, <1>7, <1>8 DEF Owns
<1>11. Obeys(c)'
  BY <1>3, <1>5, <1>6, <1>8 DEF Obeys, Serves
<1>12. Rows(c)' = Rows(c) /\ Call(c)' = Call(c)
  BY <1>2, <1>7 DEF Rows, Call
<1>13. Drawn(c)'
  BY <1>1, <1>2, <1>12 DEF Drawn, Laid, Apart
<1>14. Draws(c)' /\ LooksUp(c)' /\ Names(c)' /\ Examines(c)'
  BY <1>8 DEF Draws, LooksUp, Names, Examines
<1>15. Sets(c)'
  <2>1. HandlesOf(Pair(c), job[c].rows[1]) = <<>>
    BY <1>1, <1>2, <1>9 DEF OwnsFresh
  <2>2. my'[c].new.pair = Pair(c) /\ my'[c].new.handle = job[c].rows[1]
    BY <1>3, <1>7
  <2>3. extents' = extents
    BY <1>2 DEF Local, tables
  <2>4. HandlesOf(my[c].new.pair, my[c].new.handle)' = <<>>
    BY <2>1, <2>2, <2>3 DEF HandlesOf
  <2>5. Begins(<<>>, Rows(c))
    <3>1. Rows(c) \in Seq(Extent)
      BY <1>1, <1>2 DEF Drawn
    <3>2. SubSeq(Rows(c), 1, 0) = <<>> /\ Len(<<>>) = 0 /\ Len(Rows(c)) \in Nat
      BY <3>1
    <3> QED BY <3>2 DEF Begins
  <2>6. ~Succeeded(c)'
    BY <1>6 DEF Succeeded, Answered
  <2> QED BY <1>3, <1>5, <1>6, <1>12, <2>2, <2>4, <2>5, <2>6 DEF Sets
<1> QED BY <1>2, <1>4, <1>8, <1>9, <1>10, <1>11, <1>13, <1>14, <1>15, LocalContinues

\* hfs_create_add_dirent is given a file that is whole.
LEMMA AttributesAreSet ==
    ASSUME CreateInv, NEW c \in Clients, at[c] = "attributes", Succeeded(c),
           NEW p, NEW h, p = my[c].new.pair, h = my[c].new.handle
    PROVE  Complete(p, h)
<1>1. Owns(c, p, h)
  BY DEF Owns
<1>2. p \in Pairs /\ h \in DOMAIN inode[p]
  BY <1>1 DEF CreateInv, Sound, OwnsFresh
<1>3. /\ HandlesOf(p, h) = Rows(c)
      /\ inode[p][h] = [mode |-> Cmd(c).mode, stripes |-> Cmd(c).stripes]
      /\ Cmd(c).mode \in {"dir", "file"} /\ Cmd(c).stripes = Len(Rows(c)) \div 2
  BY DEF CreateInv, Sound, Sets
<1>4. /\ Len(Rows(c)) \in {0, Copies} /\ Apart(Rows(c))
      /\ \A i \in 1..Len(Rows(c)) : Rows(c)[i].hdl # Lost
  BY DEF CreateInv, Sound, Drawn
<1>5. 2 * (Len(Rows(c)) \div 2) = Len(Rows(c))
  <2>1. 0 \div 2 = 0
    OBVIOUS
  <2> QED BY <1>4, <2>1, CountsOfCopies
<1>6. inode[p][h].mode # "none" /\ Len(HandlesOf(p, h)) = 2 * inode[p][h].stripes
  BY <1>3, <1>5
<1> QED BY <1>2, <1>3, <1>4, <1>6 DEF Complete, Apart

LEMMA AttributesDoneContinues ==
    ASSUME CreateInv, NEW c \in Clients, AttributesDone(c)
    PROVE  CreateInv'
<1> DEFINE cmd == [op |-> "add", dir |-> my[c].dir.handle, name |-> Last(Path(c)),
                   file |-> my[c].new.handle, home |-> my[c].new.pair]
<1>1. Shaped
  BY DEF CreateInv
<1>2. at[c] = "attributes" /\ Succeeded(c) /\ Local /\ script' = script /\ my' = my
      /\ at' = [at EXCEPT ![c] = "name"] /\ Serve(c, <<my[c].dir.pair, "primary">>, cmd)
  BY DEF AttributesDone, AttributesSet, Go, Ask
<1>3. cmd.op = "add" /\ cmd.file = my[c].new.handle /\ cmd.home = my[c].new.pair
  OBVIOUS
<1> HIDE DEF cmd
<1>4. Rests(c)
  BY <1>2, AnsweredRests DEF Succeeded
<1>5. JobTurned(c) /\ job'[c].at = FirstStep(cmd.op) /\ Cmd(c)' = cmd
  BY <1>1, <1>2, AskTurns
<1>6. job'[c].at = "insert name"
  BY <1>3, <1>5, FirstSteps
<1>7. Turned(c) /\ at'[c] = "name"
  BY <1>1, <1>2, <1>5 DEF Shaped, Turned, JobTurned
<1>8. \A p, h : Owns(c, p, h)' => Owns(c, p, h)
  BY <1>2, <1>7 DEF Owns
<1>9. Obeys(c)'
  BY <1>3, <1>5, <1>6, <1>7 DEF Obeys, Serves
<1>10. Draws(c)' /\ Drawn(c)' /\ Sets(c)' /\ LooksUp(c)' /\ Examines(c)'
  BY <1>7 DEF Draws, Drawn, Sets, LooksUp, Examines
<1>11. Names(c)'
  <2>1. ASSUME NEW p, NEW h, p = my[c].new.pair, h = my[c].new.handle
        PROVE  Complete(my[c].new.pair, my[c].new.handle)'
    <3>1. Complete(p, h)
      BY <1>2, <2>1, AttributesAreSet
    <3>2. inode' = inode /\ extents' = extents
      BY <1>2 DEF Local, tables
    <3>3. Complete(p, h)'
      BY <3>1, <3>2 DEF Complete, HandlesOf
    <3>4. p = my'[c].new.pair /\ h = my'[c].new.handle
      BY <1>2, <2>1
    <3> QED BY <3>3, <3>4 DEF Complete, HandlesOf
  <2>2. Complete(my[c].new.pair, my[c].new.handle)'
    BY <2>1
  <2> QED BY <1>2, <1>3, <1>5, <2>2 DEF Names
<1> QED BY <1>2, <1>4, <1>7, <1>8, <1>9, <1>10, <1>11, LocalContinues

LEMMA NameDoneContinues ==
    ASSUME CreateInv, NEW c \in Clients, NameDone(c)
    PROVE  CreateInv'
<1>1. at[c] = "name" /\ Succeeded(c) /\ Local
      /\ (Visit(c, my[c].new.pair, my[c].new.handle) \/ Return(c, "ok"))
  BY DEF NameDone
<1>2. Rests(c)
  BY <1>1, AnsweredRests DEF Succeeded
<1>3. Settled(my[c].new.pair, my[c].new.handle)
  BY <1>1, NamedIsSettled DEF CreateInv, Sound
<1> QED BY <1>1, <1>2, <1>3, VisitArrives, ReturnArrives

LEMMA EndContinues ==
    ASSUME CreateInv, NEW c \in Clients, StatDone(c) \/ GiveUp(c)
    PROVE  CreateInv'
<1>1. at[c] # "counted" /\ Answered(c) /\ Local /\ \E what : Return(c, what)
  BY DEF StatDone, GiveUp, Succeeded, Failed
<1> QED BY <1>1, AnsweredRests, ReturnArrives

LEMMA ListPageContinues ==
    ASSUME CreateInv, NEW c \in Clients, ListPage(c)
    PROVE  CreateInv'
<1>1. Shaped
  BY DEF CreateInv
<1>2. at[c] = "list" /\ Answered(c) /\ Local
  BY DEF ListPage, Succeeded, Failed
<1>3. Rests(c)
  BY <1>2, AnsweredRests
<1>4. CASE Listed(c) = <<>>
  <2>1. Return(c, "ok")
    BY <1>4 DEF ListPage
  <2> QED BY <1>2, <1>3, <2>1, ReturnArrives
<1>5. CASE Listed(c) # <<>>
  <2>1. /\ my' = [my EXCEPT ![c].rows = @ \o Listed(c)] /\ at' = [at EXCEPT ![c] = "next page"]
        /\ job' = [job EXCEPT ![c] = NoJob] /\ script' = script
    BY <1>5 DEF ListPage, Go
  <2>2. DOMAIN my' = Clients /\ MyShaped(my'[c]) /\ \A d \in Clients \ {c} : my'[d] = my[d]
    BY <1>1, <2>1 DEF Shaped, MyShaped
  <2>3. JobShaped(NoJob)
    BY DEF JobShaped, NoJob
  <2>4. Turned(c) /\ at'[c] = "next page" /\ job'[c] = NoJob
    BY <1>1, <2>1, <2>2, <2>3 DEF Shaped, Turned
  <2>5. Obeys(c)'
    BY <2>4 DEF Obeys
  <2> QED BY <1>2, <1>3, <2>4, <2>5, Arrives
<1> QED BY <1>4, <1>5

-----------------------------------------------------------------------------
(* The extents of a file *)

\* One more extent, which no earlier one is.
LEMMA RowAdded ==
    ASSUME NEW rows \in Seq(Extent), NEW f, Laid(rows, f), Apart(rows), NEW x \in Extent,
           x.srv = Placement(f, Len(rows)),
           x.hdl \in {Invalid, Lost} \/ \A i \in 1..Len(rows) : rows[i] # x
    PROVE  LET more == Append(rows, x)
           IN /\ more \in Seq(Extent) /\ Len(more) = Len(rows) + 1 /\ Len(rows) \in Nat
              /\ more[Len(rows) + 1] = x /\ \A i \in 1..Len(rows) : more[i] = rows[i]
              /\ Laid(more, f) /\ Apart(more)
<1> DEFINE more == Append(rows, x)
           n == Len(rows)
<1>1. /\ more \in Seq(Extent) /\ Len(more) = n + 1 /\ n \in Nat
      /\ more[n + 1] = x /\ \A i \in 1..n : more[i] = rows[i]
  OBVIOUS
<1> HIDE DEF more
<1>2. Laid(more, f)
  <2> SUFFICES ASSUME NEW i \in 1..n + 1 PROVE more[i].srv = Placement(f, i - 1)
    BY <1>1 DEF Laid
  <2>1. CASE i = n + 1
    <3>1. (n + 1) - 1 = n
      BY <1>1
    <3> QED BY <1>1, <2>1, <3>1
  <2>2. CASE i # n + 1
    BY <1>1, <2>2 DEF Laid
  <2> QED BY <2>1, <2>2
<1>3. Apart(more)
  <2> SUFFICES ASSUME NEW i \in 1..n + 1, NEW j \in 1..n + 1, more[i] = more[j]
               PROVE  i = j \/ more[i].hdl \in {Invalid, Lost}
    BY <1>1 DEF Apart
  <2>1. CASE i # n + 1 /\ j # n + 1
    <3>1. i \in 1..n /\ j \in 1..n
      BY <1>1, <2>1
    <3> QED BY <1>1, <3>1 DEF Apart
  <2>2. CASE i = n + 1 /\ j # n + 1
    <3>1. j \in 1..n
      BY <1>1, <2>2
    <3> QED BY <1>1, <2>2, <3>1
  <2>3. CASE i # n + 1 /\ j = n + 1
    <3>1. i \in 1..n
      BY <1>1, <2>3
    <3> QED BY <1>1, <2>3, <3>1
  <2> QED BY <2>1, <2>2, <2>3
<1> QED BY <1>1, <1>2, <1>3 DEF more

\* What WithRow does to what was drawn so far; fresh says that a valid handle is new.
LEMMA WithRowDraws ==
    ASSUME Shaped, NEW c \in Clients, Draws(c), at[c] \in {"extents", "counted"},
           Len(Rows(c)) < Copies, NEW hdl \in Int, WithRow(c, hdl), at'[c] = "extents",
           script' = script,
           hdl \in {Invalid, Lost}
             \/ (hdl \in DOMAIN file'[NextServer(c)] /\ hdl \notin DOMAIN file[NextServer(c)]),
           \A d \in DataServers : DOMAIN file[d] \subseteq DOMAIN file'[d],
           diskErrors' = 0 => diskErrors = 0 /\ hdl # Invalid
    PROVE  /\ DOMAIN my' = Clients /\ MyShaped(my'[c]) /\ \A d \in Clients \ {c} : my'[d] = my[d]
           /\ Draws(c)'
<1> DEFINE x == [srv |-> NextServer(c), hdl |-> hdl]
           more == Append(Rows(c), x)
           n == Len(Rows(c))
<1>1. my' = [my EXCEPT ![c].rows = more, ![c].read = 0]
  BY DEF WithRow, Rows
<1>2. DOMAIN my' = Clients /\ MyShaped(my'[c]) /\ my'[c].rows = more
      /\ my'[c].first = my[c].first /\ \A d \in Clients \ {c} : my'[d] = my[d]
  <2> HIDE DEF more
  <2>1. MyShaped(my[c]) /\ DOMAIN my = Clients
    BY DEF Shaped
  <2>2. my'[c] = [pos |-> my[c].pos, dir |-> my[c].dir, first |-> my[c].first, rows |-> more,
                  new |-> my[c].new, read |-> 0]
    BY <1>1, <2>1 DEF MyShaped
  <2>3. DOMAIN my' = Clients /\ \A d \in Clients \ {c} : my'[d] = my[d]
    BY <1>1, <2>1
  <2> QED BY <2>2, <2>3 DEF MyShaped
<1>3. /\ Call(c).op # "mkdir" /\ my[c].first \in DataServers
      /\ Rows(c) \in Seq(Extent) /\ Laid(Rows(c), my[c].first) /\ Apart(Rows(c))
      /\ \A i \in 1..n : /\ Rows(c)[i].hdl \in {Invalid, Lost} \cup DOMAIN file[Rows(c)[i].srv]
                         /\ diskErrors = 0 => Rows(c)[i].hdl # Invalid
  BY DEF Draws
<1>4. n \in 0..Copies - 1
  BY <1>3, CountsOfCopies
<1>5. NextServer(c) \in DataServers /\ NextServer(c) = Placement(my[c].first, n)
  BY <1>3, <1>4, PlacedOnServer DEF NextServer, Rows
<1>6. x \in Extent /\ x.srv = Placement(my[c].first, n) /\ x.hdl = hdl /\ x.srv = NextServer(c)
  BY <1>5 DEF Extent
<1> HIDE DEF x
<1>7. hdl \in {Invalid, Lost} \/ \A i \in 1..n : Rows(c)[i] # x
  <2> SUFFICES ASSUME hdl \notin {Invalid, Lost}, NEW i \in 1..n, Rows(c)[i] = x PROVE FALSE
    OBVIOUS
  <2>1. Rows(c)[i].hdl \in DOMAIN file[NextServer(c)]
    BY <1>3, <1>6
  <2> QED BY <1>6, <2>1
<1>8. /\ more \in Seq(Extent) /\ Len(more) = n + 1 /\ n \in Nat
      /\ more[n + 1] = x /\ \A i \in 1..n : more[i] = Rows(c)[i]
      /\ Laid(more, my[c].first) /\ Apart(more)
  BY <1>3, <1>6, <1>7, RowAdded
<1> HIDE DEF more
<1>9. ASSUME NEW i \in 1..n + 1
      PROVE  /\ more[i].hdl \in {Invalid, Lost} \cup DOMAIN file'[more[i].srv]
             /\ diskErrors' = 0 => more[i].hdl # Invalid
  <2>1. CASE i = n + 1
    BY <1>6, <1>8, <2>1
  <2>2. CASE i # n + 1
    <3>1. i \in 1..n
      BY <1>8, <2>2
    <3>2. Rows(c)[i] \in Extent
      BY <1>3, <3>1
    <3>3. Rows(c)[i].srv \in DataServers
      BY <3>2 DEF Extent
    <3> QED BY <1>3, <1>8, <3>1, <3>3
  <2> QED BY <2>1, <2>2
<1>10. Len(more) <= Copies
  BY <1>4, <1>8, CountsOfCopies
<1>11. Rows(c)' = more /\ Call(c)' = Call(c)
  BY <1>2 DEF Rows, Call
<1>12. Laid(Rows(c), my[c].first)' /\ Apart(Rows(c))'
  BY <1>2, <1>8, <1>11 DEF Laid, Apart
<1>13. Draws(c)'
  <2>1. \A i \in 1..Len(more) : /\ more[i].hdl \in {Invalid, Lost} \cup DOMAIN file'[more[i].srv]
                                /\ diskErrors' = 0 => more[i].hdl # Invalid
    BY <1>8, <1>9
  <2> QED BY <1>2, <1>3, <1>8, <1>10, <1>11, <1>12, <2>1 DEF Draws
<1> QED BY <1>2, <1>13

LEMMA ExtentLostContinues ==
    ASSUME CreateInv, NEW c \in Clients, ExtentLost(c)
    PROVE  CreateInv'
<1>1. Shaped /\ Obeys(c) /\ Draws(c)
  BY DEF CreateInv, Sound
<1>2. at[c] = "extents" /\ Len(Rows(c)) < Copies /\ WithRow(c, Lost) /\ Local
      /\ job' = job /\ script' = script /\ at' = at
  BY DEF ExtentLost, Rows
<1>3. Rests(c)
  BY <1>1, <1>2, IdleRests
<1>4. file' = file /\ diskErrors' = diskErrors
  BY <1>2 DEF Local, dataVars, faults
<1>5. Lost \in Int /\ Lost # Invalid
  BY DEF Lost, Invalid
<1>6. DOMAIN my' = Clients /\ MyShaped(my'[c]) /\ Draws(c)'
      /\ \A d \in Clients \ {c} : my'[d] = my[d]
  <2>1. Lost \in {Invalid, Lost} /\ at'[c] = "extents" /\ script' = script
        /\ at[c] \in {"extents", "counted"} /\ Shaped /\ Draws(c) /\ WithRow(c, Lost)
    BY <1>1, <1>2
  <2>2. \A d \in DataServers : DOMAIN file[d] \subseteq DOMAIN file'[d]
    BY <1>4
  <2>3. diskErrors' = 0 => diskErrors = 0 /\ Lost # Invalid
    BY <1>4, <1>5
  <2>4. ASSUME NEW hdl \in Int, hdl = Lost
        PROVE  /\ DOMAIN my' = Clients /\ MyShaped(my'[c]) /\ \A d \in Clients \ {c} : my'[d] = my[d]
               /\ Draws(c)'
    <3>1. WithRow(c, hdl)
      BY <2>1, <2>4 DEF WithRow
    <3>2. hdl \in {Invalid, Lost}
            \/ (hdl \in DOMAIN file'[NextServer(c)] /\ hdl \notin DOMAIN file[NextServer(c)])
      BY <2>1, <2>4
    <3>3. diskErrors' = 0 => diskErrors = 0 /\ hdl # Invalid
      BY <2>3, <2>4
    <3>4. /\ Shaped /\ Draws(c) /\ at[c] \in {"extents", "counted"} /\ at'[c] = "extents"
          /\ script' = script /\ Len(Rows(c)) < Copies
      BY <1>2, <2>1
    <3> HIDE <2>4
    <3> QED BY <2>2, <3>1, <3>2, <3>3, <3>4, WithRowDraws
  <2> QED BY <1>5, <2>4
<1>7. Turned(c)
  BY <1>1, <1>2, <1>6 DEF Shaped, Turned, JobShaped
<1>8. Obeys(c)'
  BY <1>1, <1>2 DEF Obeys
<1> QED BY <1>2, <1>3, <1>6, <1>7, <1>8, Arrives

\* A data server has worked on a request under its lock.
LEMMA UnlockedContinues ==
    ASSUME CreateInv, NEW c \in Clients, at[c] = "counted", NEW hdl \in Int, Unlocked(c, hdl),
           NEW x, x = NextServer(c), Disks',
           \A d \in DataServers : /\ DOMAIN file[d] \subseteq DOMAIN file'[d]
                                  /\ d # x => counter'[d] = counter[d],
           hdl = Invalid \/ (hdl \in DOMAIN file'[x] /\ hdl \notin DOMAIN file[x]),
           diskErrors' = 0 => diskErrors = 0 /\ hdl # Invalid,
           diskErrors' \in 0..Given.diskErrors
    PROVE  CreateInv'
<1>1. Shaped /\ Obeys(c) /\ Draws(c) /\ Holds(c) /\ Tables
  BY DEF CreateInv, Sound
<1>2. /\ WithRow(c, hdl) /\ dlock' = [dlock EXCEPT ![x] = Nobody]
      /\ at' = [at EXCEPT ![c] = "extents"]
      /\ UNCHANGED <<metaVars, script, scenario>>
  BY DEF Unlocked, Go
<1>3. DOMAIN at' = Clients /\ at'[c] = "extents" /\ \A d \in Clients \ {c} : at'[d] = at[d]
  BY <1>1, <1>2 DEF Shaped
<1>4. Len(Rows(c)) < Copies
  BY <1>1 DEF Draws
<1>5. DOMAIN my' = Clients /\ MyShaped(my'[c]) /\ Draws(c)'
      /\ \A d \in Clients \ {c} : my'[d] = my[d]
  <2>1. hdl \in {Invalid, Lost}
          \/ (hdl \in DOMAIN file'[NextServer(c)] /\ hdl \notin DOMAIN file[NextServer(c)])
    OBVIOUS
  <2>2. \A d \in DataServers : DOMAIN file[d] \subseteq DOMAIN file'[d]
    OBVIOUS
  <2>3. script' = script /\ at[c] \in {"extents", "counted"} /\ Shaped /\ Draws(c)
        /\ WithRow(c, hdl) /\ at'[c] = "extents"
    BY <1>1, <1>2, <1>3
  <2> HIDE DEF WithRow, Unlocked, Draws, Shaped
  <2> QED BY <1>4, <2>1, <2>2, <2>3, WithRowDraws
<1>6. job' = job /\ result' = result /\ lock' = lock /\ script' = script /\ scenario' = scenario
      /\ UNCHANGED tables
  BY <1>2 DEF metaVars
<1>7. Turned(c)
  BY <1>1, <1>3, <1>5, <1>6 DEF Shaped, Turned
<1>8. Tables' /\ WritesOwn(c)
  BY <1>1, <1>6, TablesStay
<1>9. \A p, h : ~Owns(c, p, h)'
  BY <1>3 DEF Owns
<1>10. OwnsNoMore(c) /\ OwnsFresh(c)'
  BY <1>9 DEF OwnsNoMore, OwnsFresh
<1>11. x \in DataServers /\ dlock[x] = c /\ \A d \in DataServers : dlock[d] = c => d = x
  <2>1. my[c].first \in DataServers /\ Len(my[c].rows) \in 0..Copies - 1
    BY <1>1, <1>4, CountsOfCopies DEF Draws, Rows
  <2>2. x \in DataServers
    BY <2>1, PlacedOnServer DEF NextServer
  <2> QED BY <1>1, <2>2 DEF Holds
<1>12. /\ dlock' \in [DataServers -> Clients \cup {Nobody}] /\ dlock'[x] = Nobody
       /\ \A d \in DataServers : d # x => dlock'[d] = dlock[d]
  BY <1>1, <1>2, <1>11 DEF Shaped
<1>13. LeavesLocks(c)
  <2>1. ASSUME NEW d \in Clients \ {c}, NEW y \in DataServers PROVE dlock'[y] = d <=> dlock[y] = d
    BY <1>11, <1>12, MetaAssumption
  <2>2. ASSUME NEW y \in DataServers, dlock[y] # c PROVE counter'[y] = counter[y]
    BY <1>11, <2>2
  <2> QED BY <1>6, <2>1, <2>2 DEF LeavesLocks
<1>14. Shaped'
  BY <1>1, <1>6, <1>7, <1>12 DEF Shaped, Turned, JobShaped, MyShaped, Given
<1>15. Holds(c)'
  <2>1. HoldsRequest(c)'
    BY <1>1, <1>6 DEF Holds, HoldsRequest, Srv
  <2>2. \A d \in DataServers : dlock'[d] # c
    BY <1>11, <1>12, MetaAssumption
  <2> QED BY <1>3, <2>1, <2>2 DEF Holds
<1>16. Obeys(c)'
  BY <1>1, <1>3, <1>6 DEF Obeys, Serves
<1>17. Drawn(c)' /\ Sets(c)' /\ LooksUp(c)' /\ Names(c)' /\ Examines(c)'
  BY <1>3 DEF Drawn, Sets, LooksUp, Names, Examines
<1>18. Sound(c)'
  BY <1>5, <1>10, <1>15, <1>16, <1>17 DEF Sound
<1> QED BY <1>7, <1>8, <1>10, <1>13, <1>14, <1>18, Continues

LEMMA ReadCounterContinues ==
    ASSUME CreateInv, NEW c \in Clients, ReadCounter(c)
    PROVE  CreateInv'
<1> DEFINE x == NextServer(c)
<1>1. Shaped /\ Obeys(c) /\ Draws(c) /\ Holds(c) /\ Tables /\ Disks
  BY DEF CreateInv, Sound
<1>2. /\ at[c] = "extents" /\ Len(Rows(c)) < Copies /\ DataFree(x)
      /\ dlock' = [dlock EXCEPT ![x] = c]
      /\ my' = [my EXCEPT ![c].read = counter[x]] /\ at' = [at EXCEPT ![c] = "counted"]
      /\ UNCHANGED <<metaVars, dataVars, script, faults>>
  BY DEF ReadCounter, Go, Rows
<1>3. job' = job /\ result' = result /\ lock' = lock /\ script' = script /\ scenario' = scenario
      /\ counter' = counter /\ file' = file /\ diskErrors' = diskErrors /\ UNCHANGED tables
  BY <1>2 DEF metaVars, dataVars, faults
<1>4. x \in DataServers
  <2>1. my[c].first \in DataServers /\ Len(my[c].rows) \in 0..Copies - 1
    BY <1>1, <1>2, CountsOfCopies DEF Draws, Rows
  <2> QED BY <2>1, PlacedOnServer DEF NextServer
<1>5. dlock[x] = Nobody /\ Nobody \notin Clients
  BY <1>2, MetaAssumption DEF DataFree
<1> HIDE DEF x
<1>6. /\ DOMAIN my' = Clients /\ MyShaped(my'[c]) /\ my'[c].rows = my[c].rows
      /\ my'[c].first = my[c].first /\ my'[c].read = counter[x]
      /\ \A d \in Clients \ {c} : my'[d] = my[d]
  BY <1>1, <1>2 DEF Shaped, MyShaped
<1>7. DOMAIN at' = Clients /\ at'[c] = "counted" /\ \A d \in Clients \ {c} : at'[d] = at[d]
  BY <1>1, <1>2 DEF Shaped
<1>8. Turned(c)
  BY <1>1, <1>3, <1>6, <1>7 DEF Shaped, Turned
<1>9. Tables' /\ WritesOwn(c)
  BY <1>1, <1>3, TablesStay
<1>10. \A p, h : ~Owns(c, p, h)'
  BY <1>7 DEF Owns
<1>11. OwnsNoMore(c) /\ OwnsFresh(c)'
  BY <1>10 DEF OwnsNoMore, OwnsFresh
<1>12. /\ dlock' \in [DataServers -> Clients \cup {Nobody}] /\ dlock'[x] = c
       /\ \A d \in DataServers : d # x => dlock'[d] = dlock[d]
  BY <1>1, <1>2, <1>4 DEF Shaped
<1>13. LeavesLocks(c)
  <2>1. ASSUME NEW d \in Clients \ {c}, NEW y \in DataServers PROVE dlock'[y] = d <=> dlock[y] = d
    BY <1>5, <1>12
  <2> QED BY <1>3, <2>1 DEF LeavesLocks
<1>14. Shaped'
  BY <1>1, <1>3, <1>8, <1>12 DEF Shaped, Turned, JobShaped, MyShaped, Given
<1>15. Disks'
  BY <1>1, <1>3 DEF Disks
<1>16. NextServer(c)' = x /\ Rows(c)' = Rows(c) /\ Call(c)' = Call(c)
  BY <1>3, <1>6 DEF NextServer, Rows, Call, x
<1>17. Holds(c)'
  <2>1. HoldsRequest(c)'
    BY <1>1, <1>3 DEF Holds, HoldsRequest, Srv
  <2>2. \A d \in DataServers : dlock[d] # c
    BY <1>1, <1>2 DEF Holds
  <2>3. \A d \in DataServers : dlock'[d] = c <=> d = x
    BY <1>12, <2>2
  <2> QED BY <1>7, <1>16, <2>1, <2>3 DEF Holds
<1>18. Draws(c)'
  <2>1. /\ Call(c).op # "mkdir" /\ my[c].first \in DataServers
        /\ Rows(c) \in Seq(Extent) /\ Len(Rows(c)) <= Copies
        /\ Laid(Rows(c), my[c].first) /\ Apart(Rows(c))
        /\ \A i \in 1..Len(Rows(c)) :
              /\ Rows(c)[i].hdl \in {Invalid, Lost} \cup DOMAIN file[Rows(c)[i].srv]
              /\ diskErrors = 0 => Rows(c)[i].hdl # Invalid
    BY <1>1, <1>2 DEF Draws
  <2>2. Laid(Rows(c), my[c].first)' /\ Apart(Rows(c))'
    BY <1>6, <1>16, <2>1 DEF Laid, Apart
  <2> QED BY <1>2, <1>3, <1>6, <1>16, <2>1, <2>2 DEF Draws
<1>19. Obeys(c)'
  BY <1>1, <1>2, <1>3, <1>7 DEF Obeys, Serves
<1>20. Drawn(c)' /\ Sets(c)' /\ LooksUp(c)' /\ Names(c)' /\ Examines(c)'
  BY <1>7 DEF Drawn, Sets, LooksUp, Names, Examines
<1>21. Sound(c)'
  BY <1>11, <1>17, <1>18, <1>19, <1>20 DEF Sound
<1> QED BY <1>8, <1>9, <1>11, <1>13, <1>14, <1>15, <1>21, Continues

\* The counter is as it was read: the next handle's file is not there.
LEMMA AllocExtentContinues ==
    ASSUME CreateInv, NEW c \in Clients, AllocExtent(c)
    PROVE  CreateInv'
<1> DEFINE x == NextServer(c)
           h == counter[x] + 1
<1>1. Shaped /\ Draws(c) /\ Disks
  BY DEF CreateInv, Sound
<1>2. at[c] = "counted" /\ diskErrors' = diskErrors
  BY DEF AllocExtent
<1>3. my[c].read = counter[x]
  BY <1>1, <1>2 DEF Draws
<1>4. x \in DataServers
  <2>1. my[c].first \in DataServers /\ Len(my[c].rows) \in 0..Copies - 1
    BY <1>1, <1>2, CountsOfCopies DEF Draws, Rows
  <2> QED BY <2>1, PlacedOnServer DEF NextServer
<1>5. NewFile(x, counter[x]) /\ Unlocked(c, NewHandle(x, counter[x]))
  BY <1>3 DEF AllocExtent
<1> HIDE DEF x
<1>6. counter[x] \in Nat /\ DOMAIN file[x] \subseteq 1..counter[x]
  BY <1>1, <1>4 DEF Disks
<1>7. h \in Nat /\ h >= 1 /\ h \notin DOMAIN file[x]
  BY <1>6
<1>8. NewHandle(x, counter[x]) = h
  BY <1>7 DEF NewHandle
<1>9. /\ counter' = [counter EXCEPT ![x] = h]
      /\ file' = [file EXCEPT ![x] =
                    [k \in DOMAIN file[x] \cup {h} |-> IF k = h THEN <<>> ELSE file[x][k]]]
  BY <1>5, <1>7 DEF NewFile
<1> HIDE DEF h
<1>10. /\ DOMAIN counter' = DataServers /\ DOMAIN file' = DataServers
       /\ counter'[x] = h /\ DOMAIN file'[x] = DOMAIN file[x] \cup {h}
       /\ \A d \in DataServers : d # x => counter'[d] = counter[d] /\ file'[d] = file[d]
  BY <1>1, <1>4, <1>9 DEF Disks
<1>11. DOMAIN file'[x] \subseteq 1..h
  BY <1>6, <1>7, <1>10 DEF h
<1>12. Disks'
  BY <1>1, <1>7, <1>10, <1>11 DEF Disks
<1>13. \A d \in DataServers : /\ DOMAIN file[d] \subseteq DOMAIN file'[d]
                              /\ d # x => counter'[d] = counter[d]
  BY <1>10
<1>14. h \in DOMAIN file'[x] /\ h \notin DOMAIN file[x] /\ h \in Int /\ h # Invalid
  BY <1>7, <1>10 DEF Invalid
<1>15. diskErrors' \in 0..Given.diskErrors /\ (diskErrors' = 0 => diskErrors = 0 /\ h # Invalid)
  BY <1>1, <1>2, <1>14 DEF Shaped
<1>16. Unlocked(c, h) /\ x = NextServer(c)
  BY <1>5, <1>8 DEF x
<1> QED BY <1>2, <1>12, <1>13, <1>14, <1>15, <1>16, UnlockedContinues

\* A disk that fails gives no handle, and may have used one up.
LEMMA DiskErrorContinues ==
    ASSUME CreateInv, NEW c \in Clients, DiskError(c)
    PROVE  CreateInv'
<1> DEFINE x == NextServer(c)
<1>1. Shaped /\ Draws(c) /\ Disks
  BY DEF CreateInv, Sound
<1>2. at[c] = "counted" /\ diskErrors < Given.diskErrors /\ diskErrors' = diskErrors + 1
  BY DEF DiskError
<1>3. my[c].read = counter[x]
  BY <1>1, <1>2 DEF Draws
<1>4. x \in DataServers
  <2>1. my[c].first \in DataServers /\ Len(my[c].rows) \in 0..Copies - 1
    BY <1>1, <1>2, CountsOfCopies DEF Draws, Rows
  <2> QED BY <2>1, PlacedOnServer DEF NextServer
<1>5. file' = file /\ counter' \in {counter, [counter EXCEPT ![x] = counter[x] + 1]}
  BY <1>3 DEF DiskError, DiskFails
<1> HIDE DEF x
<1>6. /\ DOMAIN counter' = DataServers /\ counter'[x] \in {counter[x], counter[x] + 1}
      /\ \A d \in DataServers : d # x => counter'[d] = counter[d]
  BY <1>1, <1>4, <1>5 DEF Disks
<1>7. \A d \in DataServers : counter'[d] \in Nat /\ counter[d] <= counter'[d] /\ counter[d] \in Nat
  BY <1>1, <1>6 DEF Disks
<1>8. Disks'
  <2>1. ASSUME NEW d \in DataServers PROVE DOMAIN file'[d] \subseteq 1..counter'[d]
    <3>1. DOMAIN file[d] \subseteq 1..counter[d]
      BY <1>1 DEF Disks
    <3> QED BY <1>5, <1>7, <3>1
  <2> QED BY <1>1, <1>5, <1>6, <1>7, <2>1 DEF Disks
<1>9. \A d \in DataServers : /\ DOMAIN file[d] \subseteq DOMAIN file'[d]
                             /\ d # x => counter'[d] = counter[d]
  BY <1>5, <1>6
<1>10. diskErrors' \in 0..Given.diskErrors /\ diskErrors' # 0
  BY <1>1, <1>2, GivenScenario DEF Shaped
<1>11. Unlocked(c, Invalid) /\ x = NextServer(c) /\ Invalid \in Int
  BY DEF DiskError, x, Invalid
<1>12. ASSUME NEW hdl \in Int, hdl = Invalid PROVE CreateInv'
  <2>1. Unlocked(c, hdl)
    BY <1>11, <1>12 DEF Unlocked, WithRow
  <2>2. hdl = Invalid \/ (hdl \in DOMAIN file'[x] /\ hdl \notin DOMAIN file[x])
    BY <1>12
  <2>3. diskErrors' = 0 => diskErrors = 0 /\ hdl # Invalid
    BY <1>10
  <2>4. at[c] = "counted" /\ x = NextServer(c) /\ Disks' /\ diskErrors' \in 0..Given.diskErrors
    BY <1>2, <1>8, <1>10, <1>11
  <2> QED BY <1>9, <2>1, <2>2, <2>3, <2>4, UnlockedContinues
<1> QED BY <1>11, <1>12

-----------------------------------------------------------------------------
(* A server fails *)

LEMMA Untouched ==
    ASSUME CreateInv,
           UNCHANGED <<metaVars, dataVars, client, dlock, scenario, diskErrors>>
    PROVE  CreateInv'
<1>1. /\ inode' = inode /\ extents' = extents /\ names' = names /\ result' = result
      /\ lock' = lock /\ job' = job /\ counter' = counter /\ file' = file
      /\ script' = script /\ at' = at /\ my' = my /\ dlock' = dlock
      /\ scenario' = scenario /\ diskErrors' = diskErrors
  BY DEF metaVars, tables, dataVars, client
<1>2. Shaped' /\ Tables' /\ Disks'
  BY <1>1 DEF CreateInv, Shaped, Tables, Disks, JobShaped, MyShaped, Given
<1>3. LaidOut'
  BY <1>1 DEF CreateInv, LaidOut, HandlesOf, Laid
<1>4. \A c, p, h : Owns(c, p, h)' <=> Owns(c, p, h)
  BY <1>1 DEF Owns, Succeeded, Answered, Pair
<1>5. OneOwner'
  BY <1>4 DEF CreateInv, OneOwner
<1>6. \A p, h : HandlesOf(p, h)' = HandlesOf(p, h)
  BY <1>1 DEF HandlesOf
<1>7. \A p, h : Complete(p, h)' <=> Complete(p, h)
  BY <1>1, <1>6 DEF Complete
<1>8. \A p, h : Settled(p, h)' <=> Settled(p, h)
  BY <1>1, <1>4, <1>7 DEF Settled
<1>9. NamesSettled'
  <2>1. NamesSettled
    BY DEF CreateInv
  <2>2. Settled(RootPair, Root)'
    BY <1>8, <2>1 DEF NamesSettled
  <2>3. ASSUME NEW p \in Pairs, NEW i \in DOMAIN names[p],
               NEW q, NEW h, q = names[p][i].home, h = names[p][i].file
        PROVE  Settled(names[p][i].home, names[p][i].file)'
    <3>1. Settled(q, h)'
      BY <1>8, <2>1, <2>3 DEF NamesSettled
    <3>2. q = names'[p][i].home /\ h = names'[p][i].file
      BY <1>1, <2>3
    <3> QED BY <3>1, <3>2 DEF Settled, Complete, HandlesOf
  <2> QED BY <1>1, <2>2, <2>3 DEF NamesSettled
<1>10. ASSUME NEW c \in Clients PROVE Sound(c)'
  <2>1. Sound(c)
    BY DEF CreateInv
  <2>2. Obeys(c)' /\ Holds(c)'
    BY <1>1, <2>1 DEF Sound, Obeys, Serves, Cmd, Pair, Holds, HoldsRequest, Srv, NextServer
  <2>3. Draws(c)' /\ Drawn(c)'
    BY <1>1, <2>1 DEF Sound, Draws, Drawn, Rows, Call, NextServer, Laid, Apart
  <2>4. OwnsFresh(c)'
    BY <1>1, <1>4, <1>6, <2>1 DEF Sound, OwnsFresh
  <2>5. Sets(c)'
    BY <1>1, <2>1 DEF Sound, Sets, Rows, Call, Cmd, Pair, Succeeded, Answered, HandlesOf, Begins
  <2>6. Succeeded(c)' <=> Succeeded(c)
    BY <1>1 DEF Succeeded, Answered
  <2>7. LooksUp(c)'
    <3>1. ASSUME NEW q, NEW h, q = job[c].rows[1].home, h = job[c].rows[1].file, Settled(q, h)
          PROVE  Settled(job[c].rows[1].home, job[c].rows[1].file)'
      <4>1. Settled(q, h)' /\ q = job'[c].rows[1].home /\ h = job'[c].rows[1].file
        BY <1>1, <1>8, <3>1
      <4> QED BY <4>1 DEF Settled, Complete, HandlesOf
    <3> QED BY <1>1, <2>1, <2>6, <3>1 DEF Sound, LooksUp
  <2>8. Names(c)'
    <3>1. ASSUME NEW q, NEW h, q = my[c].new.pair, h = my[c].new.handle, Complete(q, h)
          PROVE  Complete(my[c].new.pair, my[c].new.handle)'
      <4>1. Complete(q, h)' /\ q = my'[c].new.pair /\ h = my'[c].new.handle
        BY <1>1, <1>7, <3>1
      <4> QED BY <4>1 DEF Complete, HandlesOf
    <3> QED BY <1>1, <2>1, <3>1 DEF Sound, Names, Cmd
  <2>9. Examines(c)'
    <3>1. ASSUME NEW q, NEW h, q = Pair(c), h = Cmd(c).file, Settled(q, h)
          PROVE  Settled(Pair(c), Cmd(c).file)'
      <4>1. Settled(q, h)' /\ q = Pair(c)' /\ h = Cmd(c).file'
        BY <1>1, <1>8, <3>1 DEF Pair, Cmd
      <4> QED BY <4>1 DEF Settled, Complete, HandlesOf
    <3>2. HandlesOf(Pair(c), Cmd(c).file)' = HandlesOf(Pair(c), Cmd(c).file)
      BY <1>1 DEF HandlesOf, Pair, Cmd
    <3>3. Pair(c)' = Pair(c) /\ Cmd(c)' = Cmd(c)
      BY <1>1 DEF Pair, Cmd
    <3> QED BY <1>1, <2>1, <2>6, <3>1, <3>2, <3>3 DEF Sound, Examines
  <2> QED BY <2>2, <2>3, <2>4, <2>5, <2>7, <2>8, <2>9 DEF Sound
<1> QED BY <1>2, <1>3, <1>5, <1>9, <1>10 DEF CreateInv

-----------------------------------------------------------------------------
(* The invariant *)

LEMMA InitSound == Init => CreateInv
<1> SUFFICES ASSUME Init PROVE CreateInv
  OBVIOUS
<1>1. /\ MetaInit /\ DataInit /\ scenario \in DOMAIN Scenarios /\ script = Given.calls
      /\ at = [c \in Clients |-> "idle"] /\ my = [c \in Clients |-> Fresh]
      /\ dlock = [d \in DataServers |-> Nobody] /\ diskErrors = 0
  BY DEF Init
<1>2. /\ inode = [p \in Pairs |-> [h \in {Root} |-> [mode |-> "dir", stripes |-> 0]]]
      /\ extents = [p \in Pairs |-> [h \in {} |-> <<>>]] /\ names = [p \in Pairs |-> <<>>]
      /\ result = [s \in Servers |-> Nobody] /\ lock = [s \in Servers |-> Nobody]
      /\ job = [c \in Clients |-> NoJob]
      /\ counter = [d \in DataServers |-> FirstHandle]
      /\ file = [d \in DataServers |-> [h \in {} |-> <<>>]]
  BY <1>1 DEF MetaInit, DataInit
<1>3. ASSUME NEW c \in Clients PROVE at[c] = "idle" /\ job[c] = NoJob /\ my[c] = Fresh
  BY <1>1, <1>2
<1>4. DOMAIN script = Clients
  <2>1. Given \in Range(Scenarios)
    BY <1>1 DEF Given, Range
  <2>2. \A s \in Range(Scenarios) : DOMAIN s.calls = Clients
    BY CreateAssumption
  <2> QED BY <1>1, <2>1, <2>2
<1>5. Given.diskErrors \in Nat
  <2>1. Given \in Range(Scenarios)
    BY <1>1 DEF Given, Range
  <2> QED BY <2>1, CreateAssumption
<1>6. Shaped
  <2>1. JobShaped(NoJob) /\ MyShaped(Fresh)
    BY DEF JobShaped, NoJob, MyShaped, Fresh
  <2> QED BY <1>1, <1>2, <1>3, <1>4, <1>5, <2>1 DEF Shaped
<1>7. \A p \in Pairs : /\ DOMAIN inode[p] = {Root} /\ DOMAIN extents[p] = {} /\ names[p] = <<>>
                       /\ inode[p][Root] = [mode |-> "dir", stripes |-> 0]
  BY <1>2
<1>8. Root \in Nat /\ IsFiniteSet({Root})
  BY FS_Singleton DEF Root
<1>9. Tables
  BY <1>2, <1>7, <1>8 DEF Tables
<1>10. Disks
  BY <1>2 DEF Disks, FirstHandle
<1>11. \A p \in Pairs : \A h : HandlesOf(p, h) = <<>>
  BY <1>7 DEF HandlesOf
<1>12. LaidOut
  <2>1. DataServers # {} /\ \A f : Laid(<<>>, f)
    BY DataAssumption DEF DataServers, Laid
  <2>2. ASSUME NEW p \in Pairs, NEW h
        PROVE  HandlesOf(p, h) \in Seq(Extent) /\ \E f \in DataServers : Laid(HandlesOf(p, h), f)
    <3>1. HandlesOf(p, h) = <<>>
      BY <1>11
    <3>2. \A f : Laid(HandlesOf(p, h), f)
      BY <3>1 DEF Laid
    <3>3. <<>> \in Seq(Extent)
      OBVIOUS
    <3> HIDE DEF DataServers
    <3> QED BY <2>1, <3>1, <3>2, <3>3
  <2> QED BY <2>2 DEF LaidOut
<1>13. \A c \in Clients : \A p, h : ~Owns(c, p, h)
  BY <1>3 DEF Owns
<1>14. OneOwner
  BY <1>13 DEF OneOwner
<1>15. NamesSettled
  <2>1. RootPair \in Pairs
    BY MetaAssumption
  <2>2. Complete(RootPair, Root)
    BY <1>7, <1>11, <2>1 DEF Complete
  <2> QED BY <1>7, <1>13, <2>2 DEF NamesSettled, Settled
<1>16. ASSUME NEW c \in Clients PROVE Sound(c)
  <2>1. at[c] = "idle" /\ job[c] = NoJob
    BY <1>3
  <2>2. Holds(c)
    BY <1>2, <1>1, <2>1, MetaAssumption DEF Holds, HoldsRequest
  <2>3. OwnsFresh(c)
    BY <1>13 DEF OwnsFresh
  <2>4. Obeys(c) /\ Draws(c) /\ Drawn(c) /\ Sets(c) /\ LooksUp(c) /\ Names(c) /\ Examines(c)
    BY <2>1 DEF Obeys, Draws, Drawn, Sets, LooksUp, Names, Examines
  <2> QED BY <2>2, <2>3, <2>4 DEF Sound
<1> QED BY <1>6, <1>9, <1>10, <1>12, <1>14, <1>15, <1>16 DEF CreateInv

LEMMA NextSound == CreateInv /\ [Next]_vars => crossed' \/ CreateInv'
<1> SUFFICES ASSUME CreateInv, [Next]_vars, ~crossed' PROVE CreateInv'
  OBVIOUS
<1>1. ASSUME NEW c \in Clients, Step(c) PROVE CreateInv'
  <2>1. CASE Retry(c) \/ TransmissionFails(c) \/ Work(c)
    BY <2>1, RetryContinues, TransmissionFailsContinues, WorkContinues
  <2>2. CASE WalkOn(c) \/ Found(c) \/ NotThere(c) \/ ParentFound(c)
    BY <2>2, WalkOnContinues, FoundContinues, NotThereContinues, ParentFoundContinues
  <2>3. CASE ReadCounter(c) \/ AllocExtent(c) \/ ExtentLost(c) \/ ExtentsDone(c)
    BY <2>3, ReadCounterContinues, AllocExtentContinues, ExtentLostContinues,
       ExtentsDoneContinues
  <2>4. CASE InodeDone(c) \/ AttributesDone(c) \/ NameDone(c) \/ StatDone(c) \/ GiveUp(c)
    BY <2>4, InodeDoneContinues, AttributesDoneContinues, NameDoneContinues, EndContinues
  <2>5. CASE ListPage(c) \/ GoOn(c)
    BY <2>5, ListPageContinues, StartContinues DEF GoOn
  <2> QED BY <1>1, <2>1, <2>2, <2>3, <2>4, <2>5 DEF Step
<1>2. ASSUME NEW c \in Clients, Start(c) \/ DiskError(c) PROVE CreateInv'
  BY <1>2, StartContinues, DiskErrorContinues
<1>3. ASSUME NEW s, Die(s) PROVE CreateInv'
  BY <1>3, Untouched DEF Die
<1>4. ASSUME UNCHANGED vars PROVE CreateInv'
  <2>1. UNCHANGED <<metaVars, dataVars, client, dlock, scenario, diskErrors>>
    BY <1>4 DEF vars, faults
  <2> QED BY <2>1, Untouched
<1>5. ASSUME NEW c \in Clients, NEW d \in Clients, Collide(c, d) PROVE CreateInv'
  BY <1>5 DEF Collide
<1> QED BY <1>1, <1>2, <1>3, <1>4, <1>5 DEF Next

\* What has crossed is not forgotten.
LEMMA CrossedStays == [Next]_vars => crossed' \in {crossed, TRUE}
<1> SUFFICES ASSUME [Next]_vars, crossed' # TRUE PROVE crossed' = crossed
  OBVIOUS
<1>1. ASSUME NEW c \in Clients, Step(c) \/ Start(c) \/ DiskError(c) PROVE crossed' = crossed
  <2>1. CASE Retry(c) \/ TransmissionFails(c) \/ Work(c)
    BY <2>1 DEF Retry, TransmissionFails, Work, Serving, faults
  <2>2. CASE Start(c) \/ GoOn(c)
    BY <2>2 DEF GoOn, Start, Local, faults
  <2>3. CASE WalkOn(c) \/ Found(c) \/ NotThere(c) \/ ParentFound(c)
    BY <2>3 DEF WalkOn, Found, NotThere, ParentFound, Local, faults
  <2>4. CASE ReadCounter(c) \/ ExtentLost(c) \/ ExtentsDone(c)
    BY <2>4 DEF ReadCounter, ExtentLost, ExtentsDone, Local, faults
  <2>5. CASE AllocExtent(c) \/ DiskError(c)
    BY <2>5 DEF AllocExtent, DiskError, Unlocked
  <2>6. CASE InodeDone(c) \/ AttributesDone(c) \/ NameDone(c)
    BY <2>6 DEF InodeDone, AttributesDone, NameDone, Local, faults
  <2>7. CASE StatDone(c) \/ GiveUp(c) \/ ListPage(c)
    BY <2>7 DEF StatDone, GiveUp, ListPage, Local, faults
  <2> QED BY <1>1, <2>1, <2>2, <2>3, <2>4, <2>5, <2>6, <2>7 DEF Step
<1>2. ASSUME NEW s, Die(s) PROVE crossed' = crossed
  BY <1>2 DEF Die
<1>3. ASSUME NEW c \in Clients, NEW d \in Clients, Collide(c, d) PROVE FALSE
  BY <1>3 DEF Collide
<1>4. ASSUME UNCHANGED vars PROVE crossed' = crossed
  BY <1>4 DEF vars, faults
<1> QED BY <1>1, <1>2, <1>3, <1>4 DEF Next

LEMMA CrossedLasts == crossed /\ [Next]_vars => crossed'
  BY CrossedStays

LEMMA CrossedTyped == Spec => [](crossed \in BOOLEAN)
<1>1. Init => crossed \in BOOLEAN
  BY DEF Init
<1>2. crossed \in BOOLEAN /\ [Next]_vars => (crossed \in BOOLEAN)'
  BY CrossedStays
<1> QED BY <1>1, <1>2, PTL DEF Spec

\* Whoever makes a file owns its inode until it has a name, and a name is given
\* only to a file whose attributes are set and stay, until statements of two
\* workers cross on the connection they share: then one may take the other's rows
\* for its own, and nothing the metadata says is sure.
THEOREM CreateInvariant == Spec => [](crossed \/ CreateInv)
<1> QED BY InitSound, NextSound, CrossedLasts, PTL DEF Spec

\* hercules_mds_cmds.c, hercules_db_lib.c: the tables hold what the queries take
\* them to hold, a result or a lock belongs to the request that is served there, until statements
\* cross.
THEOREM CreationTyped == Spec => [](crossed \/ TypeOK)
<1>1. CreateInv /\ crossed \in BOOLEAN => crossed \/ TypeOK
  <2> SUFFICES ASSUME CreateInv, crossed \in BOOLEAN, ~crossed PROVE TypeOK
    OBVIOUS
  <2>1. Shaped /\ Tables /\ LaidOut /\ \A c \in Clients : Sound(c)
    BY DEF CreateInv
  <2>2. ASSUME NEW p \in Pairs, NEW h \in DOMAIN extents[p], NEW i \in 1..Len(extents[p][h])
        PROVE  extents[p][h][i].srv \in DataServers
    <3>1. h \in DOMAIN inode[p] /\ HandlesOf(p, h) = extents[p][h]
      BY <2>1 DEF Tables, HandlesOf
    <3>2. extents[p][h] \in Seq(Extent)
      BY <2>1, <3>1 DEF LaidOut
    <3>3. extents[p][h][i] \in Extent
      BY <3>2
    <3> QED BY <3>3 DEF Extent
  <2>3. \A p \in Pairs :
          /\ DOMAIN inode[p] \subseteq Nat
          /\ \A h \in DOMAIN inode[p] : inode[p][h] \in [mode : {"none", "dir", "file"},
                                                         stripes : {0, Stripes}]
          /\ DOMAIN extents[p] \subseteq DOMAIN inode[p]
    BY <2>1 DEF Tables
  <2>4. ASSUME NEW s \in Servers, result[s] # Nobody PROVE Srv(result[s]) = s
    <3>1. result[s] \in Clients
      BY <2>1, <2>4 DEF Shaped
    <3> QED BY <2>1, <3>1 DEF Sound, Holds, HoldsRequest
  <2>5. ASSUME NEW s \in Servers, lock[s] # Nobody
        PROVE  Srv(lock[s]) = s /\ Cmd(lock[s]).op = "alloc"
    <3>1. lock[s] \in Clients
      BY <2>1, <2>5 DEF Shaped
    <3>2. Srv(lock[s]) = s /\ job[lock[s]].at \in Locked
      BY <2>1, <3>1 DEF Sound, Holds, HoldsRequest
    <3>3. Obeys(lock[s])
      BY <2>1, <3>1 DEF Sound
    <3>4. job[lock[s]] # NoJob
      <4>1. NoJob.at = "none" /\ "none" \notin Locked
        BY DEF NoJob, Locked
      <4> QED BY <3>2, <4>1
    <3> QED BY <3>2, <3>3, <3>4 DEF Obeys, Serves, Locked
  <2>6. ASSUME NEW d \in DataServers, dlock[d] # Nobody PROVE at[dlock[d]] = "counted"
    <3>1. dlock[d] \in Clients
      BY <2>1, <2>6 DEF Shaped
    <3> QED BY <2>1, <3>1 DEF Sound, Holds
  <2>7. diskErrors \in 0..Given.diskErrors
    BY <2>1 DEF Shaped
  <2> QED BY <2>2, <2>3, <2>4, <2>5, <2>6, <2>7 DEF TypeOK
<1> QED BY <1>1, CreateInvariant, CrossedTyped, PTL

\* hfs_create_alloc_data_handle: however the servers are numbered and wherever
\* a file's extents begin, the copies of a stripe are on different servers.
THEOREM CopiesStayApart == Spec => []CopiesApart
<1>1. crossed \/ CreateInv => CopiesApart
  <2> SUFFICES ASSUME CreateInv, NEW p \in Pairs, NEW h \in DOMAIN inode[p],
                      NEW i \in 1..Stripes, Len(HandlesOf(p, h)) = Copies
               PROVE  HandlesOf(p, h)[i].srv # HandlesOf(p, h)[i + Stripes].srv
    BY DEF CopiesApart
  <2> DEFINE r == HandlesOf(p, h)
  <2>1. PICK f \in DataServers : Laid(r, f)
    BY DEF CreateInv, LaidOut
  <2>2. \A j \in 1..Copies : r[j].srv = Placement(f, j - 1)
    BY <2>1 DEF Laid
  <2> HIDE DEF r
  <2>3. /\ i \in 1..Copies /\ i + Stripes \in 1..Copies /\ i - 1 \in 0..Stripes - 1
        /\ (i + Stripes) - 1 = (i - 1) + Stripes
    BY CountsOfCopies
  <2>4. Placement(f, i - 1) # Placement(f, (i - 1) + Stripes)
    BY <2>3, CopiesOnDifferentServers
  <2>5. r[i].srv = Placement(f, i - 1) /\ r[i + Stripes].srv = Placement(f, (i + Stripes) - 1)
    BY <2>2, <2>3
  <2>6. r[i].srv # r[i + Stripes].srv
    BY <2>3, <2>4, <2>5
  <2> QED BY <2>6 DEF r
<1> QED BY <1>1, CreateInvariant, PTL

\* srvAllocDataHandle: requests that come together never make a data server try
\* to create a file it has, so that while no disk fails every handle is valid.
THEOREM HandlesStayValid == Spec => [](crossed \/ HandlesValid)
<1>1. CreateInv => HandlesValid
  BY DEF CreateInv, Sound, Draws, HandlesValid, Rows
<1> QED BY <1>1, CreateInvariant, PTL

\* dbGetAttr, dbSetAttr: attributes are fetched in two selects and set in many
\* statements, and yet are never seen half set.
THEOREM AttributesAreWhole == Spec => []AttributesWhole
<1>1. crossed \/ CreateInv => AttributesWhole
  <2> SUFFICES ASSUME CreateInv, NEW c \in Clients, Answered(c), Cmd(c).op = "getattr",
                      job[c].status = "ok"
               PROVE  /\ job[c].rows[1].mode # "none"
                      /\ Len(job[c].rows) = 1 + 2 * job[c].rows[1].stripes
                      /\ \A i, j \in 1..2 * job[c].rows[1].stripes :
                            job[c].rows[i + 1] = job[c].rows[j + 1] =>
                                i = j \/ job[c].rows[i + 1].hdl = Invalid
    BY DEF AttributesWhole
  <2>1. Obeys(c) /\ Examines(c) /\ LaidOut /\ Tables
    BY DEF CreateInv, Sound
  <2>2. at[c] = "attributes of"
    <3>1. job[c] # NoJob
      BY DEF Answered, NoJob
    <3> QED BY <2>1, <3>1 DEF Obeys, Serves
  <2> DEFINE p == Pair(c)
             h == Cmd(c).file
             x == inode[p][h]
             r == HandlesOf(p, h)
  <2>3. Settled(p, h) /\ job[c].rows = <<x>> \o r
    BY <2>1, <2>2 DEF Examines, Succeeded
  <2>4. /\ p \in Pairs /\ h \in DOMAIN inode[p] /\ x.mode # "none" /\ Len(r) = 2 * x.stripes
        /\ \A i, j \in 1..Len(r) : r[i] = r[j] => i = j \/ r[i].hdl = Invalid
    BY <2>3 DEF Settled, Complete
  <2>5. r \in Seq(Extent)
    BY <2>1, <2>4 DEF LaidOut
  <2>6. Len(r) \in Nat
    BY <2>5
  <2>7. x \in [mode : {"none", "dir", "file"}, stripes : {0, Stripes}]
    BY <2>1, <2>4 DEF Tables
  <2>8. x.stripes \in Nat
    BY <2>7, CountsOfCopies
  <2> DEFINE S == Extent \cup {x}
  <2>9. r \in Seq(S) /\ <<x>> \in Seq(S)
    BY <2>5
  <2> HIDE DEF x, r, S, p, h
  <2>10. Len(<<x>> \o r) = 1 + Len(r) /\ (<<x>> \o r)[1] = x
    BY <2>9
  <2>11. \A i \in 1..Len(r) : (<<x>> \o r)[i + 1] = r[i]
    BY <2>9, <2>6
  <2>12. job[c].rows[1] = x /\ Len(job[c].rows) = 1 + 2 * x.stripes
    BY <2>3, <2>4, <2>10
  <2>13. ASSUME NEW i \in 1..2 * x.stripes, NEW j \in 1..2 * x.stripes,
                job[c].rows[i + 1] = job[c].rows[j + 1]
         PROVE  i = j \/ job[c].rows[i + 1].hdl = Invalid
    <3>1. i \in 1..Len(r) /\ j \in 1..Len(r)
      BY <2>4
    <3>2. job[c].rows[i + 1] = r[i] /\ job[c].rows[j + 1] = r[j]
      BY <2>3, <2>11, <3>1
    <3>3. r[i] = r[j]
      BY <2>13, <3>2
    <3> QED BY <2>4, <3>1, <3>2, <3>3
  <2> QED BY <2>4, <2>12, <2>13
<1> QED BY <1>1, CreateInvariant, PTL
=============================================================================
