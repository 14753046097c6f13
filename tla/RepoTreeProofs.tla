--------------------------- MODULE RepoTreeProofs ---------------------------
(***************************************************************************)
(* Theorems about RepoTree, for any number of entries, versions, backups   *)
(* and threads: the types, that no page hides an entry with a version that *)
(* could be restored all the time it was read, that the dates a page       *)
(* offers undisturbed are those that restore a version, and what a         *)
(* deletion that is told as done has left.                                 *)
(***************************************************************************)
EXTENDS RepoTree, TLAPS, FiniteSetTheorems, WellFoundedInduction

\* An increment that says what n was at a backup since d.
HasInc(S, n, d) == \E i \in S : i.name = n /\ d <= i.date
OnDisk(n, d)    == mirror[n] # absent \/ HasInc(incs, n, d)

\* The kept backups and the markers: the last of the ones is in the others.
Last(m) == m \in DOMAIN history /\ \A d \in DOMAIN history : d <= m

Backups ==
    /\ DOMAIN history \subseteq Dates
    /\ \A d \in DOMAIN history : history[d] \in [Names -> States]
    /\ \E m \in DOMAIN history : Last(m)
    /\ markers = IF backup.pc = "none" THEN {LastDate} ELSE {LastDate, LastDate + 1}
    /\ backup.pc # "none" => LastDate < MaxDate

\* rdiff-backup: increments are those of backups that are over, and of the entries
\* that the one at work has looked at; it patches after it wrote the increment.
BackupFields == backup = [pc |-> backup.pc, todo |-> backup.todo, patch |-> backup.patch]
AtWork ==
    /\ BackupFields
    /\ backup.pc # "run" => backup.patch = <<>>
    /\ backup.pc # "none" => Unlocked
    /\ \A i \in incs : i.date <= LastDate
    /\ \A i \in incs : i.date = LastDate => backup.pc # "none" /\ i.name \notin backup.todo
    /\ backup.patch # <<>> =>
         \E n \in Names, v \in States : /\ backup.patch = <<n, v>>
                                        /\ HasInc(incs, n, LastDate)

\* No deletion is at work on the entry, and none left it half-way.
Whole(n) == job[n] # "deleting" /\ n \notin damaged

\* What can be restored is on the disk, and would be if the backup was undone.
Restorable ==
    \A n \in Names, d \in DOMAIN history :
        (history[d][n] # absent /\ Whole(n)) =>
            /\ OnDisk(n, d)
            /\ \/ history[LastDate][n] # absent
               \/ \E i \in incs : i.name = n /\ d <= i.date /\ i.date < LastDate

\* A request: what it has not looked at, and what it has seen of what it had.
Unseen == {<<"markers", "status", "mirror", "increments">>, <<"status", "mirror", "increments">>,
           <<"mirror", "increments">>, <<"mirror", "increments", "markers">>}
Half   == {<<"increments">>, <<"increments", "markers">>}
Seen   == {<<>>, <<"markers">>}

RequestFields(r) ==
    r = [op |-> r.op, names |-> r.names, todo |-> r.todo, marks |-> r.marks, failed |-> r.failed,
         exists |-> r.exists, incs |-> r.incs, had |-> r.had, quiet |-> r.quiet]
Knows(r) ==
    /\ RequestFields(r)
    /\ r.op = "none" => r.todo = <<>>
    /\ r.todo \in Unseen \cup Half \cup Seen
    /\ r.names \subseteq Names
    /\ r.exists \subseteq r.names
    /\ \A i \in r.incs : i.name \in r.names
    /\ \A x \in r.had : x \in Of(r.names) /\ x[2] <= LastDate /\ OnDisk(x[1], x[2])
    /\ r.todo \in Half => \A x \in r.had : x[1] \in r.exists \/ HasInc(incs, x[1], x[2])
    /\ r.todo \in Seen /\ ~r.failed => \A x \in r.had : x[1] \in Entries(r)

Requests == req \in [Threads -> {req[t] : t \in Threads}] /\ \A t \in Threads : Knows(req[t])

\* The rest of the types.
Shape ==
    /\ mirror \in [Names -> States]
    /\ incs \subseteq Increments
    /\ \A i, j \in incs : i.name = j.name /\ i.date = j.date => i = j
    /\ backup.pc \in {"none", "run", "dead"} /\ backup.todo \subseteq Names
    /\ job \in [Names -> {"none", "scheduled", "deleting", "exited", "broken", "done"}]
    /\ asked \in [Names -> Dates \cup {0}] /\ damaged \subseteq Names

IInv == Shape /\ Backups /\ AtWork /\ Restorable /\ Requests

-----------------------------------------------------------------------------
(***************************************************************************)
(* Dates                                                                   *)
(***************************************************************************)
LEMMA Bound == MaxDate \in Nat \ {0} /\ Dates = 1..MaxDate /\ Dates \subseteq Nat
BY MaxDateAssumption DEF MaxDateAssumption, Dates

\* The operator Max of a set that has a greatest element.
LEMMA MaxIs ==
    ASSUME NEW S \in SUBSET Int, NEW m \in S, \A d \in S : d <= m
    PROVE  Max(S) = m
<1>1. \E x \in S : \A y \in S : x >= y
  BY DEF Max
<1>2. Max(S) \in S /\ \A y \in S : Max(S) >= y
  BY <1>1 DEF Max
<1>3. Max(S) <= m /\ Max(S) >= m /\ Max(S) \in Int /\ m \in Int
  BY <1>2
<1> QED BY <1>3

LEMMA Smallest ==
    ASSUME NEW T \in SUBSET Nat, T # {}
    PROVE  \E x \in T : \A y \in T : x <= y
<1> DEFINE R == OpToRel(<, Nat)
<1>1. IsWellFoundedOn(R, Nat)
  BY NatLessThanWellFounded
<1>2. \A x, y \in Nat : <<y, x>> \in R <=> y < x
  BY DEF OpToRel
<1> HIDE DEF R
<1>3. PICK x \in T : \A y \in T : ~(<<y, x>> \in R)
  BY <1>1, WFMin
<1>4. \A y \in T : ~(y < x)
  BY <1>2, <1>3, Zenon
<1>5. \A y \in T : y \in Nat /\ x \in Nat
  OBVIOUS
<1> QED BY <1>4, <1>5

LEMMA LastDateIs ==
    ASSUME Backups
    PROVE  Last(LastDate) /\ LastDate \in Dates /\ LastDate \in Nat
<1>1. PICK m \in DOMAIN history : Last(m)
  BY DEF Backups
<1>2. DOMAIN history \in SUBSET Int
  BY Bound DEF Backups
<1>3. LastDate = m
  BY <1>1, <1>2, MaxIs DEF Last, LastDate
<1> QED BY <1>1, <1>3, Bound DEF Backups

\* What the types of the markers and the requests follow from.
LEMMA TypeFrom == ASSUME IInv PROVE TypeOK
<1>1. LastDate \in Nat /\ LastDate \in Dates
  BY LastDateIs DEF IInv
<1>2. markers \subseteq Dates /\ LastDate \in markers
  BY <1>1, Bound DEF IInv, Backups, Shape
<1>3. Cardinality(markers) = IF backup.pc = "none" THEN 1 ELSE 2
  <2>1. IsFiniteSet({LastDate}) /\ Cardinality({LastDate}) = 1
    BY FS_Singleton
  <2>2. Cardinality({LastDate} \cup {LastDate + 1}) = 2
    BY <1>1, <2>1, FS_AddElement
  <2>3. {LastDate, LastDate + 1} = {LastDate} \cup {LastDate + 1}
    OBVIOUS
  <2> QED BY <2>1, <2>2, <2>3 DEF IInv, Backups
<1>4. \A t \in Threads : /\ req[t].exists \cup {i.name : i \in req[t].incs} \subseteq req[t].names
                         /\ req[t].had \subseteq Of(req[t].names)
  BY DEF IInv, Requests, Knows
<1> QED BY <1>2, <1>3, <1>4 DEF IInv, Shape, Backups, TypeOK

LEMMA InvInit == ASSUME Init PROVE IInv
<1>1. DOMAIN history = {1} /\ history[1] = mirror /\ 1 \in Dates
  BY Bound DEF Init
<1>2. LastDate = 1 /\ Last(1)
  BY <1>1, MaxIs DEF LastDate, Last
<1>3. backup.pc = "none" /\ backup.todo = {} /\ backup.patch = <<>>
  BY DEF Init, NoBackup
<1>4. Backups
  BY <1>1, <1>2, <1>3 DEF Init, Backups
<1>5. AtWork /\ Shape
  BY <1>2, <1>3 DEF Init, AtWork, BackupFields, NoBackup, Shape
<1>6. Restorable
  BY <1>1, <1>2 DEF Restorable, OnDisk
<1>7. Requests
  BY DEF Init, Requests, Knows, RequestFields, NoReq, Of, Seen
<1> QED BY <1>4, <1>5, <1>6, <1>7 DEF IInv

-----------------------------------------------------------------------------
(***************************************************************************)
(* Requests                                                                *)
(***************************************************************************)
\* A change of the disk that keeps what may still be shown.
LEMMA Disturbed ==
    ASSUME Requests, NEW kept, Disturb(kept), LastDate \in Nat, LastDate' \in Nat,
           LastDate <= LastDate',
           \A n \in Names, d \in Dates : (<<n, d>> \in kept /\ d <= LastDate) =>
               /\ OnDisk(n, d) => OnDisk(n, d)'
               /\ HasInc(incs, n, d) => HasInc(incs', n, d)
    PROVE  Requests'
<1>1. \A t \in Threads : req'[t] = [req[t] EXCEPT !.quiet = FALSE, !.had = @ \cap kept]
  BY DEF Disturb
<1>2. req' \in [Threads -> {req'[t] : t \in Threads}]
  BY DEF Disturb
<1>3. ASSUME NEW t \in Threads PROVE Knows(req[t])'
  <2>1. Knows(req[t])
    BY DEF Requests
  <2>2. /\ RequestFields(req'[t]) /\ req'[t].op = req[t].op /\ req'[t].names = req[t].names
        /\ req'[t].todo = req[t].todo /\ req'[t].exists = req[t].exists /\ req'[t].failed = req[t].failed
        /\ req'[t].incs = req[t].incs /\ req'[t].had = req[t].had \cap kept
    BY <1>1, <2>1 DEF Knows, RequestFields
  <2>3. ASSUME NEW x \in req'[t].had
        PROVE  /\ x \in Of(req[t].names) /\ x[2] <= LastDate' /\ OnDisk(x[1], x[2])'
               /\ HasInc(incs, x[1], x[2]) => HasInc(incs', x[1], x[2])
    <3>1. x \in kept /\ x \in Of(req[t].names) /\ x[2] <= LastDate /\ OnDisk(x[1], x[2])
      BY <2>1, <2>2 DEF Knows
    <3>2. x[1] \in Names /\ x[2] \in Dates /\ x = <<x[1], x[2]>> /\ x[2] \in Nat
      BY <2>1, <3>1, Bound DEF Knows, Of
    <3> QED BY <3>1, <3>2
  <2>4. req'[t].todo \in Half => \A x \in req'[t].had : x[1] \in req'[t].exists \/ HasInc(incs', x[1], x[2])
    BY <2>1, <2>2, <2>3 DEF Knows
  <2>5. req'[t].todo \in Seen /\ ~req'[t].failed => \A x \in req'[t].had : x[1] \in Entries(req'[t])
    BY <2>1, <2>2 DEF Knows, Entries
  <2>6. \A x \in req'[t].had : x \in Of(req'[t].names) /\ x[2] <= LastDate' /\ OnDisk(x[1], x[2])'
    BY <2>2, <2>3
  <2> QED BY <2>1, <2>2, <2>4, <2>5, <2>6 DEF Knows
<1> QED BY <1>2, <1>3 DEF Requests

\* A page begins to read: what it has is on the disk.
LEMMA BeginStep ==
    ASSUME IInv, NEW t \in Threads, NEW op, NEW names \in SUBSET Names, Begin(t, op, names),
           op # "none"
    PROVE  Requests'
<1>0. PICK q \in BOOLEAN : q = Quiet
  BY DEF Quiet
<1> DEFINE had == Offerable \cap Of(names)
           r == [NoReq EXCEPT !.op = op, !.names = names, !.todo = Looks(op), !.had = had, !.quiet = q]
<1>1. req' = [req EXCEPT ![t] = r] /\ UNCHANGED <<disk, backup, history, deletion>>
  BY <1>0 DEF Begin
<1> HIDE DEF had
<1>2. \A z : z = NoReq => RequestFields(z) /\ z.exists = {} /\ z.incs = {}
  BY DEF NoReq, RequestFields
<1>9. req'[t] = r /\ req' \in [Threads -> {req'[u] : u \in Threads}]
  BY <1>1 DEF IInv, Requests
<1>10. /\ RequestFields(req'[t]) /\ req'[t].op = op /\ req'[t].names = names
       /\ req'[t].todo = Looks(op) /\ req'[t].exists = {} /\ req'[t].incs = {} /\ req'[t].had = had
  <2>1. PICK z : z = NoReq
    OBVIOUS
  <2>2. RequestFields(z) /\ z.exists = {} /\ z.incs = {}
    BY <1>2, <2>1
  <2>3. req'[t] = [z EXCEPT !.op = op, !.names = names, !.todo = Looks(op), !.had = had, !.quiet = q]
    BY <1>9, <2>1
  <2> QED BY <2>2, <2>3 DEF RequestFields
<1> HIDE DEF r
<1>3. Looks(op) \in Unseen /\ Looks(op) \notin Half \cup Seen
  <2>1. Looks(op) \in Unseen
    BY DEF Looks, Unseen
  <2>2. \A x \in Unseen : x \notin Half \cup Seen
    BY DEF Unseen, Half, Seen
  <2> QED BY <2>1, <2>2
<1> USE DEF had
<1>4. ASSUME NEW x \in had PROVE x \in Of(names) /\ x[2] <= LastDate /\ OnDisk(x[1], x[2])
  <2>1. x[1] \in names /\ x[2] \in DOMAIN history /\ x = <<x[1], x[2]>>
        /\ history[x[2]][x[1]] # absent /\ Whole(x[1])
    BY DEF Offerable, Kept, Of, Whole
  <2>2. OnDisk(x[1], x[2])
    BY <2>1 DEF IInv, Restorable
  <2>3. x[2] <= LastDate /\ x[2] \in Dates
    BY <2>1, LastDateIs DEF Last, IInv, Backups
  <2> QED BY <2>1, <2>2, <2>3 DEF Of
<1>5. UNCHANGED <<mirror, incs, history>> /\ LastDate' = LastDate
  BY <1>1 DEF disk, LastDate
<1> HIDE DEF had
<1>6. Knows(req[t])'
  BY <1>3, <1>4, <1>5, <1>10 DEF Knows, OnDisk
<1>7. \A u \in Threads \ {t} : Knows(req[u])'
  BY <1>1, <1>5 DEF IInv, Requests, Knows, OnDisk, RequestFields, Entries
<1> QED BY <1>6, <1>7, <1>9 DEF Requests

\* The directory is always looked at before its increments.
LEMMA Order ==
    /\ Unseen \cap Half = {} /\ Unseen \cap Seen = {} /\ Half \cap Seen = {}
    /\ \A q \in (Unseen \cup Half \cup Seen) \ {<<>>} :
          /\ Head(q) = "markers" => (q \in Unseen /\ Tail(q) \in Unseen) \/ (q \in Seen /\ Tail(q) \in Seen)
          /\ Head(q) = "status" => q \in Unseen /\ Tail(q) \in Unseen
          /\ Head(q) = "mirror" => Tail(q) \in Half
          /\ Head(q) \notin {"markers", "status", "mirror"} => q \in Half /\ Tail(q) \in Seen
<1>1. Unseen \cap Half = {} /\ Unseen \cap Seen = {} /\ Half \cap Seen = {}
  BY DEF Unseen, Half, Seen
<1>2. ASSUME NEW q \in (Unseen \cup Half \cup Seen) \ {<<>>}
      PROVE  /\ Head(q) = "markers" => (q \in Unseen /\ Tail(q) \in Unseen) \/ (q \in Seen /\ Tail(q) \in Seen)
             /\ Head(q) = "status" => q \in Unseen /\ Tail(q) \in Unseen
             /\ Head(q) = "mirror" => Tail(q) \in Half
             /\ Head(q) \notin {"markers", "status", "mirror"} => q \in Half /\ Tail(q) \in Seen
  <2>1. CASE q = <<"markers", "status", "mirror", "increments">>
    <3>1. Head(q) = "markers" /\ Tail(q) = <<"status", "mirror", "increments">>
      BY <2>1
    <3> QED BY <2>1, <3>1 DEF Unseen
  <2>7. CASE q = <<"status", "mirror", "increments">>
    <3>1. Head(q) = "status" /\ Tail(q) = <<"mirror", "increments">>
      BY <2>7
    <3> QED BY <2>7, <3>1 DEF Unseen
  <2>2. CASE q = <<"mirror", "increments">>
    BY <2>2 DEF Half
  <2>3. CASE q = <<"mirror", "increments", "markers">>
    BY <2>3 DEF Half
  <2>4. CASE q = <<"increments">>
    BY <2>4 DEF Half, Seen
  <2>5. CASE q = <<"increments", "markers">>
    BY <2>5 DEF Half, Seen
  <2>6. CASE q = <<"markers">>
    BY <2>6 DEF Seen
  <2> QED BY <1>2, <2>1, <2>2, <2>3, <2>4, <2>5, <2>6, <2>7 DEF Unseen, Half, Seen
<1> QED BY <1>1, <1>2

\* A look at the directory finds what has no increment, and the increments the rest.
LEMMA LookStep ==
    ASSUME IInv, NEW t \in Threads, Look(t)
    PROVE  Requests'
<1> DEFINE r == req[t]
           n == req'[t]
<1>1. /\ Knows(r) /\ DOMAIN req = Threads /\ req \in [Threads -> {req[u] : u \in Threads}]
  BY DEF IInv, Requests
<1>2. UNCHANGED <<mirror, incs, history>> /\ LastDate' = LastDate
  BY DEF Look, disk, LastDate
<1>3. /\ r.todo # <<>> /\ req' \in [Threads -> {req'[u] : u \in Threads}]
      /\ \A u \in Threads \ {t} : req'[u] = req[u]
  BY <1>1 DEF Look
<1>4. /\ Head(r.todo) = "markers" => n = [r EXCEPT !.todo = Tail(@), !.marks = markers]
      /\ Head(r.todo) = "status"  => n = [r EXCEPT !.todo = Tail(@)]
                                       \/ n = [r EXCEPT !.todo = <<>>, !.failed = TRUE]
      /\ Head(r.todo) = "mirror"  => n = [r EXCEPT !.todo = Tail(@), !.exists = Existing(r.names)]
      /\ Head(r.todo) \notin {"markers", "status", "mirror"} => n = [r EXCEPT !.todo = Tail(@), !.incs = Listed(r.names)]
  <2>1. n = Looked(r)
    BY <1>1 DEF Look
  <2>2. RequestFields(r)
    BY <1>1 DEF Knows
  <2> QED BY <2>1, <2>2 DEF Looked, RequestFields
<1>9. RequestFields(r)
  BY <1>1 DEF Knows
<1>5. \A u \in Threads \ {t} : Knows(req[u])'
  BY <1>2, <1>3 DEF IInv, Requests, Knows, OnDisk, RequestFields, Entries
<1>6. CASE Head(r.todo) = "markers"
  <2>1. n = [r EXCEPT !.todo = Tail(@), !.marks = markers]
    BY <1>4, <1>6, <1>9 DEF RequestFields
  <2>2. /\ RequestFields(n) /\ n.op = r.op /\ n.names = r.names /\ n.todo = Tail(r.todo)
        /\ n.exists = r.exists /\ n.incs = r.incs /\ n.had = r.had /\ n.failed = r.failed
    BY <1>1, <2>1 DEF Knows, RequestFields
  <2>3. \/ r.todo \in Unseen /\ n.todo \in Unseen /\ n.todo \notin Half \cup Seen
        \/ r.todo \in Seen /\ n.todo \in Seen /\ n.todo \notin Half
    BY <1>1, <1>3, <1>6, <2>2, Order DEF Knows
  <2>4. Knows(req[t])'
    BY <1>1, <1>2, <1>3, <2>2, <2>3 DEF Knows, OnDisk, Entries
  <2> QED BY <1>3, <1>5, <2>4 DEF Requests
<1>7. CASE Head(r.todo) = "mirror"
  <2>1. n = [r EXCEPT !.todo = Tail(@), !.exists = Existing(r.names)]
    BY <1>4, <1>7, <1>9 DEF RequestFields
  <2>2. /\ RequestFields(n) /\ n.op = r.op /\ n.names = r.names /\ n.todo = Tail(r.todo)
        /\ n.exists = Existing(r.names) /\ n.incs = r.incs /\ n.had = r.had
        /\ n.failed = r.failed
    BY <1>1, <2>1 DEF Knows, RequestFields
  <2>3. n.todo \in Half /\ n.todo \notin Seen
    BY <1>1, <1>3, <1>7, <2>2, Order DEF Knows
  <2>4. \A x \in r.had : x[1] \in n.exists \/ HasInc(incs, x[1], x[2])
    BY <1>1, <2>2 DEF Knows, OnDisk, Existing, Of
  <2>5. Existing(r.names) \subseteq r.names
    BY DEF Existing
  <2>6. Knows(req[t])'
    BY <1>1, <1>2, <1>3, <2>2, <2>3, <2>4, <2>5 DEF Knows, OnDisk, Entries
  <2> QED BY <1>3, <1>5, <2>6 DEF Requests
<1>10. CASE Head(r.todo) = "status"
  <2>1. r.todo \in Unseen /\ Tail(r.todo) \in Unseen
    BY <1>1, <1>3, <1>10, Order DEF Knows
  <2>2. CASE n = [r EXCEPT !.todo = Tail(@)]
    <3>1. /\ RequestFields(n) /\ n.op = r.op /\ n.names = r.names /\ n.todo = Tail(r.todo)
          /\ n.exists = r.exists /\ n.incs = r.incs /\ n.had = r.had
      BY <1>9, <2>2 DEF RequestFields
    <3>2. n.todo \notin Half \cup Seen
      BY <2>1, <3>1, Order
    <3>3. Knows(req[t])'
      BY <1>1, <1>2, <1>3, <2>1, <3>1, <3>2 DEF Knows, OnDisk
    <3> QED BY <1>3, <1>5, <3>3 DEF Requests
  <2>3. CASE n = [r EXCEPT !.todo = <<>>, !.failed = TRUE]
    <3>1. /\ RequestFields(n) /\ n.op = r.op /\ n.names = r.names /\ n.todo = <<>> /\ n.failed
          /\ n.exists = r.exists /\ n.incs = r.incs /\ n.had = r.had
      BY <1>9, <2>3 DEF RequestFields
    <3>2. n.todo \in Seen /\ n.todo \notin Half
      BY <3>1, Order DEF Seen
    <3>3. Knows(req[t])'
      BY <1>1, <1>2, <1>3, <3>1, <3>2 DEF Knows, OnDisk
    <3> QED BY <1>3, <1>5, <3>3 DEF Requests
  <2> QED BY <1>4, <1>10, <2>2, <2>3
<1>8. CASE Head(r.todo) \notin {"markers", "status", "mirror"}
  <2>1. n = [r EXCEPT !.todo = Tail(@), !.incs = Listed(r.names)]
    BY <1>4, <1>8, <1>9 DEF RequestFields
  <2>2. /\ RequestFields(n) /\ n.op = r.op /\ n.names = r.names /\ n.todo = Tail(r.todo)
        /\ n.exists = r.exists /\ n.incs = Listed(r.names) /\ n.had = r.had /\ n.failed = r.failed
    BY <1>1, <2>1 DEF Knows, RequestFields
  <2>3. r.todo \in Half /\ n.todo \in Seen /\ n.todo \notin Half
    BY <1>1, <1>3, <1>8, <2>2, Order DEF Knows
  <2>4. \A x \in r.had : x[1] \in Entries(n)
    <3>1. SUFFICES ASSUME NEW x \in r.had, HasInc(incs, x[1], x[2])
                   PROVE  x[1] \in Entries(n)
      BY <1>1, <2>2, <2>3 DEF Knows, Entries
    <3>2. x[1] \in r.names
      BY <1>1 DEF Knows, Of
    <3>3. PICK i \in incs : i.name = x[1]
      BY <3>1 DEF HasInc
    <3> QED BY <2>2, <3>2, <3>3 DEF Listed, Entries
  <2>5. \A i \in Listed(r.names) : i.name \in r.names
    BY DEF Listed
  <2>6. Knows(req[t])'
    BY <1>1, <1>2, <1>3, <2>2, <2>3, <2>4, <2>5 DEF Knows, OnDisk, Entries
  <2> QED BY <1>3, <1>5, <2>6 DEF Requests
<1> QED BY <1>6, <1>7, <1>8, <1>10

LEMMA AnswerStep ==
    ASSUME IInv, NEW t \in Threads, Answer(t)
    PROVE  Requests'
<1>1. UNCHANGED <<mirror, incs, history>> /\ LastDate' = LastDate
  BY DEF Answer, disk, LastDate
<1>2. /\ req' \in [Threads -> {req'[u] : u \in Threads}] /\ req'[t] = NoReq
      /\ \A u \in Threads \ {t} : req'[u] = req[u]
  BY DEF Answer, IInv, Requests
<1>3. \A z : z = NoReq => /\ RequestFields(z) /\ z.names = {} /\ z.exists = {} /\ z.incs = {}
                          /\ z.had = {} /\ z.todo = <<>>
  BY DEF NoReq, RequestFields
<1>4. Knows(req[t])'
  BY <1>2, <1>3 DEF Knows, Seen
<1>5. \A u \in Threads \ {t} : Knows(req[u])'
  BY <1>1, <1>2 DEF IInv, Requests, Knows, OnDisk, RequestFields, Entries
<1> QED BY <1>2, <1>4, <1>5 DEF Requests

\* A step of a request changes nothing else.
LEMMA ThreadStep ==
    ASSUME IInv, NEW t \in Threads,
           Browse(t) \/ (\E n \in Names : History(t, n)) \/ Look(t) \/ Answer(t)
    PROVE  IInv'
<1>1. Requests'
  <2>1. CASE Browse(t)
    BY <2>1, BeginStep DEF Browse
  <2>2. CASE \E n \in Names : History(t, n)
    BY <2>2, BeginStep DEF History
  <2> QED BY <2>1, <2>2, LookStep, AnswerStep
<1>2. UNCHANGED <<mirror, incs, markers, backup, history, job, asked, damaged>>
  BY DEF Browse, History, Begin, Look, Answer, disk, deletion
<1> QED
  BY <1>1, <1>2 DEF Unlocked, IInv, Shape, Backups, AtWork, BackupFields, Restorable, Whole, OnDisk, Last, LastDate

-----------------------------------------------------------------------------
(***************************************************************************)
(* Backups                                                                 *)
(***************************************************************************)
\* What every step below starts from.
LEMMA Facts ==
    ASSUME IInv
    PROVE  /\ Shape /\ Backups /\ AtWork /\ Restorable /\ Requests
           /\ Last(LastDate) /\ LastDate \in Dates /\ LastDate \in Nat
           /\ \A i \in incs : i.name \in Names /\ i.date \in Nat /\ i.date \in Dates
           /\ \A d \in Dates : d \in Nat
BY LastDateIs, Bound DEF IInv, Shape, Increments

LEMMA StartStep == ASSUME IInv, StartBackup PROVE IInv'
<1>1. UNCHANGED <<mirror, incs, history, job, asked, damaged>> /\ LastDate' = LastDate
  BY DEF StartBackup, LastDate, deletion
<1>2. /\ backup.pc = "none" /\ LastDate < MaxDate /\ backup'.pc = "run" /\ backup'.todo = Names
      /\ backup'.patch = <<>> /\ BackupFields' /\ markers' = markers \cup {LastDate + 1}
  BY DEF StartBackup, BackupFields
<1>3. Shape'
  BY <1>1, <1>2 DEF IInv, Shape
<1>4. Backups'
  BY <1>1, <1>2 DEF IInv, Backups, Last
<1>5. AtWork'
  BY <1>1, <1>2, Facts DEF StartBackup, Unlocked, AtWork
<1>6. Restorable'
  BY <1>1 DEF IInv, Restorable, Whole, OnDisk
<1>7. Requests'
  BY <1>1, Facts, Disturbed DEF StartBackup, OnDisk
<1> QED BY <1>3, <1>4, <1>5, <1>6, <1>7 DEF IInv

LEMMA WriteStep ==
    ASSUME IInv, NEW n \in Names, NEW v \in States, WriteIncrement(n, v)
    PROVE  IInv'
<1> DEFINE new == [name |-> n, date |-> LastDate, missing |-> mirror[n] = absent]
<1>1. UNCHANGED <<mirror, markers, history, job, asked, damaged>> /\ LastDate' = LastDate
  BY DEF WriteIncrement, LastDate, deletion
<1>2. /\ backup.pc = "run" /\ backup.patch = <<>> /\ n \in backup.todo
      /\ incs' = incs \cup {new} /\ backup' = [backup EXCEPT !.todo = @ \ {n}, !.patch = <<n, v>>]
  BY DEF WriteIncrement
<1>3. /\ BackupFields' /\ backup'.pc = "run" /\ backup'.todo = backup.todo \ {n}
      /\ backup'.patch = <<n, v>>
  BY <1>2, Facts DEF AtWork, BackupFields
<1>4. new \in Increments /\ new.name = n /\ new.date = LastDate
  BY Facts DEF Increments
<1>5. \A i \in incs : ~(i.name = n /\ i.date = LastDate)
  BY <1>2, Facts DEF AtWork
<1> HIDE DEF new
<1>6. Shape'
  BY <1>1, <1>2, <1>3, <1>4, <1>5, Facts DEF Shape
<1>7. Backups'
  BY <1>1, <1>2, <1>3, Facts DEF Backups, Last
<1>8. AtWork'
  BY <1>1, <1>2, <1>3, <1>4, Facts DEF Unlocked, AtWork, HasInc
<1>9. Restorable'
  BY <1>1, <1>2, Facts DEF Restorable, Whole, OnDisk, HasInc
<1>10. Requests'
  BY <1>1, <1>2, Facts, Disturbed DEF WriteIncrement, OnDisk, HasInc
<1> QED BY <1>6, <1>7, <1>8, <1>9, <1>10 DEF IInv

LEMMA PatchStep == ASSUME IInv, PatchMirror PROVE IInv'
<1>1. UNCHANGED <<incs, markers, history, job, asked, damaged>> /\ LastDate' = LastDate
  BY DEF PatchMirror, LastDate, deletion
<1>2. PICK n \in Names, v \in States : backup.patch = <<n, v>> /\ HasInc(incs, n, LastDate)
  BY Facts DEF PatchMirror, AtWork
<1>3. /\ backup.pc = "run" /\ BackupFields' /\ backup'.pc = "run" /\ backup'.todo = backup.todo
      /\ backup'.patch = <<>>
  BY Facts DEF PatchMirror, AtWork, BackupFields
<1>4. mirror' = [mirror EXCEPT ![n] = v]
  BY <1>2 DEF PatchMirror
<1>5. Shape'
  BY <1>1, <1>3, <1>4, Facts DEF Shape
<1>6. Backups' /\ AtWork'
  BY <1>1, <1>3, Facts DEF Unlocked, Backups, AtWork, Last
<1>7. ASSUME NEW m \in Names, NEW d \in Dates, d <= LastDate, OnDisk(m, d)
      PROVE  OnDisk(m, d)'
  <2>1. CASE m = n
    BY <1>1, <1>2, <1>7, <2>1, Facts DEF OnDisk, HasInc
  <2>2. CASE m # n
    BY <1>1, <1>4, <1>7, <2>2, Facts DEF OnDisk, Shape
  <2> QED BY <2>1, <2>2
<1>8. Restorable'
  BY <1>1, <1>7, Facts DEF Restorable, Whole, Last, Backups
<1>9. Requests'
  BY <1>1, <1>7, Facts, Disturbed DEF PatchMirror
<1> QED BY <1>5, <1>6, <1>8, <1>9 DEF IInv

\* The new backup is what the directory is now; older ones have their increments.
LEMMA FinishStep == ASSUME IInv, FinishBackup PROVE IInv'
<1>1. UNCHANGED <<mirror, incs, job, asked, damaged>> /\ backup.pc = "run" /\ backup.patch = <<>>
  BY DEF FinishBackup, deletion
<1>2. backup'.pc = "none" /\ backup'.todo = {} /\ backup'.patch = <<>> /\ BackupFields'
  BY DEF FinishBackup, NoBackup, BackupFields
<1>3. /\ DOMAIN history' = DOMAIN history \cup {LastDate + 1}
      /\ \A d \in DOMAIN history : history'[d] = history[d]
      /\ history'[LastDate + 1] = mirror /\ markers' = {LastDate + 1}
  <2>1. LastDate + 1 \notin DOMAIN history
    BY Facts DEF Last, Backups
  <2> QED BY <2>1 DEF FinishBackup
<1>4. LastDate + 1 \in Dates /\ LastDate < LastDate + 1
  BY <1>1, Facts, Bound DEF Backups
<1>5. LastDate' = LastDate + 1
  <2>1. DOMAIN history' \in SUBSET Int /\ LastDate + 1 \in DOMAIN history'
        /\ \A d \in DOMAIN history' : d <= LastDate + 1
    BY <1>3, <1>4, Facts, Bound DEF Last, Backups
  <2>2. Max(DOMAIN history') = LastDate + 1
    BY <2>1, MaxIs
  <2> QED BY <2>2 DEF LastDate
<1>6. Shape'
  BY <1>1, <1>2, Facts DEF Shape
<1>7. Backups'
  <2>1. LastDate + 1 \in DOMAIN history' /\ \A d \in DOMAIN history' : d <= LastDate + 1
    BY <1>3, <1>4, Facts DEF Last, Backups
  <2>2. \A d \in DOMAIN history' : history'[d] \in [Names -> States]
    BY <1>3, Facts DEF Backups, Shape
  <2> QED BY <1>2, <1>3, <1>4, <1>5, <2>1, <2>2, Facts DEF Backups, Last
<1>8. AtWork'
  BY <1>1, <1>2, <1>4, <1>5, Facts DEF AtWork
<1>9. Restorable'
  <2>1. ASSUME NEW n \in Names, NEW d \in DOMAIN history, history[d][n] # absent, Whole(n)
        PROVE  /\ OnDisk(n, d)'
               /\ mirror[n] # absent \/ \E i \in incs : i.name = n /\ d <= i.date /\ i.date < LastDate + 1
    <3>1. OnDisk(n, d)
      BY <2>1, Facts DEF Restorable
    <3>2. \A i \in incs : i.date < LastDate + 1
      BY Facts DEF AtWork
    <3> QED BY <1>1, <3>1, <3>2 DEF OnDisk, HasInc
  <2>2. ASSUME NEW n \in Names, NEW d \in DOMAIN history', history'[d][n] # absent, Whole(n)
        PROVE  /\ OnDisk(n, d)'
               /\ mirror[n] # absent \/ \E i \in incs : i.name = n /\ d <= i.date /\ i.date < LastDate + 1
    <3>1. CASE d \in DOMAIN history
      BY <1>3, <2>1, <2>2, <3>1
    <3>2. CASE d = LastDate + 1
      BY <1>1, <1>3, <2>2, <3>2 DEF OnDisk
    <3> QED BY <1>3, <3>1, <3>2
  <2> QED BY <1>1, <1>3, <1>5, <2>2 DEF Restorable, Whole
<1>10. Requests'
  BY <1>1, <1>4, <1>5, Facts, Disturbed DEF FinishBackup, OnDisk
<1> QED BY <1>6, <1>7, <1>8, <1>9, <1>10 DEF IInv

\* An interrupted backup leaves all it did.
LEMMA InterruptStep == ASSUME IInv, Interrupt PROVE IInv'
<1>1. UNCHANGED <<mirror, incs, markers, history, job, asked, damaged, req>> /\ LastDate' = LastDate
  BY DEF Interrupt, disk, deletion, LastDate
<1>2. /\ backup.pc = "run" /\ backup'.pc = "dead" /\ backup'.todo = {} /\ backup'.patch = <<>>
      /\ BackupFields'
  BY DEF Interrupt, NoBackup, BackupFields
<1>3. Shape' /\ Backups'
  BY <1>1, <1>2, Facts DEF Shape, Backups, Last
<1>4. AtWork'
  BY <1>1, <1>2, Facts DEF Unlocked, AtWork
<1>5. Restorable' /\ Requests'
  BY <1>1, Facts DEF Restorable, Whole, OnDisk, Requests, Knows, RequestFields, Entries
<1> QED BY <1>3, <1>4, <1>5 DEF IInv

\* What was restorable before an interrupted backup is when it is undone.
LEMMA RegressStep == ASSUME IInv, Regress PROVE IInv'
<1>1. UNCHANGED <<history, job, asked, damaged>> /\ LastDate' = LastDate
  BY DEF Regress, LastDate, deletion
<1>2. backup'.pc = "none" /\ backup'.todo = {} /\ backup'.patch = <<>> /\ BackupFields'
  BY DEF Regress, NoBackup, BackupFields
<1>3. /\ mirror' = history[LastDate] /\ incs' = {i \in incs : i.date < LastDate}
      /\ markers' = {LastDate}
  BY DEF Regress
<1>4. Shape'
  BY <1>1, <1>2, <1>3, Facts DEF Shape, Backups, Last
<1>5. Backups'
  BY <1>1, <1>2, <1>3, Facts DEF Backups, Last
<1>6. AtWork'
  BY <1>1, <1>2, <1>3, Facts DEF AtWork
<1>7. Restorable'
  BY <1>1, <1>3, Facts DEF Restorable, Whole, OnDisk, HasInc
<1>8. Requests'
  BY <1>1, Facts, Disturbed DEF Regress
<1> QED BY <1>4, <1>5, <1>6, <1>7, <1>8 DEF IInv

\* The increments of what is kept are kept.
LEMMA RemoveStep == ASSUME IInv, NEW date \in Dates, RemoveOlder(date) PROVE IInv'
<1>1. UNCHANGED <<mirror, markers, backup, job, asked, damaged>> /\ backup.pc = "none" /\ date \in DOMAIN history
  BY DEF RemoveOlder, deletion
<1>2. /\ incs' = {i \in incs : i.date >= date}
      /\ DOMAIN history' = {e \in DOMAIN history : e >= date}
      /\ \A d \in DOMAIN history' : history'[d] = history[d]
  BY DEF RemoveOlder
<1>3. LastDate' = LastDate /\ Last(LastDate)' /\ LastDate \in DOMAIN history'
  <2>1. LastDate \in DOMAIN history' /\ \A d \in DOMAIN history' : d <= LastDate
    BY <1>1, <1>2, Facts DEF Last
  <2>2. DOMAIN history' \in SUBSET Int
    BY <1>2, Facts, Bound DEF Backups
  <2>3. Max(DOMAIN history') = LastDate
    BY <2>1, <2>2, MaxIs
  <2> QED BY <2>1, <2>3 DEF LastDate, Last
<1>4. Shape'
  BY <1>1, <1>2, Facts DEF Shape
<1>5. Backups'
  BY <1>1, <1>2, <1>3, Facts DEF Backups, Last
<1>6. AtWork'
  <2>1. backup.patch # <<>> => \E n \in Names, v \in States : backup.patch = <<n, v>> /\ HasInc(incs', n, LastDate)
    BY <1>1, <1>2, Facts DEF AtWork, HasInc, Last
  <2> QED BY <1>1, <1>2, <1>3, <2>1, Facts DEF AtWork, BackupFields
<1>7. ASSUME NEW n \in Names, NEW d \in Dates, d >= date
      PROVE  /\ OnDisk(n, d) => OnDisk(n, d)'
             /\ HasInc(incs, n, d) => HasInc(incs', n, d)
  BY <1>1, <1>2, <1>7, Facts DEF OnDisk, HasInc
<1>8. Restorable'
  <2>1. \A d \in DOMAIN history' : d \in DOMAIN history /\ d \in Dates /\ d >= date
    BY <1>2, Facts DEF Backups
  <2>2. ASSUME NEW n \in Names, NEW d \in DOMAIN history', \E i \in incs : i.name = n /\ d <= i.date /\ i.date < LastDate
        PROVE  \E i \in incs' : i.name = n /\ d <= i.date /\ i.date < LastDate
    BY <1>2, <2>1, <2>2, Facts
  <2>3. ASSUME NEW n \in Names, NEW d \in DOMAIN history', history'[d][n] # absent, Whole(n)
        PROVE  /\ OnDisk(n, d)'
               /\ history'[LastDate][n] # absent \/ \E i \in incs' : i.name = n /\ d <= i.date /\ i.date < LastDate
    <3>1. /\ history[d][n] # absent /\ d \in DOMAIN history /\ d \in Dates /\ d >= date
      BY <1>2, <2>1, <2>3
    <3>2. OnDisk(n, d) /\ (history[LastDate][n] # absent
                            \/ \E i \in incs : i.name = n /\ d <= i.date /\ i.date < LastDate)
      BY <2>3, <3>1, Facts DEF Restorable
    <3>3. OnDisk(n, d)'
      BY <1>7, <3>1, <3>2
    <3>4. history'[LastDate] = history[LastDate]
      BY <1>2, <1>3
    <3> QED BY <2>2, <3>2, <3>3, <3>4
  <2> QED BY <1>1, <1>3, <2>3 DEF Restorable, Whole
<1>9. Requests'
  <2>1. Disturb(Kept(history'))
    BY DEF RemoveOlder
  <2>2. \A n \in Names, d \in Dates : <<n, d>> \in Kept(history') => d >= date
    BY <1>2 DEF Kept
  <2> QED BY <1>3, <1>7, <2>1, <2>2, Facts, Disturbed
<1> QED BY <1>4, <1>5, <1>6, <1>8, <1>9 DEF IInv

-----------------------------------------------------------------------------
(***************************************************************************)
(* Deletions                                                               *)
(***************************************************************************)
\* Steps of a job that touch no file.
Idle(n) == ScheduleDelete(n) \/ DeleteRefused(n) \/ StartDelete(n) \/ TellEnd(n)
\* Steps of the process.
Work(n) == DeleteMirror(n) \/ DeleteIncrement(n) \/ DeleteExits(n) \/ DeleteFails(n)

LEMMA IdleFacts ==
    ASSUME IInv, NEW n \in Names, Idle(n)
    PROVE  /\ UNCHANGED <<mirror, incs, markers, backup, history, damaged>> /\ LastDate' = LastDate
           /\ job' \in [Names -> {"none", "scheduled", "deleting", "exited", "broken", "done"}]
           /\ asked' \in [Names -> Dates \cup {0}]
           /\ \A m \in Names \ {n} : job'[m] = job[m] /\ asked'[m] = asked[m]
           /\ job[n] # "deleting"
           /\ job'[n] = "deleting" => backup.pc = "none"
           /\ job'[n] # "exited"
           /\ UNCHANGED req \/ Disturb(Of(Names \ {n}))
           /\ job'[n] = "deleting" => Disturb(Of(Names \ {n}))
<1>1. CASE ScheduleDelete(n)
  BY <1>1, Facts DEF ScheduleDelete, Shape, disk, LastDate
<1>2. CASE DeleteRefused(n)
  BY <1>2, Facts DEF DeleteRefused, Shape, disk, LastDate
<1>3. CASE StartDelete(n)
  BY <1>3, Facts DEF StartDelete, Shape, disk, LastDate
<1>4. CASE TellEnd(n)
  <2>1. \A outcome \in Outcomes(job[n]) : outcome \in {"done", "none"}
    BY DEF Outcomes
  <2> QED BY <1>4, <2>1, Facts DEF TellEnd, Shape, disk, LastDate
<1> QED BY <1>1, <1>2, <1>3, <1>4 DEF Idle

LEMMA IdleStep ==
    ASSUME IInv, NEW n \in Names, Idle(n)
    PROVE  IInv'
<1>1. /\ UNCHANGED <<mirror, incs, markers, backup, history, damaged>> /\ LastDate' = LastDate
      /\ job' \in [Names -> {"none", "scheduled", "deleting", "exited", "broken", "done"}]
      /\ asked' \in [Names -> Dates \cup {0}]
      /\ \A m \in Names \ {n} : job'[m] = job[m]
      /\ job[n] # "deleting" /\ (job'[n] = "deleting" => backup.pc = "none")
  BY IdleFacts
<1>2. Shape' /\ Backups'
  BY <1>1, Facts DEF Shape, Backups, Last
<1>3. AtWork'
  <2>1. backup.pc # "none" => \A m \in Names : job'[m] # "deleting"
    BY <1>1, Facts DEF AtWork, Unlocked
  <2> QED BY <1>1, <2>1, Facts DEF AtWork, Unlocked, BackupFields
<1>4. Restorable'
  BY <1>1, Facts DEF Restorable, Whole, OnDisk
<1>5. Requests'
  <2>1. CASE UNCHANGED req
    BY <1>1, <2>1, Facts DEF Requests, Knows, RequestFields, OnDisk, Entries
  <2>2. CASE Disturb(Of(Names \ {n}))
    BY <1>1, <2>2, Facts, Disturbed DEF OnDisk
  <2> QED BY <2>1, <2>2, IdleFacts
<1> QED BY <1>2, <1>3, <1>4, <1>5 DEF IInv

\* What the process does concerns its entry, until it exits nobody looks for it.
LEMMA WorkFacts ==
    ASSUME IInv, NEW n \in Names, Work(n)
    PROVE  /\ UNCHANGED <<markers, backup, asked>> /\ backup.pc = "none" /\ job[n] = "deleting"
           /\ Disturb(Of(Names \ {n}))
           /\ job' \in [Names -> {"none", "scheduled", "deleting", "exited", "broken", "done"}]
           /\ \A m \in Names \ {n} : job'[m] = job[m]
           /\ damaged' \subseteq Names /\ \A m \in Names \ {n} : m \in damaged' <=> m \in damaged
           /\ mirror' \in [Names -> States] /\ \A m \in Names \ {n} : mirror'[m] = mirror[m]
           /\ incs' \subseteq incs /\ \A i \in incs : i.name # n => i \in incs'
           /\ DOMAIN history' = DOMAIN history /\ LastDate' = LastDate
           /\ \A d \in DOMAIN history : history'[d] \in [Names -> States]
           /\ \A d \in DOMAIN history : \A m \in Names \ {n} : history'[d][m] = history[d][m]
           /\ \/ job'[n] = "deleting"
              \/ job'[n] = "broken" /\ n \in damaged'
              \/ /\ job'[n] = "exited" /\ n \notin damaged' /\ mirror'[n] = absent
                 /\ \A i \in incs' : i.name # n
                 /\ \A d \in DOMAIN history : history'[d][n] = absent
<1>1. \A d \in DOMAIN history : history[d] \in [Names -> States]
  BY Facts DEF Backups
<1>2. job[n] = "deleting" /\ Disturb(Of(Names \ {n})) /\ UNCHANGED <<markers, backup, asked>>
  BY DEF Work, DeleteMirror, DeleteIncrement, DeleteExits, DeleteFails, disk, deletion
<1>3. backup.pc = "none"
  BY <1>2, Facts DEF AtWork, Unlocked
<1>4. CASE DeleteMirror(n)
  <2>1. absent \in States
    BY DEF States
  <2> QED BY <1>1, <1>2, <1>3, <1>4, <2>1, Facts DEF DeleteMirror, deletion, Shape, LastDate
<1>5. CASE DeleteIncrement(n)
  BY <1>1, <1>2, <1>3, <1>5, Facts DEF DeleteIncrement, deletion, Shape, LastDate
<1>6. CASE DeleteExits(n)
  <2>1. history' = [d \in DOMAIN history |-> [history[d] EXCEPT ![n] = absent]]
    BY <1>6 DEF DeleteExits
  <2>2. DOMAIN history' = DOMAIN history
    BY <2>1
  <2>3. LastDate' = LastDate
    BY <2>2 DEF LastDate
  <2>4. /\ \A d \in DOMAIN history : history'[d] \in [Names -> States]
        /\ \A d \in DOMAIN history : \A m \in Names \ {n} : history'[d][m] = history[d][m]
        /\ \A d \in DOMAIN history : history'[d][n] = absent
    BY <1>1, <2>1 DEF States
  <2>5. /\ mirror' = mirror /\ incs' = incs /\ job' = [job EXCEPT ![n] = "exited"]
        /\ damaged' = damaged \ {n} /\ mirror[n] = absent /\ \A i \in incs : i.name # n
    BY <1>6 DEF DeleteExits, Exists, disk
  <2> QED BY <1>2, <1>3, <2>2, <2>3, <2>4, <2>5, Facts DEF Shape
<1>7. CASE DeleteFails(n)
  <2>1. history' = [history EXCEPT ![LastDate][n] = mirror[n]]
    BY <1>7 DEF DeleteFails
  <2>2. DOMAIN history' = DOMAIN history
    BY <2>1
  <2>3. LastDate' = LastDate
    BY <2>2 DEF LastDate
  <2>4. /\ \A d \in DOMAIN history : history'[d] \in [Names -> States]
        /\ \A d \in DOMAIN history : \A m \in Names \ {n} : history'[d][m] = history[d][m]
    BY <1>1, <2>1, Facts DEF Shape
  <2>5. /\ mirror' = mirror /\ incs' = incs /\ job' = [job EXCEPT ![n] = "broken"]
        /\ damaged' = damaged \cup {n}
    BY <1>7 DEF DeleteFails, disk
  <2> QED BY <1>2, <1>3, <2>2, <2>3, <2>4, <2>5, Facts DEF Shape
<1> QED BY <1>4, <1>5, <1>6, <1>7 DEF Work

LEMMA WorkStep ==
    ASSUME IInv, NEW n \in Names, Work(n)
    PROVE  IInv'
<1>1. UNCHANGED <<markers, backup, asked>> /\ backup.pc = "none" /\ job[n] = "deleting"
  BY WorkFacts
<1>2. /\ job' \in [Names -> {"none", "scheduled", "deleting", "exited", "broken", "done"}]
      /\ \A m \in Names \ {n} : job'[m] = job[m]
      /\ damaged' \subseteq Names /\ \A m \in Names \ {n} : m \in damaged' <=> m \in damaged
  BY WorkFacts
<1>3. /\ mirror' \in [Names -> States] /\ \A m \in Names \ {n} : mirror'[m] = mirror[m]
      /\ incs' \subseteq incs /\ \A i \in incs : i.name # n => i \in incs'
  BY WorkFacts
<1>4. /\ DOMAIN history' = DOMAIN history /\ LastDate' = LastDate
      /\ \A d \in DOMAIN history : history'[d] \in [Names -> States]
      /\ \A d \in DOMAIN history : \A m \in Names \ {n} : history'[d][m] = history[d][m]
      /\ ~Whole(n)' \/ \A d \in DOMAIN history : history'[d][n] = absent
  <2>1. ~Whole(n)' \/ \A d \in DOMAIN history : history'[d][n] = absent
    BY WorkFacts DEF Whole
  <2> QED BY <2>1, WorkFacts
<1>5. Shape'
  BY <1>1, <1>2, <1>3, Facts DEF Shape
<1>6. Backups'
  BY <1>1, <1>4, Facts DEF Backups, Last
<1>7. AtWork'
  BY <1>1, <1>3, <1>4, Facts DEF AtWork, BackupFields
<1>8. ASSUME NEW m \in Names \ {n}, NEW d \in Dates
      PROVE  /\ OnDisk(m, d) => OnDisk(m, d)'
             /\ HasInc(incs, m, d) => HasInc(incs', m, d)
  BY <1>3 DEF OnDisk, HasInc
<1>9. Restorable'
  <2> SUFFICES ASSUME NEW m \in Names, NEW d \in DOMAIN history, history'[d][m] # absent, Whole(m)'
               PROVE  /\ OnDisk(m, d)'
                      /\ history'[LastDate][m] # absent \/ \E i \in incs' : i.name = m /\ d <= i.date /\ i.date < LastDate
    BY <1>4 DEF Restorable
  <2>1. m # n /\ d \in Dates /\ LastDate \in DOMAIN history
    BY <1>4, Facts DEF Backups, Last
  <2>2. history[d][m] # absent /\ Whole(m) /\ history'[LastDate][m] = history[LastDate][m]
    BY <1>2, <1>4, <2>1 DEF Whole
  <2>3. OnDisk(m, d) /\ (history[LastDate][m] # absent
                          \/ \E i \in incs : i.name = m /\ d <= i.date /\ i.date < LastDate)
    BY <2>2, Facts DEF Restorable
  <2>4. OnDisk(m, d)'
    BY <1>8, <2>1, <2>3
  <2> QED BY <1>3, <2>1, <2>2, <2>3, <2>4
<1>10. Requests'
  <2> DEFINE kept == Of(Names \ {n})
  <2>1. Disturb(kept)
    BY WorkFacts
  <2>2. \A m \in Names, d \in Dates : (<<m, d>> \in kept /\ d <= LastDate) =>
           /\ OnDisk(m, d) => OnDisk(m, d)'
           /\ HasInc(incs, m, d) => HasInc(incs', m, d)
    BY <1>8 DEF Of
  <2>3. Requests /\ LastDate \in Nat /\ LastDate' \in Nat /\ LastDate <= LastDate'
    BY <1>4, Facts
  <2> HIDE DEF kept
  <2> QED BY <2>1, <2>2, <2>3, Disturbed
<1> QED BY <1>5, <1>6, <1>7, <1>9, <1>10 DEF IInv

LEMMA DeleteIs ==
    ASSUME NEW n \in Names, ScheduleDelete(n) \/ Delete(n)
    PROVE  Idle(n) \/ Work(n)
BY DEF Delete, Idle, Work

LEMMA DeleteStep ==
    ASSUME IInv, NEW n \in Names, ScheduleDelete(n) \/ Delete(n)
    PROVE  IInv'
BY DeleteIs, IdleStep, WorkStep

LEMMA InvStep == ASSUME IInv, [Next]_vars PROVE IInv'
<1>1. CASE UNCHANGED vars
  BY <1>1 DEF vars, disk, IInv, Shape, Backups, AtWork, BackupFields, Unlocked, Restorable, Whole, OnDisk, Last,
             LastDate, Requests, Knows, RequestFields, Entries
<1>2. CASE Next
  BY <1>2, ThreadStep, StartStep, WriteStep, PatchStep, FinishStep, InterruptStep, RegressStep,
     RemoveStep, DeleteStep
     DEF Next
<1> QED BY <1>1, <1>2

LEMMA Invariant == Spec => []IInv
<1>1. Init => IInv
  BY InvInit
<1>2. IInv /\ [Next]_vars => IInv'
  BY InvStep
<1> QED BY <1>1, <1>2, PTL DEF Spec

-----------------------------------------------------------------------------
(***************************************************************************)
(* Which version is where                                                  *)
(***************************************************************************)
\* Increments tell the truth about the backup of their date, a change between two
\* backups has left one, and the directory is the last backup unless one says more.
Exact(n) ==
    /\ \A i \in incs : i.name = n =>
         i.date \in DOMAIN history /\ (i.missing <=> history[i.date][n] = absent)
    /\ \A d, e \in DOMAIN history : d < e /\ history[d][n] # history[e][n] =>
         \E i \in incs : i.name = n /\ d <= i.date /\ i.date < e
    /\ (\A i \in incs : ~(i.name = n /\ i.date = LastDate)) => mirror[n] = history[LastDate][n]

Versioned == \A n \in Names : Whole(n) => Exact(n)

\* A page nobody disturbed has seen what is still there.
Dated == {<<"status", "mirror", "increments">>, <<"mirror", "increments">>, <<"increments">>, <<>>}

IsTrue(r) ==
    r.quiet =>
        /\ Quiet /\ ~r.failed
        /\ r.todo \in Dated => r.marks = markers
        /\ r.todo \in Half \cup Seen => r.exists = Existing(r.names)
        /\ r.todo \in Seen => r.incs = Listed(r.names)

Pages == \A t \in Threads : IsTrue(req[t])

EInv == IInv /\ Versioned /\ Pages

\* The date of the last backup after a step that changes the history.
LEMMA FinishDate == ASSUME IInv, FinishBackup PROVE LastDate' = LastDate + 1
<1>1. DOMAIN history' = DOMAIN history \cup {LastDate + 1}
  BY DEF FinishBackup
<1>2. DOMAIN history' \in SUBSET Int /\ \A d \in DOMAIN history' : d <= LastDate + 1
  BY <1>1, Facts, Bound DEF Last, Backups
<1> QED BY <1>1, <1>2, MaxIs DEF LastDate

LEMMA RemoveDate == ASSUME IInv, NEW date \in Dates, RemoveOlder(date) PROVE LastDate' = LastDate
<1>1. date \in DOMAIN history /\ DOMAIN history' = {e \in DOMAIN history : e >= date}
  BY DEF RemoveOlder
<1>2. LastDate \in DOMAIN history' /\ \A d \in DOMAIN history' : d <= LastDate
  BY <1>1, Facts DEF Last
<1>3. DOMAIN history' \in SUBSET Int
  BY <1>1, Facts, Bound DEF Backups
<1> QED BY <1>2, <1>3, MaxIs DEF LastDate

LEMMA StartVersioned == ASSUME EInv, StartBackup PROVE Versioned'
<1>1. UNCHANGED <<mirror, incs, history, job, damaged>> /\ LastDate' = LastDate
  BY DEF StartBackup, deletion, LastDate
<1> QED BY <1>1 DEF EInv, Versioned, Whole, Exact

LEMMA InterruptVersioned == ASSUME EInv, Interrupt PROVE Versioned'
<1>1. UNCHANGED <<mirror, incs, history, job, damaged>> /\ LastDate' = LastDate
  BY DEF Interrupt, disk, deletion, LastDate
<1> QED BY <1>1 DEF EInv, Versioned, Whole, Exact

LEMMA WriteVersioned ==
    ASSUME EInv, NEW n \in Names, NEW v \in States, WriteIncrement(n, v)
    PROVE  Versioned'
<1> DEFINE new == [name |-> n, date |-> LastDate, missing |-> mirror[n] = absent]
<1>1. /\ UNCHANGED <<mirror, history, job, damaged>> /\ LastDate' = LastDate
      /\ incs' = incs \cup {new} /\ backup.pc = "run" /\ n \in backup.todo
  BY DEF WriteIncrement, deletion, LastDate
<1>2. new.name = n /\ new.date = LastDate /\ (new.missing <=> mirror[n] = absent)
  OBVIOUS
<1> HIDE DEF new
<1>3. ASSUME Whole(n) PROVE Exact(n)'
  <2>1. Exact(n)
    BY <1>3 DEF EInv, Versioned
  <2>2. mirror[n] = history[LastDate][n] /\ LastDate \in DOMAIN history
    BY <1>1, <2>1, Facts DEF EInv, AtWork, Exact, Last
  <2> QED BY <1>1, <1>2, <2>1, <2>2 DEF Exact
<1>4. ASSUME NEW m \in Names \ {n}, Whole(m) PROVE Exact(m)'
  <2>1. Exact(m)
    BY <1>4 DEF EInv, Versioned
  <2> QED BY <1>1, <1>2, <2>1, <1>4 DEF Exact
<1> QED BY <1>1, <1>3, <1>4 DEF Versioned, Whole

LEMMA PatchVersioned == ASSUME EInv, PatchMirror PROVE Versioned'
<1>1. UNCHANGED <<incs, history, job, damaged>> /\ LastDate' = LastDate
  BY DEF PatchMirror, deletion, LastDate
<1>2. PICK n \in Names, v \in States : backup.patch = <<n, v>> /\ HasInc(incs, n, LastDate)
  BY Facts DEF EInv, PatchMirror, AtWork
<1>3. \A m \in Names \ {n} : mirror'[m] = mirror[m]
  BY <1>2, Facts DEF EInv, PatchMirror, Shape
<1>4. \E i \in incs : i.name = n /\ i.date = LastDate
  <2>1. PICK i \in incs : i.name = n /\ LastDate <= i.date
    BY <1>2 DEF HasInc
  <2>2. i.date <= LastDate /\ i.date \in Nat /\ LastDate \in Nat
    BY Facts DEF EInv, AtWork
  <2> QED BY <2>1, <2>2
<1> QED BY <1>1, <1>3, <1>4 DEF EInv, Versioned, Whole, Exact

LEMMA FinishVersioned == ASSUME EInv, FinishBackup PROVE Versioned'
<1>1. UNCHANGED <<mirror, incs, job, damaged>> /\ backup.pc = "run"
  BY DEF FinishBackup, deletion
<1>2. /\ Shape /\ Backups /\ AtWork /\ Last(LastDate) /\ LastDate \in Nat
      /\ \A i \in incs : i.date \in Nat /\ i.date <= LastDate
  BY Facts DEF EInv, AtWork
<1>3. /\ DOMAIN history' = DOMAIN history \cup {LastDate + 1}
      /\ \A d \in DOMAIN history : history'[d] = history[d] /\ d \in Nat /\ d <= LastDate
      /\ history'[LastDate + 1] = mirror
  <2>1. \A d \in DOMAIN history : d \in Nat /\ d <= LastDate
    BY <1>2, Bound DEF Backups, Last
  <2>2. LastDate + 1 \notin DOMAIN history
    BY <1>2, <2>1
  <2> QED BY <2>1, <2>2 DEF FinishBackup
<1>4. LastDate' = LastDate + 1
  <2>1. DOMAIN history' \in SUBSET Int /\ \A d \in DOMAIN history' : d <= LastDate + 1
    BY <1>2, <1>3
  <2>2. Max(DOMAIN history') = LastDate + 1
    BY <1>3, <2>1, MaxIs
  <2> QED BY <2>2 DEF LastDate
<1>5. SUFFICES ASSUME NEW n \in Names, Whole(n) PROVE Exact(n)'
  BY <1>1 DEF Versioned, Whole
<1>6. Exact(n)
  BY <1>5 DEF EInv, Versioned
<1>7. ASSUME NEW i \in incs, i.name = n
      PROVE  i.date \in DOMAIN history' /\ (i.missing <=> history'[i.date][n] = absent)
  BY <1>3, <1>6, <1>7 DEF Exact
<1>8. ASSUME NEW d \in DOMAIN history, history[d][n] # mirror[n]
      PROVE  \E i \in incs : i.name = n /\ d <= i.date /\ i.date < LastDate + 1
  <2>1. CASE \E i \in incs : i.name = n /\ i.date = LastDate
    BY <1>2, <1>3, <2>1
  <2>2. CASE \A i \in incs : ~(i.name = n /\ i.date = LastDate)
    <3>1. history[d][n] # history[LastDate][n] /\ LastDate \in DOMAIN history
      BY <1>2, <1>6, <1>8, <2>2 DEF Exact, Last
    <3>2. d < LastDate
      BY <1>2, <1>3, <3>1
    <3>3. \E i \in incs : i.name = n /\ d <= i.date /\ i.date < LastDate
      BY <1>6, <3>1, <3>2 DEF Exact
    <3> QED BY <1>2, <3>3
  <2> QED BY <2>1, <2>2
<1>9. ASSUME NEW d \in DOMAIN history', NEW e \in DOMAIN history', d < e,
             history'[d][n] # history'[e][n]
      PROVE  \E i \in incs : i.name = n /\ d <= i.date /\ i.date < e
  <2>1. d \in DOMAIN history
    BY <1>2, <1>3, <1>9
  <2>2. CASE e \in DOMAIN history
    BY <1>3, <1>6, <1>9, <2>1, <2>2 DEF Exact
  <2>3. CASE e = LastDate + 1
    BY <1>3, <1>8, <1>9, <2>1, <2>3
  <2> QED BY <1>3, <2>2, <2>3
<1> QED BY <1>1, <1>3, <1>4, <1>7, <1>9 DEF Exact

LEMMA RegressVersioned == ASSUME EInv, Regress PROVE Versioned'
<1>1. /\ UNCHANGED <<history, job, damaged>> /\ LastDate' = LastDate
      /\ mirror' = history[LastDate] /\ incs' = {i \in incs : i.date < LastDate}
  BY DEF Regress, deletion, LastDate
<1>2. /\ LastDate \in Nat /\ Last(LastDate) /\ \A d \in DOMAIN history : d \in Nat
      /\ \A i \in incs : i.date \in Nat
  BY Facts, Bound DEF EInv, Backups
<1>3. SUFFICES ASSUME NEW n \in Names, Exact(n) PROVE Exact(n)'
  BY <1>1 DEF EInv, Versioned, Whole
<1> QED BY <1>1, <1>2, <1>3 DEF Exact, Last

LEMMA RemoveVersioned == ASSUME EInv, NEW date \in Dates, RemoveOlder(date) PROVE Versioned'
<1>1. UNCHANGED <<mirror, job, damaged>> /\ date \in DOMAIN history /\ backup.pc = "none"
  BY DEF RemoveOlder, deletion
<1>2. /\ incs' = {i \in incs : i.date >= date}
      /\ DOMAIN history' = {e \in DOMAIN history : e >= date}
      /\ \A d \in DOMAIN history' : history'[d] = history[d]
  BY DEF RemoveOlder
<1>3. /\ LastDate \in Nat /\ Last(LastDate) /\ \A d \in DOMAIN history : d \in Nat
      /\ \A i \in incs : i.date \in Nat /\ i.date # LastDate
  BY <1>1, Facts, Bound DEF EInv, Backups, AtWork
<1>4. LastDate' = LastDate /\ LastDate \in DOMAIN history'
  <2>1. LastDate \in DOMAIN history' /\ \A d \in DOMAIN history' : d <= LastDate
    BY <1>1, <1>2, <1>3 DEF Last
  <2>2. DOMAIN history' \in SUBSET Int
    BY <1>2, <1>3
  <2>3. Max(DOMAIN history') = LastDate
    BY <2>1, <2>2, MaxIs
  <2> QED BY <2>1, <2>3 DEF LastDate
<1>5. SUFFICES ASSUME NEW n \in Names, Exact(n) PROVE Exact(n)'
  BY <1>1 DEF EInv, Versioned, Whole
<1>6. ASSUME NEW d \in DOMAIN history', NEW e \in DOMAIN history', d < e,
             history'[d][n] # history'[e][n]
      PROVE  \E i \in incs' : i.name = n /\ d <= i.date /\ i.date < e
  <2>1. /\ d \in DOMAIN history /\ e \in DOMAIN history /\ d >= date
        /\ history[d][n] # history[e][n]
    BY <1>2, <1>6
  <2>2. PICK i \in incs : i.name = n /\ d <= i.date /\ i.date < e
    BY <1>5, <1>6, <2>1 DEF Exact
  <2>3. i \in incs'
    BY <1>1, <1>2, <1>3, <2>1, <2>2
  <2> QED BY <2>2, <2>3
<1>7. \A i \in incs' : i.name = n =>
        i.date \in DOMAIN history' /\ (i.missing <=> history'[i.date][n] = absent)
  BY <1>2, <1>5 DEF Exact
<1>8. mirror'[n] = history'[LastDate][n]
  BY <1>1, <1>2, <1>3, <1>4, <1>5 DEF Exact
<1> QED BY <1>4, <1>6, <1>7, <1>8 DEF Exact

\* A deletion under way may leave anything of its entry, one that is over nothing.
LEMMA DeleteVersioned ==
    ASSUME EInv, NEW n \in Names, Idle(n) \/ Work(n)
    PROVE  Versioned'
<1>1. CASE Idle(n)
  <2>1. /\ UNCHANGED <<mirror, incs, history, damaged>> /\ LastDate' = LastDate
        /\ \A m \in Names : Whole(m)' => Whole(m)
    BY <1>1, IdleFacts DEF EInv, Whole
  <2> QED BY <2>1 DEF EInv, Versioned, Exact
<1>2. CASE Work(n)
  <2>1. /\ \A m \in Names \ {n} : mirror'[m] = mirror[m] /\ (Whole(m)' => Whole(m))
        /\ incs' \subseteq incs /\ \A i \in incs : i.name # n => i \in incs'
        /\ DOMAIN history' = DOMAIN history /\ LastDate' = LastDate /\ Last(LastDate)
        /\ \A d \in DOMAIN history : \A m \in Names \ {n} : history'[d][m] = history[d][m]
    <3>1. IInv /\ Last(LastDate)
      BY Facts DEF EInv
    <3>2. \A m \in Names \ {n} : job'[m] = job[m]
      BY <1>2, <3>1, WorkFacts
    <3>7. \A m \in Names \ {n} : m \in damaged' <=> m \in damaged
      BY <1>2, <3>1, WorkFacts
    <3>3. /\ \A m \in Names \ {n} : mirror'[m] = mirror[m]
          /\ incs' \subseteq incs /\ \A i \in incs : i.name # n => i \in incs'
      BY <1>2, <3>1, WorkFacts
    <3>4. /\ DOMAIN history' = DOMAIN history /\ LastDate' = LastDate
          /\ \A d \in DOMAIN history : \A m \in Names \ {n} : history'[d][m] = history[d][m]
      BY <1>2, <3>1, WorkFacts
    <3> QED BY <3>1, <3>2, <3>3, <3>4, <3>7 DEF Whole
  <2>2. \/ ~Whole(n)'
        \/ /\ mirror'[n] = absent /\ \A i \in incs' : i.name # n
           /\ \A d \in DOMAIN history : history'[d][n] = absent
    BY <1>2, WorkFacts DEF EInv, Whole
  <2>3. Whole(n)' => Exact(n)'
    BY <2>1, <2>2 DEF Exact, Last
  <2>4. ASSUME NEW m \in Names \ {n}, Exact(m) PROVE Exact(m)'
    BY <2>1, <2>4 DEF Exact, Last
  <2> QED BY <2>1, <2>3, <2>4 DEF EInv, Versioned
<1> QED BY <1>1, <1>2

\* Whoever writes to the disk ends the quiet of every page.
LEMMA DisturbedPages == ASSUME NEW kept, Disturb(kept), Requests PROVE Pages'
<1>1. ASSUME NEW t \in Threads PROVE req'[t].quiet = FALSE
  <2>1. req'[t] = [req[t] EXCEPT !.quiet = FALSE, !.had = @ \cap kept]
    BY DEF Disturb
  <2>2. RequestFields(req[t])
    BY DEF Requests, Knows
  <2> QED BY <2>1, <2>2 DEF RequestFields
<1> QED BY <1>1 DEF Pages, IsTrue

LEMMA QuietDisk ==
    ASSUME Pages, UNCHANGED <<disk, history, req>>, Quiet => Quiet'
    PROVE  Pages'
BY DEF Pages, IsTrue, Existing, Listed, disk

\* What a page that begins, looks or is answered has seen.
LEMMA PageStep ==
    ASSUME EInv, NEW t \in Threads,
           Browse(t) \/ (\E n \in Names : History(t, n)) \/ Look(t) \/ Answer(t)
    PROVE  Versioned' /\ Pages'
<1>1. /\ UNCHANGED <<mirror, incs, markers, backup, history, job, damaged>> /\ LastDate' = LastDate
      /\ Quiet' = Quiet
  BY DEF Browse, History, Begin, Look, Answer, disk, deletion, LastDate, Quiet
<1>2. Versioned'
  BY <1>1 DEF EInv, Versioned, Whole, Exact
<1>3. Requests /\ Knows(req[t]) /\ IsTrue(req[t]) /\ RequestFields(req[t])
  BY DEF EInv, IInv, Requests, Pages, Knows
<1>4. \A u \in Threads \ {t} : req'[u] = req[u]
  BY <1>3 DEF Browse, History, Begin, Look, Answer, Requests
<1>5. \A u \in Threads \ {t} : IsTrue(req[u])'
  BY <1>1, <1>4 DEF EInv, Pages, IsTrue, Existing, Listed
<1>6. SUFFICES IsTrue(req[t])'
  BY <1>2, <1>5 DEF Pages
<1>7. CASE Browse(t) \/ \E n \in Names : History(t, n)
  <2>1. PICK op \in {"browse", "history"}, names \in SUBSET Names : Begin(t, op, names)
    BY <1>7 DEF Browse, History
  <2>2. req'[t].todo = Looks(op) /\ (req'[t].quiet <=> Quiet) /\ req'[t].failed = FALSE
    BY <1>3, <2>1 DEF Begin, NoReq, Requests
  <2>3. Looks(op) \notin Half \cup Seen \cup Dated
    BY DEF Looks, Half, Seen, Dated
  <2> QED BY <1>1, <2>2, <2>3 DEF IsTrue
<1>8. CASE Answer(t)
  <2>1. req'[t] = NoReq
    BY <1>3, <1>8 DEF Answer, Requests
  <2>2. NoReq.quiet = FALSE
    BY DEF NoReq
  <2> QED BY <2>1, <2>2 DEF IsTrue
<1>9. CASE Look(t)
  <2>1. req'[t] = Looked(req[t]) /\ req[t].todo # <<>>
    BY <1>3, <1>9 DEF Look, Requests
  <2> DEFINE r == req[t]
             n == req'[t]
  <2>2. SUFFICES ASSUME n.quiet PROVE IsTrue(req[t])'
    BY DEF IsTrue
  <2>10. r.quiet /\ n.names = r.names
    BY <1>3, <2>1, <2>2 DEF Looked, RequestFields
  <2>4. Quiet /\ r.quiet /\ ~r.failed
    BY <1>3, <2>10 DEF IsTrue
  <2>5. Head(r.todo) = "status" => r.marks = markers
    <3>1. ASSUME NEW q \in (Unseen \cup Half \cup Seen) \ {<<>>}, Head(q) = "status"
          PROVE  q \in Dated
      <4>1. q = <<"status", "mirror", "increments">>
        BY <3>1 DEF Unseen, Half, Seen
      <4> QED BY <4>1 DEF Dated
    <3> QED BY <1>3, <2>1, <2>4, <3>1 DEF Knows, IsTrue
  <2>3. /\ n.todo = Tail(r.todo) /\ ~n.failed
        /\ n.marks = IF Head(r.todo) = "markers" THEN markers ELSE r.marks
        /\ n.exists = IF Head(r.todo) = "mirror" THEN Existing(r.names) ELSE r.exists
        /\ n.incs = IF Head(r.todo) \notin {"markers", "status", "mirror"} THEN Listed(r.names) ELSE r.incs
    BY <1>3, <2>1, <2>4, <2>5 DEF Looked, RequestFields
  <2>6. /\ Tail(r.todo) \in Dated => Head(r.todo) = "markers" \/ r.todo \in Dated
        /\ Tail(r.todo) \in Half \cup Seen => Head(r.todo) = "mirror" \/ r.todo \in Half \cup Seen
        /\ Tail(r.todo) \in Seen => Head(r.todo) \notin {"markers", "status", "mirror"} \/ r.todo \in Seen
    <3>1. r.todo \in (Unseen \cup Half \cup Seen) \ {<<>>}
      BY <1>3, <2>1 DEF Knows
    <3>2. ASSUME NEW q \in (Unseen \cup Half \cup Seen) \ {<<>>}
          PROVE  /\ Tail(q) \in Dated => Head(q) = "markers" \/ q \in Dated
                 /\ Tail(q) \in Half \cup Seen => Head(q) = "mirror" \/ q \in Half \cup Seen
                 /\ Tail(q) \in Seen => Head(q) \notin {"markers", "status", "mirror"} \/ q \in Seen
      <4>1. CASE q = <<"markers", "status", "mirror", "increments">>
        <5>1. Head(q) = "markers" /\ Tail(q) = <<"status", "mirror", "increments">>
          BY <4>1
        <5> QED BY <5>1 DEF Half, Seen
      <4>7. CASE q = <<"status", "mirror", "increments">>
        <5>1. Head(q) = "status" /\ Tail(q) = <<"mirror", "increments">> /\ q \in Dated
          BY <4>7 DEF Dated
        <5> QED BY <5>1 DEF Half, Seen
      <4>2. CASE q = <<"mirror", "increments">>
        BY <4>2 DEF Dated, Seen
      <4>3. CASE q = <<"mirror", "increments", "markers">>
        BY <4>3 DEF Dated, Seen
      <4>4. CASE q = <<"increments">>
        BY <4>4 DEF Half, Dated
      <4>6. CASE q = <<"increments", "markers">>
        <5>1. Tail(q) = <<"markers">> /\ Head(q) = "increments" /\ q \in Half
          BY <4>6 DEF Half
        <5> QED BY <5>1 DEF Dated
      <4>5. CASE q = <<"markers">>
        BY <4>5 DEF Seen
      <4> QED BY <3>2, <4>1, <4>2, <4>3, <4>4, <4>5, <4>6, <4>7 DEF Unseen, Half, Seen
    <3> QED BY <3>1, <3>2
  <2>7. /\ r.todo \in Dated => r.marks = markers
        /\ r.todo \in Half \cup Seen => r.exists = Existing(r.names)
        /\ r.todo \in Seen => r.incs = Listed(r.names)
    BY <1>3, <2>4 DEF IsTrue
  <2>8. /\ n.todo \in Dated => n.marks = markers
        /\ n.todo \in Half \cup Seen => n.exists = Existing(r.names)
        /\ n.todo \in Seen => n.incs = Listed(r.names)
    BY <2>3, <2>6, <2>7
  <2>9. /\ Existing(r.names) = {m \in n.names : mirror'[m] # absent}
        /\ Listed(r.names) = {i \in incs' : i.name \in n.names}
    BY <1>1, <2>10 DEF Existing, Listed
  <2> QED BY <1>1, <2>3, <2>4, <2>8, <2>9, <2>10 DEF IsTrue, Existing, Listed
<1> QED BY <1>7, <1>8, <1>9

LEMMA ExactStep == ASSUME EInv, [Next]_vars PROVE EInv'
<1>1. IInv'
  BY InvStep DEF EInv
<1>2. Requests
  BY Facts DEF EInv
<1>3. CASE UNCHANGED vars
  BY <1>1, <1>3 DEF vars, disk, EInv, Versioned, Whole, Exact, Pages, IsTrue, Quiet, Existing, Listed, LastDate
<1>4. CASE \E t \in Threads : Browse(t) \/ (\E n \in Names : History(t, n)) \/ Look(t) \/ Answer(t)
  BY <1>1, <1>4, PageStep DEF EInv
<1>5. CASE StartBackup \/ PatchMirror \/ FinishBackup \/ Regress
  BY <1>1, <1>2, <1>5, StartVersioned, PatchVersioned, FinishVersioned, RegressVersioned,
     DisturbedPages DEF EInv, StartBackup, PatchMirror, FinishBackup, Regress
<1>6. CASE \E n \in Names, v \in States : WriteIncrement(n, v)
  BY <1>1, <1>2, <1>6, WriteVersioned, DisturbedPages DEF EInv, WriteIncrement
<1>7. CASE \E d \in Dates : RemoveOlder(d)
  BY <1>1, <1>2, <1>7, RemoveVersioned, DisturbedPages DEF EInv, RemoveOlder
<1>8. CASE \E n \in Names : ScheduleDelete(n) \/ Delete(n)
  <2>1. PICK n \in Names : Idle(n) \/ Work(n)
    BY <1>8, DeleteIs
  <2>2. Versioned'
    BY <2>1, DeleteVersioned
  <2>3. CASE Disturb(Of(Names \ {n}))
    BY <1>1, <1>2, <2>2, <2>3, DisturbedPages DEF EInv
  <2>4. CASE Idle(n) /\ UNCHANGED req /\ job'[n] # "deleting"
    <3>1. /\ UNCHANGED <<disk, history, req, backup>>
          /\ \A m \in Names : job[m] # "deleting" => job'[m] # "deleting"
      BY <2>4, IdleFacts DEF EInv, disk
    <3>2. Quiet => Quiet'
      BY <3>1 DEF Quiet
    <3>3. Pages'
      BY <3>1, <3>2, QuietDisk DEF EInv
    <3> QED BY <1>1, <2>2, <3>3 DEF EInv
  <2> QED BY <2>1, <2>3, <2>4, IdleFacts, WorkFacts DEF EInv
<1>9. CASE Interrupt
  <2>1. UNCHANGED <<disk, history, req>> /\ (Quiet => Quiet')
    BY <1>9 DEF Interrupt, Quiet, deletion
  <2>2. Pages'
    BY <2>1, QuietDisk DEF EInv
  <2> QED BY <1>1, <1>9, <2>2, InterruptVersioned DEF EInv
<1> QED BY <1>3, <1>4, <1>5, <1>6, <1>7, <1>8, <1>9 DEF Next

LEMMA ExactInit == ASSUME Init PROVE EInv
<1>1. DOMAIN history = {1} /\ history[1] = mirror /\ incs = {}
  BY DEF Init
<1>2. LastDate = 1
  BY <1>1, MaxIs DEF LastDate
<1>3. Versioned
  BY <1>1, <1>2 DEF Versioned, Exact
<1>4. Pages
  <2>1. NoReq.quiet = FALSE
    BY DEF NoReq
  <2> QED BY <2>1 DEF Init, Pages, IsTrue
<1> QED BY <1>3, <1>4, InvInit DEF EInv

LEMMA ExactInvariant == Spec => []EInv
<1>1. Init => EInv
  BY ExactInit
<1>2. EInv /\ [Next]_vars => EInv'
  BY ExactStep
<1> QED BY <1>1, <1>2, PTL DEF Spec

\* What an undisturbed page that was answered knows.
LEMMA QuietPage ==
    ASSUME EInv, NEW t \in Threads, Undisturbed(req[t])
    PROVE  /\ req[t].marks = markers /\ req[t].names \subseteq Names
           /\ req[t].exists = Existing(req[t].names) /\ req[t].incs = Listed(req[t].names)
           /\ \A n \in Names \ damaged : Exact(n)
           /\ ~Interrupted => /\ Max(req[t].marks) = LastDate
                              /\ \A n \in Names \ damaged : mirror[n] = history[LastDate][n]
           /\ Interrupted => Max(req[t].marks) = LastDate + 1
<1>1. req[t].todo = <<>> /\ req[t].quiet /\ IsTrue(req[t]) /\ Knows(req[t])
  BY DEF EInv, IInv, Requests, Pages, Undisturbed, Answered
<1>2. <<>> \in Dated /\ <<>> \in Seen
  BY DEF Dated, Seen
<1>3. Quiet /\ req[t].marks = markers
  BY <1>1, <1>2 DEF IsTrue
<1>4. \A n \in Names \ damaged : Exact(n)
  BY <1>3 DEF EInv, Versioned, Whole, Quiet
<1>5. LastDate \in Nat /\ Shape /\ Backups /\ AtWork
  BY Facts DEF EInv
<1>6. CASE ~Interrupted
  <2>1. backup.pc = "none"
    BY <1>3, <1>5, <1>6 DEF Shape, Quiet, Interrupted
  <2>2. markers = {LastDate} /\ \A i \in incs : i.date # LastDate
    BY <1>5, <2>1 DEF Backups, AtWork
  <2>3. Max(markers) = LastDate
    BY <1>5, <2>2, MaxIs
  <2> QED BY <1>1, <1>2, <1>3, <1>4, <1>6, <2>2, <2>3 DEF IsTrue, Knows, Exact
<1>7. CASE Interrupted
  <2>1. markers = {LastDate, LastDate + 1}
    BY <1>5, <1>7 DEF Backups, Interrupted
  <2>2. Max(markers) = LastDate + 1
    BY <1>5, <2>1, MaxIs
  <2> QED BY <1>1, <1>2, <1>3, <1>4, <1>7, <2>2 DEF IsTrue, Knows
<1> QED BY <1>6, <1>7

-----------------------------------------------------------------------------
(***************************************************************************)
(* What is left of an entry whose deletion has ended                       *)
(***************************************************************************)
\* Nothing of what a backup had when the deletion was asked for.
Erased(n) ==
    /\ \A d \in DOMAIN history : d <= asked[n] => history[d][n] = absent
    /\ \A i \in incs : i.name = n /\ ~i.missing => i.date > asked[n]
    /\ mirror[n] # absent => backup.pc # "none" \/ LastDate > asked[n]

Deleted ==
    /\ \A n \in Names : asked[n] <= LastDate
    /\ \A n \in Names : job[n] = "exited" => n \notin damaged /\ Erased(n)

DInv == EInv /\ Deleted

\* The step of DoneMeansGone.
DoneStep ==
    [\A n \in Names : job[n] # "done" /\ job'[n] = "done" =>
        /\ \A d \in DOMAIN history : d <= asked[n] => history[d][n] = absent
        /\ \A i \in incs : i.name = n /\ ~i.missing => i.date > asked[n]
        /\ mirror[n] # absent => backup.pc # "none" \/ LastDate > asked[n]]_vars

\* What every step below starts from.
LEMMA DFacts ==
    ASSUME DInv
    PROVE  /\ Shape /\ Backups /\ AtWork /\ Versioned
           /\ LastDate \in Nat /\ Last(LastDate)
           /\ \A d \in DOMAIN history : d \in Nat /\ d <= LastDate
           /\ \A i \in incs : i.date \in Nat /\ i.name \in Names
           /\ \A n \in Names : asked[n] \in Nat /\ asked[n] <= LastDate
           /\ \A n \in Names : job[n] = "exited" => Whole(n) /\ Exact(n) /\ Erased(n)
<1>1. IInv
  BY DEF DInv, EInv
<1>2. \A d \in DOMAIN history : d \in Nat /\ d <= LastDate
  BY <1>1, Facts DEF Backups, Last
<1>3. \A n \in Names : asked[n] \in Nat /\ asked[n] <= LastDate
  BY <1>1, Facts DEF Shape, DInv, Deleted
<1>4. \A n \in Names : job[n] = "exited" => Whole(n) /\ Exact(n) /\ Erased(n)
  BY DEF DInv, EInv, Deleted, Versioned, Whole
<1> QED BY <1>1, <1>2, <1>3, <1>4, Facts DEF DInv, EInv

\* A backup keeps what it finds as it was, and makes anew only what a backup since
\* the deletion had, until it is one itself.
LEMMA BackupDeleted ==
    ASSUME DInv,
           \/ StartBackup \/ PatchMirror \/ FinishBackup \/ Interrupt \/ Regress
           \/ \E n \in Names, v \in States : WriteIncrement(n, v)
           \/ \E d \in Dates : RemoveOlder(d)
    PROVE  Deleted'
<1>1. UNCHANGED <<job, asked, damaged>>
  BY DEF StartBackup, PatchMirror, FinishBackup, Interrupt, Regress, WriteIncrement, RemoveOlder, deletion
<1>2. LastDate' \in Nat /\ LastDate' >= LastDate
  <2>1. CASE UNCHANGED history
    BY <2>1, DFacts DEF LastDate
  <2>2. CASE FinishBackup
    <3>1. LastDate' = LastDate + 1
      BY <2>2, FinishDate DEF DInv, EInv
    <3> QED BY <3>1, DFacts
  <2>3. CASE \E d \in Dates : RemoveOlder(d)
    BY <2>3, RemoveDate, DFacts DEF DInv, EInv
  <2> QED BY <2>1, <2>2, <2>3
        DEF StartBackup, PatchMirror, Interrupt, Regress, WriteIncrement, disk
<1>3. SUFFICES ASSUME NEW n \in Names, job[n] = "exited" PROVE Erased(n)'
  <2>1. \A n \in Names : asked'[n] <= LastDate'
    BY <1>1, <1>2, DFacts
  <2> QED BY <1>1, <2>1 DEF DInv, Deleted
<1>4. /\ Exact(n) /\ asked[n] \in Nat /\ asked[n] <= LastDate /\ asked'[n] = asked[n]
      /\ \A d \in DOMAIN history : d <= asked[n] => history[d][n] = absent
      /\ \A i \in incs : i.name = n /\ ~i.missing => i.date > asked[n]
      /\ mirror[n] # absent => backup.pc # "none" \/ LastDate > asked[n]
  BY <1>1, <1>3, DFacts DEF Erased
<1>5. CASE StartBackup \/ Interrupt
  <2>1. UNCHANGED <<mirror, incs, history>> /\ backup'.pc # "none" /\ LastDate' = LastDate
    BY <1>5 DEF StartBackup, Interrupt, NoBackup, disk, LastDate
  <2> QED BY <1>4, <2>1 DEF Erased
<1>6. CASE PatchMirror
  <2>1. UNCHANGED <<incs, history>> /\ backup'.pc # "none" /\ LastDate' = LastDate
    BY <1>6, DFacts DEF PatchMirror, LastDate, AtWork, BackupFields
  <2> QED BY <1>4, <2>1 DEF Erased
<1>7. CASE FinishBackup
  <2>1. UNCHANGED <<mirror, incs>> /\ LastDate' = LastDate + 1
        /\ DOMAIN history' = DOMAIN history \cup {LastDate + 1}
        /\ \A d \in DOMAIN history : history'[d] = history[d]
    BY <1>7, FinishDate DEF DInv, EInv, FinishBackup
  <2> QED BY <1>4, <2>1, DFacts DEF Erased
<1>8. CASE Regress
  <2>1. /\ UNCHANGED history /\ LastDate' = LastDate /\ mirror' = history[LastDate] /\ incs' \subseteq incs
    BY <1>8 DEF Regress, LastDate
  <2>2. history[LastDate][n] # absent => LastDate > asked[n]
    BY <1>4, DFacts DEF Last
  <2> QED BY <1>4, <2>1, <2>2 DEF Erased
<1>9. CASE \E m \in Names, v \in States : WriteIncrement(m, v)
  <2>1. PICK m \in Names, v \in States : WriteIncrement(m, v)
    BY <1>9
  <2> DEFINE new == [name |-> m, date |-> LastDate, missing |-> mirror[m] = absent]
  <2>2. /\ UNCHANGED <<mirror, history>> /\ LastDate' = LastDate /\ incs' = incs \cup {new}
        /\ backup.pc = "run" /\ backup'.pc = "run" /\ m \in backup.todo
    BY <2>1, DFacts DEF WriteIncrement, LastDate, AtWork, BackupFields
  <2>3. new.name = m /\ new.date = LastDate /\ (new.missing <=> mirror[m] = absent)
    OBVIOUS
  <2> HIDE DEF new
  <2>4. new.name = n /\ ~new.missing => new.date > asked[n]
    <3>1. SUFFICES ASSUME m = n, mirror[n] # absent PROVE LastDate > asked[n]
      BY <2>3
    <3>2. \A i \in incs : ~(i.name = n /\ i.date = LastDate)
      BY <2>2, <3>1, DFacts DEF AtWork
    <3>3. history[LastDate][n] # absent /\ LastDate \in DOMAIN history
      BY <1>4, <3>1, <3>2, DFacts DEF Exact, Last
    <3> QED BY <1>4, <3>3, DFacts
  <2> QED BY <1>4, <2>2, <2>4 DEF Erased
<1>10. CASE \E d \in Dates : RemoveOlder(d)
  <2>1. /\ UNCHANGED <<mirror, backup>> /\ incs' \subseteq incs /\ LastDate' = LastDate
        /\ DOMAIN history' \subseteq DOMAIN history
        /\ \A d \in DOMAIN history' : history'[d] = history[d]
    BY <1>10, RemoveDate DEF DInv, EInv, RemoveOlder
  <2> QED BY <1>4, <2>1 DEF Erased
<1> QED BY <1>5, <1>6, <1>7, <1>8, <1>9, <1>10

LEMMA DeleteDeleted ==
    ASSUME DInv, NEW n \in Names, Idle(n) \/ Work(n)
    PROVE  Deleted'
<1>1. CASE Idle(n)
  <2>1. /\ UNCHANGED <<mirror, incs, backup, history, damaged>> /\ LastDate' = LastDate
        /\ \A m \in Names \ {n} : job'[m] = job[m] /\ asked'[m] = asked[m]
        /\ job'[n] # "exited"
    BY <1>1, IdleFacts DEF DInv, EInv
  <2>2. asked'[n] <= LastDate
    <3>1. asked'[n] = asked[n] \/ asked'[n] = LastDate \/ asked'[n] = 0
      BY <1>1, DFacts DEF Idle, ScheduleDelete, DeleteRefused, StartDelete, TellEnd, Shape
    <3> QED BY <3>1, DFacts
  <2>3. \A m \in Names \ {n} : Erased(m) => Erased(m)'
    BY <2>1 DEF Erased
  <2> QED BY <2>1, <2>2, <2>3 DEF DInv, Deleted
<1>2. CASE Work(n)
  <2>1. /\ UNCHANGED <<backup, asked>> /\ LastDate' = LastDate
        /\ DOMAIN history' = DOMAIN history
        /\ \A m \in Names \ {n} : job'[m] = job[m] /\ (m \in damaged' <=> m \in damaged)
        /\ \A m \in Names \ {n} : mirror'[m] = mirror[m]
        /\ incs' \subseteq incs
        /\ \A d \in DOMAIN history : \A m \in Names \ {n} : history'[d][m] = history[d][m]
    <3>1. IInv
      BY DEF DInv, EInv
    <3>2. /\ UNCHANGED <<backup, asked>> /\ LastDate' = LastDate
          /\ DOMAIN history' = DOMAIN history
      BY <1>2, <3>1, WorkFacts
    <3>3. \A m \in Names \ {n} : job'[m] = job[m]
      BY <1>2, <3>1, WorkFacts
    <3>7. \A m \in Names \ {n} : m \in damaged' <=> m \in damaged
      BY <1>2, <3>1, WorkFacts
    <3>4. \A m \in Names \ {n} : mirror'[m] = mirror[m]
      BY <1>2, <3>1, WorkFacts
    <3>5. incs' \subseteq incs
      BY <1>2, <3>1, WorkFacts
    <3>6. \A d \in DOMAIN history : \A m \in Names \ {n} : history'[d][m] = history[d][m]
      BY <1>2, <3>1, WorkFacts
    <3> QED BY <3>2, <3>3, <3>4, <3>5, <3>6, <3>7
  <2>2. \A m \in Names \ {n} : Erased(m) => Erased(m)'
    BY <2>1 DEF Erased
  <2>3. job'[n] = "exited" => n \notin damaged' /\ Erased(n)'
    <3>1. job'[n] = "exited" =>
              /\ n \notin damaged' /\ mirror'[n] = absent /\ \A i \in incs' : i.name # n
              /\ \A d \in DOMAIN history : history'[d][n] = absent
      BY <1>2, WorkFacts DEF DInv, EInv
    <3> QED BY <2>1, <3>1 DEF Erased
  <2> QED BY <2>1, <2>2, <2>3 DEF DInv, Deleted
<1> QED BY <1>1, <1>2

LEMMA DeletedInvariant == Spec => []DInv
<1>1. Init => DInv
  <2> SUFFICES ASSUME Init PROVE DInv
    OBVIOUS
  <2>1. LastDate \in Nat
    BY InvInit, Facts
  <2>2. Deleted
    BY <2>1 DEF Init, Deleted
  <2> QED BY <2>2, ExactInit DEF DInv
<1>2. DInv /\ [Next]_vars => DInv'
  <2> SUFFICES ASSUME DInv, [Next]_vars PROVE Deleted'
    BY ExactStep DEF DInv
  <2>1. CASE \/ UNCHANGED vars
             \/ \E t \in Threads : Browse(t) \/ (\E n \in Names : History(t, n)) \/ Look(t) \/ Answer(t)
    <3>1. UNCHANGED <<mirror, incs, backup, history, job, asked, damaged>> /\ LastDate' = LastDate
      BY <2>1 DEF vars, Browse, History, Begin, Look, Answer, disk, deletion, LastDate
    <3> QED BY <3>1 DEF DInv, Deleted, Erased
  <2>2. CASE \E n \in Names : ScheduleDelete(n) \/ Delete(n)
    BY <2>2, DeleteIs, DeleteDeleted
  <2> QED BY <2>1, <2>2, BackupDeleted DEF Next
<1> QED BY <1>1, <1>2, PTL DEF Spec

-----------------------------------------------------------------------------
(***************************************************************************)
(* The theorems                                                            *)
(***************************************************************************)
\* The type invariant: the files of rdiff-backup, the jobs and the requests have
\* their types, no two increments of an entry are of one date, and one marker more
\* than there are backups at work is on the disk, for any number of backups.
THEOREM TypeInvariant == Spec => []TypeOK
<1>1. IInv => TypeOK
  BY TypeFrom
<1> QED BY <1>1, Invariant, PTL

\* A page that does not say that the repository failed hides no entry with a version
\* that could be restored all the time (librdiff.py: the directory is listed before its
\* increments); and only a page under which somebody wrote says so (_repo.py:407).  A
\* page read while an interrupted backup is undone is promised nothing.  For any number
\* of entries, versions, backups and threads.
THEOREM Complete == Spec => []NothingIsHidden
<1>1. EInv => NothingIsHidden
  <2> SUFFICES ASSUME EInv, NEW t \in Threads, Answered(req[t])
               PROVE  /\ req[t].failed => ~req[t].quiet
                      /\ ~req[t].failed => \A x \in req[t].had : x[1] \in Entries(req[t])
    BY DEF NothingIsHidden
  <2>1. <<>> \in Seen
    BY DEF Seen
  <2>2. Knows(req[t]) /\ IsTrue(req[t])
    BY DEF EInv, IInv, Requests, Pages
  <2> QED BY <2>1, <2>2 DEF Knows, IsTrue, Answered
<1> QED BY <1>1, ExactInvariant, PTL

\* A page that nobody wrote under offers a date for every version that is kept
\* (librdiff.py:343 change_dates) of an entry that is not half deleted, after any
\* number of backups, undone interruptions, removals and deletions of any number of
\* entries: the first increment since the version, or the last backup, has it.
THEOREM Offered == Spec => []EveryVersionIsOffered
<1>1. EInv => EveryVersionIsOffered
  <2> SUFFICES ASSUME EInv, NEW t \in Threads, Undisturbed(req[t]), ~Interrupted,
                      NEW d \in DOMAIN history, NEW n \in req[t].names \ damaged,
                      history[d][n] # absent
               PROVE  \E e \in ChangeDates(req[t], n) : d <= e /\ Unchanged(n, d, e)
    BY DEF EveryVersionIsOffered
  <2>1. /\ Max(req[t].marks) = LastDate /\ n \in Names
        /\ req[t].exists = Existing(req[t].names) /\ req[t].incs = Listed(req[t].names)
        /\ Exact(n) /\ mirror[n] = history[LastDate][n]
    BY QuietPage
  <2>2. /\ \A f \in DOMAIN history : f \in Nat /\ f <= LastDate
        /\ \A i \in incs : i.date \in Nat /\ LastDate \in DOMAIN history /\ LastDate \in Nat
    BY Facts, Bound DEF EInv, Backups, Last
  <2> DEFINE T == {i.date : i \in {j \in incs : j.name = n /\ d <= j.date}}
  <2>3. ASSUME NEW e \in DOMAIN history, d <= e, \A x \in T : e <= x
        PROVE  history[e][n] = history[d][n] /\ Unchanged(n, d, e)
    <3>1. ASSUME NEW f \in DOMAIN history, d <= f, f <= e PROVE history[f][n] = history[d][n]
      <4>1. SUFFICES ASSUME history[d][n] # history[f][n] PROVE FALSE
        OBVIOUS
      <4>2. d < f
        BY <2>2, <3>1, <4>1
      <4>3. PICK i \in incs : i.name = n /\ d <= i.date /\ i.date < f
        BY <2>1, <4>1, <4>2 DEF Exact
      <4>4. i.date \in T
        BY <4>3
      <4>5. e <= i.date
        BY <2>3, <4>4
      <4> QED BY <2>2, <3>1, <4>3, <4>5
    <3>2. e <= e
      BY <2>2
    <3> QED BY <2>3, <3>1, <3>2 DEF Unchanged
  <2>4. CASE T # {}
    <3>1. T \in SUBSET Nat
      BY <2>2
    <3>2. PICK e \in T : \A x \in T : e <= x
      BY <2>4, <3>1, Smallest
    <3>3. PICK i \in incs : i.name = n /\ d <= i.date /\ e = i.date
      BY <3>2
    <3>4. e \in DOMAIN history /\ (i.missing <=> history[e][n] = absent)
      BY <2>1, <3>3 DEF Exact
    <3>5. history[e][n] = history[d][n] /\ Unchanged(n, d, e)
      BY <2>3, <3>2, <3>3, <3>4
    <3>6. e \in ChangeDates(req[t], n)
      BY <2>1, <3>3, <3>4, <3>5 DEF ChangeDates, Listed
    <3> QED BY <3>3, <3>5, <3>6
  <2>5. CASE T = {}
    <3>1. LastDate \in DOMAIN history /\ d <= LastDate
      BY <2>2, Facts DEF EInv, Last
    <3>2. history[LastDate][n] = history[d][n] /\ Unchanged(n, d, LastDate)
      BY <2>3, <2>5, <3>1
    <3>3. LastDate \in ChangeDates(req[t], n)
      BY <2>1, <3>2 DEF ChangeDates, Existing
    <3> QED BY <3>1, <3>2, <3>3
  <2> QED BY <2>4, <2>5
<1> QED BY <1>1, ExactInvariant, PTL

\* And it offers no date but of a kept backup that has the entry -- an increment of a
\* missing file is left out, a file that exists has the date of the last backup -- or,
\* of a repository whose last backup was interrupted and not undone, the date of that
\* backup, which cannot be restored (librdiff.py:1035).
THEOREM OffersRestore == Spec => []OfferedDatesRestore
<1>1. EInv => OfferedDatesRestore
  <2> SUFFICES ASSUME EInv, NEW t \in Threads, Undisturbed(req[t]),
                      NEW n \in Entries(req[t]) \ damaged, NEW e \in ChangeDates(req[t], n)
               PROVE  \/ e \in DOMAIN history /\ history[e][n] # absent
                      \/ Interrupted /\ e = LastDate + 1
    BY DEF OfferedDatesRestore
  <2>1. n \in Names \ damaged
    BY QuietPage DEF Entries, Existing, Listed
  <2>2. /\ req[t].exists = Existing(req[t].names) /\ req[t].incs = Listed(req[t].names)
        /\ Exact(n) /\ LastDate \in DOMAIN history
    BY <2>1, QuietPage, Facts DEF EInv, Last
  <2>3. CASE n \in req[t].exists /\ e = Max(req[t].marks)
    <3>1. CASE Interrupted
      BY <2>3, <3>1, QuietPage
    <3>2. CASE ~Interrupted
      <4>1. e = LastDate /\ mirror[n] = history[LastDate][n]
        BY <2>1, <2>3, <3>2, QuietPage
      <4> QED BY <2>2, <2>3, <4>1 DEF Existing
    <3> QED BY <3>1, <3>2
  <2>4. CASE \E i \in req[t].incs : i.name = n /\ ~i.missing /\ e = i.date
    BY <2>2, <2>4 DEF Listed, Exact
  <2> QED BY <2>3, <2>4 DEF ChangeDates
<1> QED BY <1>1, ExactInvariant, PTL

\* When the log tells of a completed deletion, no version that a backup had before it
\* was asked for can be restored, and no page offers one -- whatever backups, removals
\* and deletions of other entries there were since the process let the lock go, and
\* whatever it left half-way before (librdiff.py:841, _repo.py:57).
THEOREM DoneIsGone == Spec => DoneMeansGone
<1> DEFINE Ends(n) == job[n] # "done" /\ job'[n] = "done" => Erased(n)
<1>1. DInv /\ [Next]_vars => [\A n \in Names : Ends(n)]_vars
  <2> SUFFICES ASSUME DInv, Next, NEW n \in Names, job[n] # "done", job'[n] = "done"
               PROVE  Erased(n)
    OBVIOUS
  <2>1. job' # job
    OBVIOUS
  <2>2. PICK m \in Names : ScheduleDelete(m) \/ Delete(m)
    BY <2>1 DEF Next, Browse, History, Begin, Look, Answer, StartBackup, PatchMirror, FinishBackup,
                Interrupt, Regress, WriteIncrement, RemoveOlder, deletion
  <2>3. job \in [Names -> {"none", "scheduled", "deleting", "exited", "broken", "done"}]
    BY DFacts DEF Shape
  <2>4. m = n /\ TellEnd(n)
    BY <2>2, <2>3 DEF ScheduleDelete, Delete, DeleteRefused, StartDelete, DeleteMirror,
                      DeleteIncrement, DeleteExits, DeleteFails, TellEnd, deletion
  <2>5. job[n] = "exited"
    <3>1. PICK outcome \in Outcomes(job[n]) : job' = [job EXCEPT ![n] = outcome]
      BY <2>4 DEF TellEnd
    <3>2. outcome = "done"
      BY <2>3, <3>1
    <3> QED BY <3>1, <3>2 DEF Outcomes
  <2> QED BY <2>5, DFacts
<1>2. DInv /\ [Next]_vars => DoneStep
  BY <1>1 DEF DoneStep, Erased
<1> QED BY <1>2, DeletedInvariant, PTL DEF Spec, DoneMeansGone, DoneStep
=============================================================================
