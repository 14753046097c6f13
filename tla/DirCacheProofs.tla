--------------------------- MODULE DirCacheProofs ---------------------------
(***************************************************************************)
(* Theorems about DirCache, for any number of directories and threads:     *)
(* that listings are fresh, that callers are told what was there, and the  *)
(* types.                                                                  *)
(***************************************************************************)
EXTENDS DirCache, TLAPS, SequenceTheorems, FiniteSetTheorems

IsScan(r) == \E d, m, todo, found :
    r = [pc |-> "scan", dir |-> d, mtime |-> m, todo |-> todo, found |-> found]

\* Nothing is assumed of the order of the paths: which directory the background
\* thread turns to does not matter here, only what every call does with its own.
Shapes ==
    /\ fs \in [Dirs -> [there : BOOLEAN, mtime : Mtime, names : SUBSET Names]]
    /\ DOMAIN entry = Dirs
    /\ call = [c \in Callers |-> call[c]]
    /\ \A c \in Callers : call[c].pc = "scan" => IsScan(call[c])

\* A listing of the table is not younger than its directory, and is right if it
\* is not older either.
EntryRight(d) ==
    entry[d] # NoEntry =>
        /\ entry[d].mtime \in Nat /\ entry[d].mtime <= fs[d].mtime
        /\ fs[d].there /\ entry[d].mtime = fs[d].mtime => entry[d].names = fs[d].names

\* A call has read the modification time in the past; if it has not changed, the
\* names found are those of the directory, except for the ones still to be read.
CallRight(c, d) ==
    call[c].pc \in {"lookup", "scan", "publish"} /\ call[c].dir = d =>
        /\ call[c].mtime \in Nat /\ call[c].mtime <= fs[d].mtime
        /\ call[c].pc = "scan" /\ fs[d].there /\ call[c].mtime = fs[d].mtime =>
             call[c].found = fs[d].names \ call[c].todo
        /\ call[c].pc = "publish" =>
             /\ call[c].mtime2 \in Nat /\ call[c].mtime2 <= fs[d].mtime
             /\ call[c].mtime = call[c].mtime2 /\ fs[d].there /\ call[c].mtime = fs[d].mtime =>
                  call[c].found = fs[d].names

Right == /\ Shapes
         /\ \A d \in Dirs : EntryRight(d)
         /\ \A c \in Callers, d \in Dirs : CallRight(c, d)

LEMMA Bounds == MaxMtime \in Nat /\ MaxRefresh \in Nat
BY LimitsAssumption DEF LimitsAssumption

LEMMA RightNow ==
    ASSUME Right, NEW d \in Dirs
    PROVE  /\ fs[d].mtime \in Nat /\ fs[d].names \subseteq Names
           /\ EntryRight(d) /\ \A c \in Callers : CallRight(c, d)
BY Bounds DEF Right, Shapes, Mtime

\* The entries stay as they are, or one of them is dropped.
LEMMA KeptEntries ==
    ASSUME Right, UNCHANGED fs, UNCHANGED <<entry, order>> \/ \E d : RemovePath(d)
    PROVE  DOMAIN entry' = Dirs /\ \A d \in Dirs : EntryRight(d)'
<1>1. CASE UNCHANGED <<entry, order>>
  BY <1>1 DEF Right, Shapes, EntryRight
<1>2. CASE \E d : RemovePath(d)
  <2>1. DOMAIN entry' = Dirs /\ \A d \in Dirs : entry'[d] \in {entry[d], NoEntry}
    BY <1>2 DEF RemovePath, Right, Shapes
  <2> QED BY <2>1 DEF Right, EntryRight
<1> QED BY <1>1, <1>2

\* What a step has to show of the one call it changes.
LEMMA OneCall ==
    ASSUME Right, UNCHANGED fs, DOMAIN entry' = Dirs, \A d \in Dirs : EntryRight(d)',
           NEW c \in Callers, NEW r, Goto(c, r), r.pc = "scan" => IsScan(r),
           \A d \in Dirs : CallRight(c, d)'
    PROVE  Right'
<1>1. call'[c] = r /\ \A x \in Callers \ {c} : call'[x] = call[x]
  BY DEF Goto, Right, Shapes
<1>2. call' = [x \in Callers |-> call'[x]]
  BY DEF Goto, Right, Shapes
<1>3. ASSUME NEW x \in Callers, call'[x].pc = "scan" PROVE IsScan(call'[x])
  BY <1>1, <1>3 DEF Right, Shapes
<1>4. Shapes'
  BY <1>2, <1>3 DEF Right, Shapes, IsScan
<1>5. ASSUME NEW x \in Callers, NEW d \in Dirs PROVE CallRight(x, d)'
  <2>1. CASE x = c
    BY <2>1
  <2>2. CASE x # c
    BY <1>1, <2>2 DEF Right, CallRight
  <2> QED BY <2>1, <2>2
<1> QED BY <1>4, <1>5 DEF Right

\* A call that has read nothing says nothing about its directory.
LEMMA QuietCall ==
    ASSUME Right, UNCHANGED fs, UNCHANGED <<entry, order>> \/ \E d : RemovePath(d),
           NEW c \in Callers, NEW r, Goto(c, r), r.pc \in {"idle", "stat", "failed", "done"}
    PROVE  Right'
<1>1. call'[c].pc \in {"idle", "stat", "failed", "done"}
  BY DEF Goto, Right, Shapes
<1>2. \A d \in Dirs : CallRight(c, d)'
  BY <1>1 DEF CallRight
<1> QED BY <1>2, KeptEntries, OneCall

LEMMA ListdirRight ==
    ASSUME Right, NEW c \in Callers, ListdirStep(c)
    PROVE  Right'
<1> DEFINE D == call[c].dir
<1>1. CASE Stat(c)
  <2>1. CASE fs[D].there /\ UNCHANGED <<entry, order>> /\ UNCHANGED fs
             /\ Goto(c, [pc |-> "lookup", dir |-> D, mtime |-> fs[D].mtime])
    <3>1. call'[c] = [pc |-> "lookup", dir |-> D, mtime |-> fs[D].mtime]
      BY <2>1 DEF Goto, Right, Shapes
    <3>2. ASSUME NEW d \in Dirs PROVE CallRight(c, d)'
      BY <2>1, <3>1, RightNow DEF CallRight
    <3> QED BY <2>1, <3>2, KeptEntries, OneCall
  <2>2. CASE RemovePath(D) /\ Raise(c) /\ UNCHANGED fs
    BY <2>2, QuietCall DEF Raise, Idle
  <2> QED BY <1>1, <2>1, <2>2 DEF Stat
<1>2. CASE Lookup(c)
  <2>1. CASE Return(c, entry[D].names, FALSE) /\ UNCHANGED <<entry, order>> /\ UNCHANGED fs
    BY <2>1, QuietCall DEF Return, Idle
  <2>2. CASE /\ Goto(c, [pc |-> "scan", dir |-> D, mtime |-> call[c].mtime,
                         todo |-> Names, found |-> {}])
             /\ UNCHANGED <<entry, order>> /\ UNCHANGED fs
    <3>1. call'[c] = [pc |-> "scan", dir |-> D, mtime |-> call[c].mtime,
                      todo |-> Names, found |-> {}]
      BY <2>2 DEF Goto, Right, Shapes
    <3>2. ASSUME NEW d \in Dirs PROVE CallRight(c, d)'
      <4>1. D = d => call[c].mtime \in Nat /\ call[c].mtime <= fs[d].mtime
        BY <1>2, RightNow DEF Lookup, CallRight
      <4>2. fs[d].names \ Names = {}
        BY RightNow
      <4> QED BY <2>2, <3>1, <4>1, <4>2 DEF CallRight
    <3> QED BY <2>2, <3>1, <3>2, KeptEntries, OneCall DEF IsScan
  <2> QED BY <1>2, <2>1, <2>2 DEF Lookup
<1>3. CASE ScanFails(c)
  BY <1>3, QuietCall DEF ScanFails, Raise, Idle
<1>4. ASSUME call[c].pc = "scan", UNCHANGED <<fs, entry, order>>, NEW todo, NEW found,
             call' = [call EXCEPT ![c].todo = todo, ![c].found = found],
             \A d \in Dirs : D = d /\ fs[d].there /\ call[c].found = fs[d].names \ call[c].todo
                              => found = fs[d].names \ todo
      PROVE  Right'
  <2>1. PICK e, m, td, fd : call[c] = [pc |-> "scan", dir |-> e, mtime |-> m, todo |-> td, found |-> fd]
    BY <1>4 DEF Right, Shapes, IsScan
  <2> DEFINE r == [pc |-> "scan", dir |-> e, mtime |-> m, todo |-> todo, found |-> found]
  <2>2. Goto(c, r)
    <3>1. [call[c] EXCEPT !.todo = todo] =
            [pc |-> "scan", dir |-> e, mtime |-> m, todo |-> todo, found |-> fd]
      BY <2>1
    <3>2. [[pc |-> "scan", dir |-> e, mtime |-> m, todo |-> todo, found |-> fd]
             EXCEPT !.found = found] = r
      OBVIOUS
    <3>3. call' = [call EXCEPT ![c] = [call[c] EXCEPT !.todo = todo, !.found = found]]
      BY <1>4 DEF Right, Shapes
    <3> QED BY <3>1, <3>2, <3>3 DEF Goto
  <2>3. call'[c] = r /\ fs' = fs
    BY <1>4, <2>2 DEF Goto, Right, Shapes
  <2>4. ASSUME NEW d \in Dirs PROVE CallRight(c, d)'
    <3>1. D = e /\ call[c].mtime = m /\ call[c].pc = "scan"
      BY <2>1
    <3>2. e = d => /\ m \in Nat /\ m <= fs[d].mtime
                   /\ fs[d].there /\ m = fs[d].mtime => call[c].found = fs[d].names \ call[c].todo
      BY <3>1, RightNow DEF CallRight
    <3>3. e = d /\ fs[d].there /\ m = fs[d].mtime => found = fs[d].names \ todo
      BY <1>4, <3>1, <3>2
    <3>4. /\ call'[c].pc = "scan" /\ call'[c].dir = e /\ call'[c].mtime = m
          /\ call'[c].todo = todo /\ call'[c].found = found /\ fs' = fs
      BY <2>3
    <3> QED BY <3>2, <3>3, <3>4 DEF CallRight
  <2> QED BY <1>4, <2>2, <2>4, KeptEntries, OneCall DEF IsScan
<1>5. ASSUME NEW n \in Names, Scan(c, n) PROVE Right'
  <2> DEFINE found == call[c].found \cup ({n} \cap NamesOf(D))
  <2>1. call' = [call EXCEPT ![c].todo = call[c].todo \ {n}, ![c].found = found]
    BY <1>5 DEF Scan, Right, Shapes
  <2>2. \A d \in Dirs : D = d /\ fs[d].there /\ call[c].found = fs[d].names \ call[c].todo
                         => found = fs[d].names \ (call[c].todo \ {n})
    BY <1>5 DEF Scan, NamesOf
  <2> QED BY <1>4, <1>5, <2>1, <2>2 DEF Scan
<1>6. CASE ScanEnds(c)
  <2>1. PICK e, m, td, fd : call[c] = [pc |-> "scan", dir |-> e, mtime |-> m, todo |-> td, found |-> fd]
    BY <1>6 DEF ScanEnds, Right, Shapes, IsScan
  <2>2. call' = [call EXCEPT ![c].todo = {}, ![c].found = call[c].found]
    BY <1>6, <2>1 DEF ScanEnds, Right, Shapes
  <2> QED BY <1>4, <1>6, <2>2 DEF ScanEnds
<1>7. CASE Restat(c)
  <2>1. CASE /\ UNCHANGED <<entry, order>> /\ UNCHANGED fs
             /\ Goto(c, [pc |-> "publish", dir |-> D, mtime |-> call[c].mtime,
                         mtime2 |-> fs[D].mtime, found |-> call[c].found])
    <3>1. call'[c] = [pc |-> "publish", dir |-> D, mtime |-> call[c].mtime,
                      mtime2 |-> fs[D].mtime, found |-> call[c].found]
      BY <2>1 DEF Goto, Right, Shapes
    <3>2. ASSUME NEW d \in Dirs PROVE CallRight(c, d)'
      <4>1. D = d => /\ call[c].mtime \in Nat /\ call[c].mtime <= fs[d].mtime
                     /\ fs[d].there /\ call[c].mtime = fs[d].mtime => call[c].found = fs[d].names
        <5>1. D = d => CallRight(c, d)
          BY RightNow
        <5>2. call[c].pc = "scan" /\ call[c].todo = {}
          BY <1>7 DEF Restat
        <5> QED BY <5>1, <5>2 DEF CallRight
      <4> QED BY <2>1, <3>1, <4>1, RightNow DEF CallRight
    <3> QED BY <2>1, <3>2, KeptEntries, OneCall
  <2>2. CASE RemovePath(D) /\ Raise(c) /\ UNCHANGED fs
    BY <2>2, QuietCall DEF Raise, Idle
  <2> QED BY <1>7, <2>1, <2>2 DEF Restat
<1>8. CASE Publish(c)
  <2>1. DOMAIN entry' = Dirs /\ \A d \in Dirs : EntryRight(d)'
    <3>1. CASE Unmodified(call[c].mtime, call[c].mtime2)
      <4>1. entry' = [entry EXCEPT ![D] = [mtime |-> call[c].mtime2, names |-> call[c].found]]
        BY <1>8, <3>1 DEF Publish
      <4>2. ASSUME NEW d \in Dirs PROVE EntryRight(d)'
        <5>1. CASE d = D
          BY <1>8, <3>1, <4>1, <5>1, RightNow DEF Publish, Unmodified, CallRight, EntryRight, Right, Shapes
        <5>2. CASE d # D
          BY <1>8, <4>1, <5>2 DEF Publish, EntryRight, Right, Shapes
        <5> QED BY <5>1, <5>2
      <4> QED BY <4>1, <4>2 DEF Right, Shapes
    <3>2. CASE ~Unmodified(call[c].mtime, call[c].mtime2)
      BY <1>8, <3>2, KeptEntries DEF Publish
    <3> QED BY <3>1, <3>2
  <2>2. PICK r : Goto(c, r) /\ r.pc \in {"idle", "done"}
    BY <1>8 DEF Publish, Return, Idle
  <2>3. call'[c] = r
    BY <2>2 DEF Goto, Right, Shapes
  <2>4. \A d \in Dirs : CallRight(c, d)'
    BY <2>2, <2>3 DEF CallRight
  <2> QED BY <1>8, <2>1, <2>2, <2>4, OneCall DEF Publish
<1> QED BY <1>1, <1>2, <1>3, <1>5, <1>6, <1>7, <1>8 DEF ListdirStep

\* A changed directory is younger than all that was read of it before.
LEMMA ChangeRight ==
    ASSUME Right, NEW e \in Dirs, NEW there \in BOOLEAN, NEW names \in SUBSET Names,
           Change(e, there, names)
    PROVE  Right'
<1>1. /\ fs' \in [Dirs -> [there : BOOLEAN, mtime : Mtime, names : SUBSET Names]]
      /\ fs'[e].mtime \in Nat /\ fs'[e].mtime > fs[e].mtime
      /\ \A d \in Dirs \ {e} : fs'[d] = fs[d]
  <2>1. PICK m \in Mtime :
          /\ fs[e].mtime < m
          /\ fs' = [fs EXCEPT ![e] = [there |-> there, mtime |-> m, names |-> names]]
    BY DEF Change, IsNext
  <2>2. [there |-> there, mtime |-> m, names |-> names]
          \in [there : BOOLEAN, mtime : Mtime, names : SUBSET Names]
    OBVIOUS
  <2>3. fs'[e].mtime = m /\ m \in Nat
    BY <2>1, Bounds DEF Right, Shapes, Mtime
  <2> QED BY <2>1, <2>2, <2>3, RightNow DEF Right, Shapes
<1>2. UNCHANGED <<entry, call>>
  BY DEF Change
<1>3. Shapes'
  BY <1>1, <1>2 DEF Right, Shapes
<1>4. ASSUME NEW d \in Dirs PROVE EntryRight(d)'
  <2>1. CASE d = e
    BY <1>1, <1>2, <2>1, RightNow DEF EntryRight
  <2>2. CASE d # e
    BY <1>1, <1>2, <2>2, RightNow DEF EntryRight
  <2> QED BY <2>1, <2>2
<1>5. ASSUME NEW c \in Callers, NEW d \in Dirs PROVE CallRight(c, d)'
  <2>1. CASE d = e
    BY <1>1, <1>2, <2>1, RightNow DEF CallRight
  <2>2. CASE d # e
    BY <1>1, <1>2, <2>2, RightNow DEF CallRight
  <2> QED BY <2>1, <2>2
<1> QED BY <1>3, <1>4, <1>5 DEF Right

LEMMA RunRight ==
    ASSUME Right, RunStep
    PROVE  Right'
<1>0. Monitor \in Callers
  BY DEF Callers
<1>1. ASSUME UNCHANGED <<fs, entry, call>> PROVE Right'
  BY <1>1 DEF Right, Shapes, EntryRight, CallRight, IsScan
<1>2. CASE BeginCycle \/ EndCycle \/ EndCycleRaises
  BY <1>1, <1>2 DEF BeginCycle, EndCycle, EndCycleRaises
<1>3. CASE RefreshNext
  BY <1>0, <1>3, QuietCall DEF RefreshNext
<1>4. CASE Forget
  BY <1>0, <1>4, QuietCall DEF Forget, Idle
<1> QED BY <1>2, <1>3, <1>4 DEF RunStep

LEMMA RightStep == Right /\ [Next]_vars => Right'
<1> SUFFICES ASSUME Right, [Next]_vars PROVE Right'
  OBVIOUS
<1>1. ASSUME NEW d \in Dirs, NEW there \in BOOLEAN, NEW names \in SUBSET Names,
             Change(d, there, names)
      PROVE  Right'
  BY <1>1, ChangeRight
<1>2. ASSUME NEW t \in Threads, Answered(t) PROVE Right'
  BY <1>2, QuietCall DEF Answered, Idle, Callers
<1>3. ASSUME NEW t \in Threads, NEW d \in Dirs, Listdir(t, d) PROVE Right'
  BY <1>3, QuietCall DEF Listdir, Callers
<1>4. ASSUME NEW c \in Callers, ListdirStep(c) PROVE Right'
  BY <1>4, ListdirRight
<1>5. CASE RunStep
  BY <1>5, RunRight
<1>6. CASE UNCHANGED vars
  BY <1>6 DEF vars, Right, Shapes, EntryRight, CallRight, IsScan
<1> QED BY <1>1, <1>2, <1>3, <1>4, <1>5, <1>6 DEF Next

\* Whatever threads read, change and publish, a listing whose modification time
\* is the directory's is the directory's listing.
THEOREM FreshListings == Spec => []FreshWhenMtimeMatches
<1>1. Init => Right
  <2> SUFFICES ASSUME Init PROVE Right
    OBVIOUS
  <2>1. fs \in [Dirs -> [there : BOOLEAN, mtime : Mtime, names : SUBSET Names]]
    BY Bounds DEF Init, Mtime
  <2>2. Shapes
    BY <2>1 DEF Init, Shapes, Idle
  <2>3. \A d \in Dirs : EntryRight(d)
    BY DEF Init, EntryRight
  <2>4. \A c \in Callers, d \in Dirs : CallRight(c, d)
    BY DEF Init, Idle, CallRight
  <2> QED BY <2>2, <2>3, <2>4 DEF Right
<1>2. Right => FreshWhenMtimeMatches
  BY DEF Right, EntryRight, FreshWhenMtimeMatches
<1> QED BY <1>1, <1>2, RightStep, PTL DEF Spec

-----------------------------------------------------------------------------
(***************************************************************************)
(* What a caller is told.  A listing is put together from what is read at  *)
(* several moments, or taken from the table, where another thread may have *)
(* put it after the caller's lstat().                                      *)
(***************************************************************************)
Between(t, names) == always[t] \subseteq names /\ names \subseteq ever[t]

\* Wherever the names of d at modification time m are written down, they are N.
Held(d, m, N) ==
    /\ fs[d].mtime = m => fs[d].there /\ fs[d].names = N
    /\ entry[d] # NoEntry /\ entry[d].mtime = m => entry[d].names = N
    /\ \A c \in Callers :
         call[c].pc = "publish" /\ call[c].dir = d /\ call[c].mtime = m /\ call[c].mtime2 = m
            => call[c].found = N

Busy == {"stat", "lookup", "scan", "publish", "done"}

\* The names passed so far are what a scan from the call to the return may find.
Heard(t) ==
    /\ call[t].pc \in Busy => call[t].dir \in Dirs
    /\ call[t].pc \in Busy \ {"done"} => Between(t, NamesOf(call[t].dir))
    /\ call[t].pc = "lookup" =>
         \E N : Between(t, N) /\ Held(call[t].dir, call[t].mtime, N)
    /\ call[t].pc = "scan" =>
         /\ always[t] \subseteq call[t].found \cup call[t].todo
         /\ call[t].found \subseteq ever[t]
    /\ call[t].pc \in {"publish", "done"} => Between(t, call[t].found)

Regular == /\ always = [t \in Threads |-> always[t]]
           /\ ever = [t \in Threads |-> ever[t]]
           /\ \A t \in Threads : Heard(t)

\* What was held at a time that is past is held for ever.
LEMMA HeldAfterChange ==
    ASSUME Right, NEW e \in Dirs, NEW there, NEW names, Change(e, there, names),
           NEW d \in Dirs, NEW m \in Nat, m <= fs[d].mtime, NEW N, Held(d, m, N)
    PROVE  Held(d, m, N)'
<1>1. UNCHANGED <<entry, call>>
  BY DEF Change
<1>2. CASE d = e
  <2>1. fs'[d].mtime > fs[d].mtime
    BY <1>2 DEF Change, IsNext, Right, Shapes
  <2>2. fs'[d].mtime # m
    BY <2>1, RightNow
  <2> QED BY <1>1, <2>2 DEF Held
<1>3. CASE d # e
  <2>1. fs'[d] = fs[d]
    BY <1>3 DEF Change, Right, Shapes
  <2> QED BY <1>1, <2>1 DEF Held
<1> QED BY <1>2, <1>3

\* A step of a call that publishes nothing, and reads no second modification time.
LEMMA HeldKept ==
    ASSUME Right, UNCHANGED fs, UNCHANGED <<entry, order>> \/ \E e : RemovePath(e),
           NEW c \in Callers, NEW r, Goto(c, r), r.pc # "publish",
           NEW d \in Dirs, NEW m, NEW N, Held(d, m, N)
    PROVE  Held(d, m, N)'
<1>1. entry'[d] = NoEntry \/ entry'[d] = entry[d]
  BY DEF RemovePath, Right, Shapes
<1>2. call'[c] = r /\ \A x \in Callers \ {c} : call'[x] = call[x]
  BY DEF Goto, Right, Shapes
<1> QED BY <1>1, <1>2 DEF Held

LEMMA HeldAfterRestat ==
    ASSUME Right, NEW c \in Callers, Restat(c),
           NEW d \in Dirs, NEW m, NEW N, Held(d, m, N)
    PROVE  Held(d, m, N)'
<1> DEFINE D == call[c].dir
<1>1. CASE /\ fs[D].there /\ UNCHANGED <<entry, order, fs>>
           /\ Goto(c, [pc |-> "publish", dir |-> D, mtime |-> call[c].mtime,
                       mtime2 |-> fs[D].mtime, found |-> call[c].found])
  <2>1. /\ call'[c] = [pc |-> "publish", dir |-> D, mtime |-> call[c].mtime,
                       mtime2 |-> fs[D].mtime, found |-> call[c].found]
        /\ \A x \in Callers \ {c} : call'[x] = call[x]
    BY <1>1 DEF Goto, Right, Shapes
  <2>2. D = d /\ call[c].mtime = m /\ fs[d].mtime = m => call[c].found = N
    <3>1. call[c].pc = "scan" /\ call[c].todo = {}
      BY DEF Restat
    <3>2. D = d => CallRight(c, d)
      BY RightNow
    <3> QED BY <1>1, <3>1, <3>2 DEF CallRight, Held
  <2>3. ASSUME NEW x \in Callers, call'[x].pc = "publish", call'[x].dir = d,
               call'[x].mtime = m, call'[x].mtime2 = m
        PROVE  call'[x].found = N
    <3>1. CASE x = c
      BY <2>1, <2>2, <2>3, <3>1
    <3>2. CASE x # c
      BY <2>1, <2>3, <3>2 DEF Held
    <3> QED BY <3>1, <3>2
  <2> QED BY <1>1, <2>3 DEF Held
<1>2. CASE RemovePath(D) /\ Raise(c) /\ UNCHANGED fs
  BY <1>2, HeldKept DEF Raise, Idle
<1> QED BY <1>1, <1>2 DEF Restat

LEMMA HeldAfterPublish ==
    ASSUME Right, NEW c \in Callers, Publish(c),
           NEW d \in Dirs, NEW m, NEW N, Held(d, m, N)
    PROVE  Held(d, m, N)'
<1>1. PICK r : Goto(c, r) /\ r.pc \in {"idle", "done"}
  BY DEF Publish, Return, Idle
<1>2. call'[c] = r /\ \A x \in Callers \ {c} : call'[x] = call[x]
  BY <1>1 DEF Goto, Right, Shapes
<1>3. entry'[d] # NoEntry /\ entry'[d].mtime = m => entry'[d].names = N
  <2>1. CASE entry'[d] = entry[d]
    BY <2>1 DEF Held
  <2>2. CASE entry'[d] # entry[d]
    <3>1. /\ Unmodified(call[c].mtime, call[c].mtime2) /\ call[c].dir = d
          /\ entry'[d] = [mtime |-> call[c].mtime2, names |-> call[c].found]
      BY <2>2 DEF Publish, Right, Shapes
    <3> QED BY <3>1 DEF Publish, Unmodified, Held
  <2> QED BY <2>1, <2>2
<1>4. UNCHANGED fs
  BY DEF Publish
<1> QED BY <1>1, <1>2, <1>3, <1>4 DEF Held

\* What the scan of a directory does to the record of its call.
LEMMA ScanMoves ==
    ASSUME Right, NEW c \in Callers, call[c].pc = "scan", NEW todo, NEW found,
           call' = [call EXCEPT ![c] = [call[c] EXCEPT !.todo = todo, !.found = found]]
    PROVE  /\ call'[c] = [pc |-> "scan", dir |-> call[c].dir, mtime |-> call[c].mtime,
                          todo |-> todo, found |-> found]
           /\ \A x \in Callers \ {c} : call'[x] = call[x]
<1>1. PICK e, m, td, fd : call[c] = [pc |-> "scan", dir |-> e, mtime |-> m, todo |-> td, found |-> fd]
  BY DEF Right, Shapes, IsScan
<1>2. [call[c] EXCEPT !.todo = todo, !.found = found]
        = [pc |-> "scan", dir |-> e, mtime |-> m, todo |-> todo, found |-> found]
  <2>1. [call[c] EXCEPT !.todo = todo]
          = [pc |-> "scan", dir |-> e, mtime |-> m, todo |-> todo, found |-> fd]
    BY <1>1
  <2>2. [[pc |-> "scan", dir |-> e, mtime |-> m, todo |-> todo, found |-> fd]
           EXCEPT !.found = found]
          = [pc |-> "scan", dir |-> e, mtime |-> m, todo |-> todo, found |-> found]
    OBVIOUS
  <2> QED BY <2>1, <2>2
<1> QED BY <1>1, <1>2 DEF Right, Shapes

\* The names a scan has found and the ones it has yet to get to.
LEMMA ScanFinds ==
    ASSUME Right, NEW c \in Callers, NEW n, Scan(c, n)
    PROVE  /\ call'[c] = [pc |-> "scan", dir |-> call[c].dir, mtime |-> call[c].mtime,
                          todo |-> call[c].todo \ {n},
                          found |-> call[c].found \cup ({n} \cap NamesOf(call[c].dir))]
           /\ \A x \in Callers \ {c} : call'[x] = call[x]
<1>1. PICK todo, found : /\ todo = call[c].todo \ {n}
                         /\ found = call[c].found \cup ({n} \cap NamesOf(call[c].dir))
  OBVIOUS
<1>2. call' = [call EXCEPT ![c].todo = todo, ![c].found = found]
  BY <1>1 DEF Scan, Right, Shapes
<1>3. call' = [call EXCEPT ![c] = [call[c] EXCEPT !.todo = todo, !.found = found]]
  BY <1>2 DEF Right, Shapes
<1>4. call[c].pc = "scan"
  BY DEF Scan
<1> QED BY <1>1, <1>3, <1>4, ScanMoves

LEMMA ScanStops ==
    ASSUME Right, NEW c \in Callers, ScanEnds(c)
    PROVE  /\ call'[c] = [pc |-> "scan", dir |-> call[c].dir, mtime |-> call[c].mtime,
                          todo |-> {}, found |-> call[c].found]
           /\ \A x \in Callers \ {c} : call'[x] = call[x]
<1>1. PICK e, m, td, fd : call[c] = [pc |-> "scan", dir |-> e, mtime |-> m, todo |-> td, found |-> fd]
  BY DEF ScanEnds, Right, Shapes, IsScan
<1>2. call' = [call EXCEPT ![c] = [call[c] EXCEPT !.todo = {}]]
  BY DEF ScanEnds, Right, Shapes
<1>3. [call[c] EXCEPT !.todo = {}] = [pc |-> "scan", dir |-> e, mtime |-> m, todo |-> {}, found |-> fd]
  BY <1>1
<1> QED BY <1>1, <1>2, <1>3 DEF Right, Shapes

\* Every step of listdir() leaves what was held as it is.
LEMMA HeldAfterListdir ==
    ASSUME Right, NEW c \in Callers, ListdirStep(c),
           NEW d \in Dirs, NEW m, NEW N, Held(d, m, N)
    PROVE  Held(d, m, N)'
<1>1. CASE Stat(c)
  BY <1>1, HeldKept DEF Stat, Raise, Idle
<1>2. CASE Lookup(c)
  BY <1>2, HeldKept DEF Lookup, Return, Idle
<1>3. CASE ScanFails(c)
  BY <1>3, HeldKept DEF ScanFails, Raise, Idle
<1>4. CASE ScanEnds(c) \/ \E n \in Names : Scan(c, n)
  <2>1. /\ call'[c].pc = "scan" /\ UNCHANGED <<fs, entry>>
        /\ \A x \in Callers \ {c} : call'[x] = call[x]
    <3>1. UNCHANGED <<fs, entry>>
      BY <1>4 DEF ScanEnds, Scan
    <3>2. CASE ScanEnds(c)
      <4>1. \A x \in Callers \ {c} : call'[x] = call[x]
        BY <3>2, ScanStops
      <4>2. call'[c] = [pc |-> "scan", dir |-> call[c].dir, mtime |-> call[c].mtime,
                        todo |-> {}, found |-> call[c].found]
        BY <3>2, ScanStops
      <4> QED BY <3>1, <4>1, <4>2
    <3>3. ASSUME NEW n \in Names, Scan(c, n)
          PROVE  call'[c].pc = "scan" /\ \A x \in Callers \ {c} : call'[x] = call[x]
      <4>1. \A x \in Callers \ {c} : call'[x] = call[x]
        BY <3>3, ScanFinds
      <4>2. call'[c] = [pc |-> "scan", dir |-> call[c].dir, mtime |-> call[c].mtime,
                        todo |-> call[c].todo \ {n},
                        found |-> call[c].found \cup ({n} \cap NamesOf(call[c].dir))]
        BY <3>3, ScanFinds
      <4> QED BY <4>1, <4>2
    <3> QED BY <1>4, <3>1, <3>2, <3>3
  <2> QED BY <2>1 DEF Held
<1> QED BY <1>1, <1>2, <1>3, <1>4, HeldAfterRestat, HeldAfterPublish DEF ListdirStep

\* A call that somebody else's step leaves alone.
LEMMA OtherHeard ==
    ASSUME Right, NEW t \in Threads, Heard(t), call'[t] = call[t],
           UNCHANGED <<fs, always, ever>>,
           \A d \in Dirs : \A m, N : Held(d, m, N) => Held(d, m, N)'
    PROVE  Heard(t)'
<1>1. \A names : Between(t, names) => Between(t, names)'
  BY DEF Between
<1>2. \A d : NamesOf(d)' = NamesOf(d)
  BY DEF NamesOf
<1> QED BY <1>1, <1>2 DEF Heard, Busy

LEMMA ListdirHeard ==
    ASSUME Right, Regular, NEW c \in Callers, ListdirStep(c)
    PROVE  Regular'
<1>p. PICK D : D = call[c].dir
  OBVIOUS
<1>0. UNCHANGED <<fs, always, ever>>
  BY DEF ListdirStep, Stat, Lookup, Scan, ScanFails, ScanEnds, Restat, Publish, history
<1>a. \A d \in Dirs : \A m, N : Held(d, m, N) => Held(d, m, N)'
  BY HeldAfterListdir
<1>b. \A names : Between(c, names) => Between(c, names)'
  BY <1>p, <1>0 DEF Between
<1>c. \A x \in Callers \ {c} : call'[x] = call[x]
  <2>1. ASSUME NEW r, Goto(c, r) PROVE \A x \in Callers \ {c} : call'[x] = call[x]
    BY <1>p, <2>1 DEF Goto, Right, Shapes
  <2>2. CASE ScanEnds(c) \/ \E n \in Names : Scan(c, n)
    BY <2>2, ScanFinds, ScanStops
  <2> QED BY <1>p, <2>1, <2>2 DEF ListdirStep, Stat, Lookup, ScanFails, Restat, Publish, Return, Raise
<1>d. NamesOf(D)' = NamesOf(D)
  BY <1>p, <1>0 DEF NamesOf
<1>1. ASSUME c \in Threads PROVE Heard(c)'
  <2>0. c # Monitor /\ Heard(c)
    BY <1>p, <1>1, MonitorAssumption DEF MonitorAssumption, Regular
  <2>1. CASE Stat(c)
    <3>1. CASE /\ fs[D].there
               /\ Goto(c, [pc |-> "lookup", dir |-> D, mtime |-> fs[D].mtime])
      <4>1. call'[c] = [pc |-> "lookup", dir |-> D, mtime |-> fs[D].mtime]
        BY <1>p, <3>1 DEF Goto, Right, Shapes
      <4>2. D \in Dirs /\ Between(c, fs[D].names)
        BY <1>p, <2>0, <2>1, <3>1 DEF Stat, Heard, Busy, NamesOf
      <4>3. Held(D, fs[D].mtime, fs[D].names)
        <5>1. EntryRight(D) /\ \A x \in Callers : CallRight(x, D)
          BY <4>2, RightNow
        <5> QED BY <1>p, <3>1, <5>1 DEF Held, EntryRight, CallRight
      <4>4. PICK m, N : m = fs[D].mtime /\ N = fs[D].names
        OBVIOUS
      <4>5. Between(c, N)' /\ Held(D, m, N)'
        BY <1>a, <1>b, <4>2, <4>3, <4>4
      <4>6. Between(c, NamesOf(D))'
        BY <1>p, <1>b, <1>d, <3>1, <4>2 DEF NamesOf
      <4> QED BY <1>p, <4>1, <4>2, <4>4, <4>5, <4>6 DEF Heard, Busy
    <3>2. CASE Raise(c)
      BY <1>p, <2>0, <3>2 DEF Raise, Goto, Idle, Right, Shapes, Heard, Busy
    <3> QED BY <1>p, <2>1, <3>1, <3>2 DEF Stat
  <2>2. CASE Lookup(c)
    <3>1. CASE Hit(D, call[c].mtime) /\ Return(c, entry[D].names, FALSE)
      <4>1. call'[c] = [pc |-> "done", dir |-> D, found |-> entry[D].names]
        BY <1>p, <2>0, <3>1 DEF Return, Goto, Right, Shapes
      <4>2. D \in Dirs /\ Between(c, entry[D].names)
        BY <1>p, <2>0, <2>2, <3>1 DEF Lookup, Hit, Heard, Busy, Held
      <4> QED BY <1>p, <1>b, <4>1, <4>2 DEF Heard, Busy
    <3>2. CASE Goto(c, [pc |-> "scan", dir |-> D, mtime |-> call[c].mtime,
                        todo |-> Names, found |-> {}])
      <4>1. call'[c] = [pc |-> "scan", dir |-> D, mtime |-> call[c].mtime,
                        todo |-> Names, found |-> {}]
        BY <1>p, <3>2 DEF Goto, Right, Shapes
      <4>2. D \in Dirs /\ Between(c, NamesOf(D))
        BY <1>p, <2>0, <2>2 DEF Lookup, Heard, Busy
      <4>3. NamesOf(D) \subseteq Names
        BY <1>p, <4>2, RightNow DEF NamesOf
      <4>4. Between(c, NamesOf(D))'
        BY <1>b, <1>d, <4>2
      <4> QED BY <1>p, <1>0, <4>1, <4>2, <4>3, <4>4 DEF Heard, Busy, Between
    <3> QED BY <1>p, <2>2, <3>1, <3>2 DEF Lookup
  <2>3. CASE ScanFails(c)
    BY <1>p, <2>0, <2>3 DEF ScanFails, Raise, Goto, Idle, Right, Shapes, Heard, Busy
  <2>4. ASSUME call[c].pc = "scan", NEW todo, NEW found,
               call'[c] = [pc |-> "scan", dir |-> D, mtime |-> call[c].mtime,
                           todo |-> todo, found |-> found],
               always[c] \subseteq found \cup todo, found \subseteq ever[c]
        PROVE  Heard(c)'
    <3>1. D \in Dirs /\ Between(c, NamesOf(D))
      BY <1>p, <2>0, <2>4 DEF Heard, Busy
    <3>2. Between(c, NamesOf(D))'
      BY <1>b, <1>d, <3>1
    <3> QED BY <1>p, <1>0, <2>4, <3>1, <3>2 DEF Heard, Busy
  <2>5. ASSUME NEW n \in Names, Scan(c, n) PROVE Heard(c)'
    <3>1. /\ Between(c, NamesOf(D)) /\ call[c].found \subseteq ever[c]
          /\ always[c] \subseteq call[c].found \cup call[c].todo
      BY <1>p, <2>0, <2>5 DEF Scan, Heard, Busy
    <3>2. PICK todo, found : /\ todo = call[c].todo \ {n}
                             /\ found = call[c].found \cup ({n} \cap NamesOf(D))
      OBVIOUS
    <3>3. call'[c] = [pc |-> "scan", dir |-> D, mtime |-> call[c].mtime,
                      todo |-> todo, found |-> found]
      BY <1>p, <2>5, <3>2, ScanFinds
    <3>4. call[c].pc = "scan" /\ always[c] \subseteq found \cup todo /\ found \subseteq ever[c]
      BY <2>5, <3>1, <3>2 DEF Scan, Between
    <3> QED BY <2>4, <3>3, <3>4
  <2>6. CASE ScanEnds(c)
    <3>1. /\ Between(c, NamesOf(D)) /\ call[c].found \subseteq ever[c]
          /\ NamesOf(D) = {}
      BY <1>p, <2>0, <2>6 DEF ScanEnds, Heard, Busy, NamesOf
    <3>2. PICK todo, found : todo = {} /\ found = call[c].found
      OBVIOUS
    <3>3. call'[c] = [pc |-> "scan", dir |-> D, mtime |-> call[c].mtime,
                      todo |-> todo, found |-> found]
      BY <1>p, <2>6, <3>2, ScanStops
    <3>4. call[c].pc = "scan" /\ always[c] \subseteq found \cup todo /\ found \subseteq ever[c]
      BY <2>6, <3>1, <3>2 DEF ScanEnds, Between
    <3> QED BY <2>4, <3>3, <3>4
  <2>7. CASE Restat(c)
    <3>1. CASE Goto(c, [pc |-> "publish", dir |-> D, mtime |-> call[c].mtime,
                        mtime2 |-> fs[D].mtime, found |-> call[c].found])
      <4>1. call'[c] = [pc |-> "publish", dir |-> D, mtime |-> call[c].mtime,
                        mtime2 |-> fs[D].mtime, found |-> call[c].found]
        BY <1>p, <3>1 DEF Goto, Right, Shapes
      <4>2. D \in Dirs /\ Between(c, NamesOf(D)) /\ Between(c, call[c].found)
        BY <1>p, <2>0, <2>7 DEF Restat, Heard, Busy, Between
      <4>3. PICK found : found = call[c].found
        OBVIOUS
      <4>4. Between(c, NamesOf(D))' /\ Between(c, found)'
        BY <1>b, <1>d, <4>2, <4>3
      <4> QED BY <4>1, <4>2, <4>3, <4>4 DEF Heard, Busy
    <3>2. CASE Raise(c)
      BY <1>p, <2>0, <3>2 DEF Raise, Goto, Idle, Right, Shapes, Heard, Busy
    <3> QED BY <1>p, <2>7, <3>1, <3>2 DEF Restat
  <2>8. CASE Publish(c)
    <3>1. call'[c] = [pc |-> "done", dir |-> D, found |-> call[c].found]
      BY <1>p, <2>0, <2>8 DEF Publish, Return, Goto, Right, Shapes
    <3>2. D \in Dirs /\ Between(c, call[c].found)
      BY <1>p, <2>0, <2>8 DEF Publish, Heard, Busy
    <3> QED BY <1>p, <1>b, <3>1, <3>2 DEF Heard, Busy
  <2> QED BY <1>p, <2>1, <2>2, <2>3, <2>5, <2>6, <2>7, <2>8 DEF ListdirStep
<1>2. ASSUME NEW t \in Threads, t # c PROVE Heard(t)'
  <2>1. Heard(t) /\ call'[t] = call[t]
    BY <1>p, <1>2, <1>c DEF Regular, Callers
  <2> QED BY <1>0, <1>a, <2>1, OtherHeard
<1>3. \A t \in Threads : Heard(t)'
  BY <1>1, <1>2
<1> QED BY <1>p, <1>0, <1>3 DEF Regular

LEMMA ChangeHeard ==
    ASSUME Right, Regular, NEW d \in Dirs, NEW there \in BOOLEAN, NEW names \in SUBSET Names,
           Change(d, there, names)
    PROVE  Regular'
<1>1. UNCHANGED <<entry, call>>
  BY DEF Change
<1>2. ASSUME NEW t \in Threads PROVE Heard(t)'
  <2>0. Heard(t) /\ t \in Callers
    BY DEF Regular, Callers
  <2>1. ASSUME call[t].pc = "lookup"
        PROVE  \A N : Held(call[t].dir, call[t].mtime, N) => Held(call[t].dir, call[t].mtime, N)'
    <3>1. call[t].dir \in Dirs
      BY <2>0, <2>1 DEF Heard, Busy
    <3>2. call[t].mtime \in Nat /\ call[t].mtime <= fs[call[t].dir].mtime
      BY <2>0, <2>1, <3>1, RightNow DEF CallRight
    <3>3. PICK D, m : D = call[t].dir /\ m = call[t].mtime
      OBVIOUS
    <3>4. ASSUME NEW N, Held(D, m, N) PROVE Held(D, m, N)'
      BY <3>1, <3>2, <3>3, <3>4, HeldAfterChange
    <3> QED BY <1>1, <3>3, <3>4
  <2>2. CASE call[t].pc \in Busy /\ call[t].dir = d
    <3> DEFINE now == IF there THEN names ELSE {}
    <3>1. always'[t] = always[t] \cap now /\ ever'[t] = ever[t] \cup now
      BY <2>2 DEF Change, Idle, Busy
    <3>2. NamesOf(d)' = now
      BY DEF Change, NamesOf, Right, Shapes
    <3>3. \A s : Between(t, s) => Between(t, s)'
      BY <3>1 DEF Between
    <3>4. Between(t, NamesOf(d))'
      BY <3>1, <3>2 DEF Between
    <3> QED BY <1>1, <2>0, <2>1, <2>2, <3>1, <3>3, <3>4 DEF Heard, Busy
  <2>3. CASE call[t].pc \in Busy /\ call[t].dir # d
    <3>1. always'[t] = always[t] /\ ever'[t] = ever[t]
      BY <2>3 DEF Change
    <3>2. call[t].dir \in Dirs /\ fs'[call[t].dir] = fs[call[t].dir]
      BY <2>0, <2>3 DEF Heard, Change, Right, Shapes
    <3>3. \A s : Between(t, s) => Between(t, s)'
      BY <3>1 DEF Between
    <3>4. NamesOf(call[t].dir)' = NamesOf(call[t].dir)
      BY <1>1, <3>2 DEF NamesOf
    <3> QED BY <1>1, <2>0, <2>1, <3>1, <3>3, <3>4 DEF Heard, Busy
  <2>4. CASE call[t].pc \notin Busy
    BY <1>1, <2>4 DEF Heard, Busy
  <2> QED BY <2>2, <2>3, <2>4
<1>3. /\ always' = [t \in Threads |-> always'[t]]
      /\ ever' = [t \in Threads |-> ever'[t]]
  BY DEF Change
<1> QED BY <1>2, <1>3 DEF Regular

\* A call begins, or is over: nothing is read, and no other call is touched.
LEMMA CallerHeard ==
    ASSUME Right, Regular, NEW t \in Threads, Answered(t) \/ \E d \in Dirs : Listdir(t, d)
    PROVE  Regular'
<1>0. UNCHANGED <<fs, entry, order>> /\ t \in Callers
  BY DEF Answered, Listdir, Callers
<1>1. \E r : Goto(t, r) /\ r.pc # "publish"
  <2>1. CASE Answered(t)
    BY <2>1 DEF Answered, Idle
  <2>2. ASSUME NEW d \in Dirs, Listdir(t, d) PROVE \E r : Goto(t, r) /\ r.pc # "publish"
    BY <2>2 DEF Listdir
  <2> QED BY <2>1, <2>2
<1>2. \A d \in Dirs : \A m, N : Held(d, m, N) => Held(d, m, N)'
  BY <1>0, <1>1, HeldKept
<1>3. \A x \in Callers \ {t} : call'[x] = call[x]
  BY <1>1 DEF Goto, Right, Shapes
<1>4. \A x \in Threads \ {t} : always'[x] = always[x] /\ ever'[x] = ever[x]
  BY DEF Answered, Listdir, Regular
<1>5. Heard(t)'
  <2>1. CASE Answered(t)
    BY <1>0, <2>1 DEF Answered, Goto, Idle, Right, Shapes, Heard, Busy
  <2>2. ASSUME NEW d \in Dirs, Listdir(t, d) PROVE Heard(t)'
    <3>1. call'[t] = [pc |-> "stat", dir |-> d]
      BY <1>0, <2>2 DEF Listdir, Goto, Right, Shapes
    <3>2. always'[t] = NamesOf(d) /\ ever'[t] = NamesOf(d) /\ NamesOf(d)' = NamesOf(d)
      BY <1>0, <2>2 DEF Listdir, Regular, NamesOf
    <3> QED BY <3>1, <3>2 DEF Heard, Busy, Between
  <2> QED BY <2>1, <2>2
<1>6. ASSUME NEW x \in Threads, x # t PROVE Heard(x)'
  <2>1. Heard(x) /\ call'[x] = call[x] /\ always'[x] = always[x] /\ ever'[x] = ever[x]
    BY <1>3, <1>4, <1>6 DEF Regular, Callers
  <2>2. \A s : Between(x, s) => Between(x, s)'
    BY <2>1 DEF Between
  <2>3. \A d : NamesOf(d)' = NamesOf(d)
    BY <1>0 DEF NamesOf
  <2> QED BY <1>2, <2>1, <2>2, <2>3 DEF Heard, Busy
<1>7. /\ always' = [x \in Threads |-> always'[x]]
      /\ ever' = [x \in Threads |-> ever'[x]]
  BY DEF Answered, Listdir, Regular
<1> QED BY <1>5, <1>6, <1>7 DEF Regular

\* The background thread's own steps touch no request.
LEMMA RunHeard ==
    ASSUME Right, Regular, RunStep
    PROVE  Regular'
<1>0. UNCHANGED <<fs, always, ever>> /\ Monitor \in Callers
  BY DEF RunStep, BeginCycle, RefreshNext, Forget, EndCycle, EndCycleRaises, history, Callers
<1>1. CASE UNCHANGED <<entry, call>>
  <2>1. \A d \in Dirs : \A m, N : Held(d, m, N) => Held(d, m, N)'
    BY <1>0, <1>1 DEF Held
  <2> QED BY <1>0, <1>1, <2>1, OtherHeard DEF Regular
<1>2. CASE RefreshNext \/ Forget
  <2>1. PICK r : Goto(Monitor, r) /\ r.pc # "publish"
    BY <1>2 DEF RefreshNext, Forget, Idle
  <2>2. UNCHANGED <<entry, order>> \/ \E e : RemovePath(e)
    BY <1>2 DEF RefreshNext, Forget
  <2>3. \A d \in Dirs : \A m, N : Held(d, m, N) => Held(d, m, N)'
    BY <1>0, <2>1, <2>2, HeldKept
  <2>4. \A t \in Threads : call'[t] = call[t]
    BY <2>1, MonitorAssumption DEF MonitorAssumption, Goto, Right, Shapes, Callers
  <2> QED BY <1>0, <2>3, <2>4, OtherHeard DEF Regular
<1> QED BY <1>1, <1>2 DEF RunStep, BeginCycle, EndCycle, EndCycleRaises

\* Whatever changes while a request lists a directory, and whether it is answered
\* from the table or not: a name that was there all the time is in the answer, and
\* every name of the answer was there at some time.
THEOREM RegularListings == Spec => []RegularListing
<1>1. Init => Right
  <2> SUFFICES ASSUME Init PROVE Right
    OBVIOUS
  <2>1. fs \in [Dirs -> [there : BOOLEAN, mtime : Mtime, names : SUBSET Names]]
    BY Bounds DEF Init, Mtime
  <2>2. Shapes
    BY <2>1 DEF Init, Shapes, Idle
  <2> QED BY <2>2 DEF Init, Idle, Right, EntryRight, CallRight
<1>2. Init => Regular
  BY DEF Init, Idle, Callers, Regular, Heard, Busy
<1>3. Right /\ Regular /\ [Next]_vars => Right' /\ Regular'
  <2> SUFFICES ASSUME Right, Regular, [Next]_vars PROVE Regular'
    BY RightStep
  <2>1. CASE UNCHANGED vars
    <3>1. \A d \in Dirs : \A m, N : Held(d, m, N) => Held(d, m, N)'
      BY <2>1 DEF vars, Held
    <3> QED BY <2>1, <3>1, OtherHeard DEF vars, Regular
  <2> QED BY <2>1, ListdirHeard, ChangeHeard, CallerHeard, RunHeard DEF Next
<1>4. Regular => RegularListing
  BY DEF Regular, Heard, Busy, Between, RegularListing
<1> QED BY <1>1, <1>2, <1>3, <1>4, PTL DEF Spec

-----------------------------------------------------------------------------
(***************************************************************************)
(* Types                                                                   *)
(***************************************************************************)
\* The paths of the table are those of its order, each once.
Keyed ==
    /\ \A i, j \in DOMAIN order : order[i] = order[j] => i = j
    /\ \A d \in Dirs : IsKey(d) => entry[d] # NoEntry

\* The background thread is in a call while the batch of its cycle has that path.
Awake == call[Monitor].pc \in {"idle", "failed"} \cup (Busy \ {"done"})
         /\ (call[Monitor] # Idle => cycle.pc = "batch" /\ cycle.batch # <<>>)

Typed == TypeOK /\ Keyed /\ Awake

\* The keys that remain: one is left out, the others keep their order.
LEMMA OneLess ==
    ASSUME NEW s \in Seq(Dirs), NEW i \in 1..Len(s)
    PROVE  /\ RemoveAt(s, i) \in Seq(Dirs) /\ Len(RemoveAt(s, i)) = Len(s) - 1
           /\ \A k \in 1..(Len(s) - 1) : RemoveAt(s, i)[k] = IF k < i THEN s[k] ELSE s[k + 1]
<1> DEFINE a == SubSeq(s, 1, i - 1)
           b == SubSeq(s, i + 1, Len(s))
<1>0. Len(s) \in Nat /\ \A k \in 1..Len(s) : s[k] \in Dirs
  BY ElementOfSeq, LenProperties
<1>1. /\ a \in Seq(Dirs) /\ Len(a) = i - 1
      /\ \A k \in 1..(i - 1) : a[k] = s[k]
  <2>1. \A k \in 1..(i - 1) : s[k] \in Dirs
    BY <1>0
  <2>2. 1 \in Int /\ i - 1 \in Int
    BY <1>0
  <2>3. /\ a \in Seq(Dirs) /\ Len(a) = IF 1 <= i - 1 THEN (i - 1) - 1 + 1 ELSE 0
        /\ \A k \in 1..((i - 1) - 1 + 1) : a[k] = s[1 + k - 1]
    BY <2>1, <2>2, SubSeqProperties
  <2> HIDE DEF a
  <2> QED BY <1>0, <2>3
<1>2. /\ b \in Seq(Dirs) /\ Len(b) = Len(s) - i
      /\ \A k \in 1..(Len(s) - i) : b[k] = s[i + k]
  <2>1. \A k \in (i + 1)..Len(s) : s[k] \in Dirs
    BY <1>0
  <2>2. i + 1 \in Int /\ Len(s) \in Int
    BY <1>0
  <2>3. /\ b \in Seq(Dirs) /\ Len(b) = IF i + 1 <= Len(s) THEN Len(s) - (i + 1) + 1 ELSE 0
        /\ \A k \in 1..(Len(s) - (i + 1) + 1) : b[k] = s[(i + 1) + k - 1]
    BY <2>1, <2>2, SubSeqProperties
  <2> HIDE DEF b
  <2> QED BY <1>0, <2>3
<1> HIDE DEF a, b
<1>3. /\ a \o b \in Seq(Dirs) /\ Len(a \o b) = Len(a) + Len(b)
      /\ \A k \in 1..(Len(a) + Len(b)) : (a \o b)[k] = IF k <= Len(a) THEN a[k] ELSE b[k - Len(a)]
  BY <1>1, <1>2, ConcatProperties
<1>4. RemoveAt(s, i) = a \o b
  BY DEF RemoveAt, a, b
<1>5. ASSUME NEW k \in 1..(Len(s) - 1)
      PROVE  (a \o b)[k] = IF k < i THEN s[k] ELSE s[k + 1]
  <2>1. k \in 1..(Len(a) + Len(b)) /\ (k <= Len(a) <=> k < i)
    BY <1>0, <1>1, <1>2
  <2>2. CASE k < i
    BY <1>0, <1>1, <1>3, <2>1, <2>2
  <2>3. CASE ~(k < i)
    <3>1. (a \o b)[k] = b[k - (i - 1)]
      BY <1>1, <1>3, <2>1, <2>3
    <3>2. k - (i - 1) \in 1..(Len(s) - i) /\ i + (k - (i - 1)) = k + 1
      BY <1>0, <2>3
    <3> QED BY <1>2, <2>3, <3>1, <3>2
  <2> QED BY <2>2, <2>3
<1> QED BY <1>0, <1>1, <1>2, <1>3, <1>4, <1>5

LEMMA RemovePathTyped ==
    ASSUME Typed, NEW d \in Dirs, RemovePath(d)
    PROVE  /\ entry' \in [Dirs -> Listing \cup {NoEntry}] /\ order' \in Seq(Dirs)
           /\ Keyed'
<1>1. /\ entry' = [entry EXCEPT ![d] = NoEntry] /\ entry' \in [Dirs -> Listing \cup {NoEntry}]
      /\ order \in Seq(Dirs) /\ DOMAIN order = 1..Len(order) /\ Len(order) \in Nat
  BY LenProperties DEF RemovePath, Typed, TypeOK
<1>2. \A e \in Dirs \ {d} : entry'[e] = entry[e]
  BY <1>1 DEF Typed, TypeOK
<1>3. CASE ~IsKey(d)
  <2>1. order' = order
    BY <1>3 DEF RemovePath
  <2>2. \A e \in Dirs : IsKey(e)' => IsKey(e) /\ e # d
    BY <1>3, <2>1 DEF IsKey
  <2> QED BY <1>1, <1>2, <2>1, <2>2 DEF Typed, Keyed
<1>4. CASE IsKey(d)
  <2> DEFINE i == IndexOf(d)
             r == RemoveAt(order, i)
  <2>1. i \in 1..Len(order) /\ order[i] = d
    BY <1>1, <1>4 DEF IsKey, IndexOf
  <2>2. order' = r
    BY <1>4 DEF RemovePath
  <2> HIDE DEF i
  <2>3. /\ r \in Seq(Dirs) /\ Len(r) = Len(order) - 1
        /\ \A k \in 1..(Len(order) - 1) : r[k] = IF k < i THEN order[k] ELSE order[k + 1]
    BY <1>1, <2>1, OneLess
  <2> HIDE DEF r
  <2>4. DOMAIN r = 1..(Len(order) - 1)
    BY <2>3, LenProperties
  <2>5. \A x, y \in 1..Len(order) : order[x] = order[y] => x = y
    BY <1>1 DEF Typed, Keyed
  <2>6. ASSUME NEW x \in DOMAIN r, NEW y \in DOMAIN r, r[x] = r[y] PROVE x = y
    <3> DEFINE old(k) == IF k < i THEN k ELSE k + 1
    <3>1. /\ old(x) \in 1..Len(order) /\ old(y) \in 1..Len(order)
          /\ r[x] = order[old(x)] /\ r[y] = order[old(y)]
      BY <1>1, <2>1, <2>3, <2>4
    <3>2. old(x) = old(y)
      <4> HIDE DEF old
      <4> QED BY <2>5, <2>6, <3>1
    <3> QED BY <1>1, <2>1, <2>4, <3>2
  <2>7. ASSUME NEW e \in Dirs, NEW k \in DOMAIN r, r[k] = e PROVE IsKey(e) /\ e # d
    <3>1. /\ k \in 1..Len(order) /\ k + 1 \in 1..Len(order)
          /\ r[k] = IF k < i THEN order[k] ELSE order[k + 1]
      BY <1>1, <2>3, <2>4
    <3>2. IsKey(e)
      BY <1>1, <2>7, <3>1 DEF IsKey
    <3>3. e # d
      BY <1>1, <2>1, <2>5, <2>7, <3>1
    <3> QED BY <3>2, <3>3
  <2>8. \A e \in Dirs : IsKey(e)' => IsKey(e) /\ e # d
    BY <2>2, <2>7 DEF IsKey
  <2>9. Keyed'
    BY <1>2, <2>2, <2>6, <2>8 DEF Typed, Keyed
  <2> QED BY <1>1, <2>2, <2>3, <2>9
<1> QED BY <1>3, <1>4

\* What a call holds, by where it is.
LEMMA CallTypes ==
    ASSUME Typed, NEW c \in Callers
    PROVE  /\ call[c] \in Call
           /\ call[c].pc \in {"stat", "failed"} => call[c].dir \in Dirs
           /\ call[c].pc = "lookup" => call[c].dir \in Dirs /\ call[c].mtime \in Mtime
           /\ call[c].pc = "scan" =>
                call[c] \in [pc : {"scan"}, dir : Dirs, mtime : Mtime, todo : SUBSET Names,
                             found : SUBSET Names]
           /\ call[c].pc = "publish" =>
                call[c] \in [pc : {"publish"}, dir : Dirs, mtime : Mtime, mtime2 : Mtime,
                             found : SUBSET Names]
           /\ call[c].pc \in {"idle", "failed"} \cup Busy
BY DEF Typed, TypeOK, Call, Idle, Busy

\* The steps of a call that leave the table or drop a path of it, and do not return.
LEMMA StepTyped ==
    ASSUME Typed, NEW c \in Callers, NEW r \in Call, Goto(c, r),
           r = Idle => c # Monitor, r.pc # "done",
           c = Monitor => call[c] # Idle,
           UNCHANGED <<fs, cycle, idx, history>>,
           UNCHANGED <<entry, order>> \/ \E d \in Dirs : RemovePath(d)
    PROVE  Typed'
<1>1. /\ entry' \in [Dirs -> Listing \cup {NoEntry}] /\ order' \in Seq(Dirs) /\ Keyed'
  <2>1. CASE UNCHANGED <<entry, order>>
    BY <2>1 DEF Typed, TypeOK, Keyed, IsKey
  <2> QED BY <2>1, RemovePathTyped
<1>2. call' \in [Callers -> Call] /\ call'[c] = r /\ \A x \in Callers \ {c} : call'[x] = call[x]
  BY DEF Goto, Typed, TypeOK
<1>3. TypeOK'
  BY <1>1, <1>2 DEF Typed, TypeOK, history
<1>4. r.pc \in {"idle", "failed"} \cup Busy
  BY DEF Call, Idle, Busy
<1>5. Monitor \in Callers
  BY DEF Callers
<1>6. r.pc = "idle" => r = Idle
  BY DEF Call, Idle
<1>7. Awake'
  BY <1>2, <1>4, <1>5, <1>6 DEF Typed, Awake
<1> QED BY <1>1, <1>3, <1>7 DEF Typed

\* A call returns the names found to a request, and to run() that it is over.
LEMMA ReturnTyped ==
    ASSUME Typed, NEW c \in Callers, call[c].pc \in {"lookup", "publish"},
           NEW names \in SUBSET Names, NEW refreshed \in BOOLEAN, Return(c, names, refreshed)
    PROVE  call' \in [Callers -> Call] /\ cycle' \in Cycle /\ Awake'
<1>0. call[c].dir \in Dirs /\ Monitor \in Callers
  BY CallTypes DEF Callers
<1>1. CASE c = Monitor
  <2>1. call' = [call EXCEPT ![c] = Idle] /\ Idle \in Call
    BY <1>1 DEF Return, Goto, Call
  <2>2. cycle \in [pc : {"batch"}, batch : Seq(Dirs), last : Dirs \cup {NoDir}] /\ cycle.batch # <<>>
    BY <1>1 DEF Typed, TypeOK, Awake, Cycle, Sleeping, Dead, Idle
  <2>3. Tail(cycle.batch) \in Seq(Dirs)
    BY <2>2, HeadTailProperties
  <2>4. cycle' = [cycle EXCEPT !.batch = Tail(cycle.batch),
                               !.last = IF refreshed THEN call[c].dir ELSE cycle.last]
    BY <1>1 DEF Return
  <2>5. cycle' \in [pc : {"batch"}, batch : Seq(Dirs), last : Dirs \cup {NoDir}]
    BY <1>0, <2>2, <2>3, <2>4
  <2>6. call' \in [Callers -> Call] /\ call'[Monitor] = Idle
    BY <1>0, <1>1, <2>1 DEF Typed, TypeOK
  <2> QED BY <2>5, <2>6 DEF Cycle, Awake, Idle
<1>2. CASE c # Monitor
  <2>1. /\ call' = [call EXCEPT ![c] = [pc |-> "done", dir |-> call[c].dir, found |-> names]]
        /\ cycle' = cycle
    BY <1>2 DEF Return, Goto
  <2>2. [pc |-> "done", dir |-> call[c].dir, found |-> names] \in Call
    BY <1>0 DEF Call
  <2>3. call' \in [Callers -> Call] /\ call'[Monitor] = call[Monitor]
    BY <1>0, <1>2, <2>1, <2>2 DEF Typed, TypeOK
  <2> QED BY <2>1, <2>3 DEF Typed, TypeOK, Awake
<1> QED BY <1>1, <1>2

\* A listing that is published puts its path behind the others, if it is not there.
LEMMA PublishTyped ==
    ASSUME Typed, NEW c \in Callers, Publish(c)
    PROVE  Typed'
<1> DEFINE d == call[c].dir
<1>1. call[c] \in [pc : {"publish"}, dir : Dirs, mtime : Mtime, mtime2 : Mtime, found : SUBSET Names]
  BY CallTypes DEF Publish
<1>2. call' \in [Callers -> Call] /\ cycle' \in Cycle /\ Awake'
  BY <1>1, ReturnTyped DEF Publish
<1>3. order \in Seq(Dirs) /\ DOMAIN order = 1..Len(order) /\ Len(order) \in Nat /\ d \in Dirs
  BY <1>1, LenProperties DEF Typed, TypeOK
<1>4. CASE ~Unmodified(call[c].mtime, call[c].mtime2)
  BY <1>2, <1>4 DEF Publish, Typed, TypeOK, Keyed, IsKey, history
<1>5. CASE Unmodified(call[c].mtime, call[c].mtime2)
  <2>1. entry' = [entry EXCEPT ![d] = [mtime |-> call[c].mtime2, names |-> call[c].found]]
        /\ order' = IF entry[d] = NoEntry THEN Append(order, d) ELSE order
    BY <1>5 DEF Publish
  <2>2. [mtime |-> call[c].mtime2, names |-> call[c].found] \in Listing
    BY <1>1 DEF Listing
  <2>3. \A l \in Listing : l # NoEntry
    BY Bounds DEF Listing, NoEntry, Mtime
  <2>4. /\ entry' \in [Dirs -> Listing \cup {NoEntry}] /\ entry'[d] # NoEntry
        /\ \A e \in Dirs \ {d} : entry'[e] = entry[e]
    BY <1>3, <2>1, <2>2, <2>3 DEF Typed, TypeOK
  <2>5. CASE entry[d] # NoEntry
    <3>1. order' = order
      BY <2>1, <2>5
    <3>2. Keyed'
      BY <2>4, <3>1 DEF Typed, Keyed, IsKey
    <3> QED BY <1>2, <2>4, <3>1, <3>2 DEF Publish, Typed, TypeOK, history
  <2>6. CASE entry[d] = NoEntry
    <3>1. order' = Append(order, d)
      BY <2>1, <2>6
    <3>2. /\ order' \in Seq(Dirs) /\ Len(order') = Len(order) + 1
          /\ \A i \in 1..Len(order) : order'[i] = order[i]
          /\ order'[Len(order) + 1] = d
      BY <1>3, <3>1, AppendProperties
    <3>3. DOMAIN order' = 1..(Len(order) + 1)
      BY <3>2, LenProperties
    <3>4. \A i \in 1..Len(order) : order[i] # d
      BY <1>3, <2>6 DEF Typed, Keyed, IsKey
    <3>5. \A i, j \in DOMAIN order' : order'[i] = order'[j] => i = j
      BY <1>3, <3>2, <3>3, <3>4 DEF Typed, Keyed
    <3>6. \A e \in Dirs : IsKey(e)' => e = d \/ IsKey(e)
      BY <1>3, <3>2, <3>3 DEF IsKey
    <3>7. Keyed'
      BY <2>4, <3>5, <3>6 DEF Typed, Keyed
    <3> QED BY <1>2, <2>4, <3>2, <3>7 DEF Publish, Typed, TypeOK, history
  <2> QED BY <2>5, <2>6
<1> QED BY <1>4, <1>5

LEMMA ListdirTyped ==
    ASSUME Typed, NEW c \in Callers, ListdirStep(c)
    PROVE  Typed'
<1> DEFINE d == call[c].dir
<1>1. \A e \in Dirs : fs[e].mtime \in Mtime /\ NamesOf(e) \in SUBSET Names
  BY DEF Typed, TypeOK, NamesOf
<1>2. ASSUME d \in Dirs, call[c] # Idle, RemovePath(d), Raise(c), UNCHANGED <<fs, cycle, idx, history>>
      PROVE  Typed'
  <2> DEFINE r == IF c = Monitor THEN [pc |-> "failed", dir |-> d] ELSE Idle
  <2>1. r \in Call /\ r.pc # "done" /\ (r = Idle => c # Monitor) /\ Goto(c, r)
    BY <1>2 DEF Call, Idle, Raise
  <2> QED BY <1>2, <2>1, StepTyped
<1>3. CASE Stat(c)
  <2>1. d \in Dirs /\ call[c] # Idle
    BY <1>3, CallTypes DEF Stat, Idle
  <2>2. CASE /\ Goto(c, [pc |-> "lookup", dir |-> d, mtime |-> fs[d].mtime])
             /\ UNCHANGED <<fs, cycle, idx, history, entry, order>>
    <3>1. [pc |-> "lookup", dir |-> d, mtime |-> fs[d].mtime] \in Call
      BY <1>1, <2>1 DEF Call
    <3> QED BY <2>1, <2>2, <3>1, StepTyped DEF Idle
  <2> QED BY <1>2, <1>3, <2>1, <2>2 DEF Stat
<1>4. CASE Lookup(c)
  <2>1. d \in Dirs /\ call[c].mtime \in Mtime /\ call[c] # Idle /\ call[c].pc \in {"lookup", "publish"}
    BY <1>4, CallTypes DEF Lookup, Idle
  <2>2. CASE Hit(d, call[c].mtime)
    <3>1. entry[d].names \in SUBSET Names
      BY <2>1, <2>2 DEF Hit, Typed, TypeOK, Listing
    <3>2. Return(c, entry[d].names, FALSE)
      BY <1>4, <2>2 DEF Lookup
    <3>3. call' \in [Callers -> Call] /\ cycle' \in Cycle /\ Awake'
      BY <2>1, <3>1, <3>2, ReturnTyped
    <3> QED BY <1>4, <3>3 DEF Lookup, Typed, TypeOK, Keyed, IsKey, history
  <2>3. CASE ~Hit(d, call[c].mtime)
    <3>1. [pc |-> "scan", dir |-> d, mtime |-> call[c].mtime, todo |-> Names, found |-> {}] \in Call
      BY <2>1 DEF Call
    <3> QED BY <1>4, <2>1, <2>3, <3>1, StepTyped DEF Lookup, Idle
  <2> QED BY <2>2, <2>3
<1>5. CASE ScanFails(c)
  <2>1. d \in Dirs /\ call[c] # Idle
    BY <1>5, CallTypes DEF ScanFails, Idle
  <2> DEFINE r == IF c = Monitor THEN [pc |-> "failed", dir |-> d] ELSE Idle
  <2>2. r \in Call /\ r.pc # "done" /\ (r = Idle => c # Monitor) /\ Goto(c, r)
    BY <1>5, <2>1 DEF ScanFails, Call, Idle, Raise
  <2> QED BY <1>5, <2>1, <2>2, StepTyped DEF ScanFails
<1>6. ASSUME call[c].pc = "scan", NEW todo \in SUBSET Names, NEW found \in SUBSET Names,
             call' = [call EXCEPT ![c].todo = todo, ![c].found = found],
             UNCHANGED <<fs, entry, order, cycle, idx, history>>
      PROVE  Typed'
  <2>1. call[c] \in [pc : {"scan"}, dir : Dirs, mtime : Mtime, todo : SUBSET Names, found : SUBSET Names]
    BY <1>6, CallTypes
  <2> DEFINE r == [[call[c] EXCEPT !.todo = todo] EXCEPT !.found = found]
  <2>2. r \in [pc : {"scan"}, dir : Dirs, mtime : Mtime, todo : SUBSET Names, found : SUBSET Names]
    BY <2>1
  <2>3. Goto(c, r)
    BY <1>6 DEF Goto, Typed, TypeOK
  <2>4. r \in Call /\ r.pc = "scan"
    BY <2>2 DEF Call
  <2> HIDE DEF r
  <2> QED BY <1>6, <2>3, <2>4, StepTyped DEF Idle
<1>7. ASSUME NEW n \in Names, Scan(c, n) PROVE Typed'
  <2>1. call[c] \in [pc : {"scan"}, dir : Dirs, mtime : Mtime, todo : SUBSET Names, found : SUBSET Names]
    BY <1>7, CallTypes DEF Scan
  <2>2. call' = [call EXCEPT ![c].todo = call[c].todo \ {n},
                             ![c].found = call[c].found \cup ({n} \cap NamesOf(d))]
    BY <1>7 DEF Scan, Typed, TypeOK
  <2>3. /\ call[c].todo \ {n} \in SUBSET Names
        /\ call[c].found \cup ({n} \cap NamesOf(d)) \in SUBSET Names
    BY <2>1
  <2>4. call[c].pc = "scan" /\ UNCHANGED <<fs, entry, order, cycle, idx, history>>
    BY <1>7 DEF Scan
  <2> QED BY <1>6, <2>2, <2>3, <2>4
<1>8. CASE ScanEnds(c)
  <2>1. call[c] \in [pc : {"scan"}, dir : Dirs, mtime : Mtime, todo : SUBSET Names, found : SUBSET Names]
    BY <1>8, CallTypes DEF ScanEnds
  <2>2. call' = [call EXCEPT ![c].todo = {}, ![c].found = call[c].found]
    BY <1>8, <2>1 DEF ScanEnds, Typed, TypeOK
  <2> QED BY <1>6, <1>8, <2>1, <2>2 DEF ScanEnds
<1>9. CASE Restat(c)
  <2>1. call[c] \in [pc : {"scan"}, dir : Dirs, mtime : Mtime, todo : SUBSET Names, found : SUBSET Names]
    BY <1>9, CallTypes DEF Restat
  <2>2. d \in Dirs /\ call[c] # Idle
    BY <2>1 DEF Idle
  <2>3. CASE /\ Goto(c, [pc |-> "publish", dir |-> d, mtime |-> call[c].mtime,
                         mtime2 |-> fs[d].mtime, found |-> call[c].found])
             /\ UNCHANGED <<fs, cycle, idx, history, entry, order>>
    <3>1. [pc |-> "publish", dir |-> d, mtime |-> call[c].mtime,
           mtime2 |-> fs[d].mtime, found |-> call[c].found] \in Call
      BY <1>1, <2>1 DEF Call
    <3> QED BY <2>2, <2>3, <3>1, StepTyped DEF Idle
  <2> QED BY <1>2, <1>9, <2>2, <2>3 DEF Restat
<1>10. CASE Publish(c)
  BY <1>10, PublishTyped
<1> QED BY <1>3, <1>4, <1>5, <1>7, <1>8, <1>9, <1>10 DEF ListdirStep

\* A table holds no more paths than there are directories.
LEMMA TableSize ==
    ASSUME Typed
    PROVE  Len(order) \in Nat /\ Len(order) <= Cardinality(Dirs) /\ Cardinality(Dirs) \in Nat
<1>1. order \in [1..Len(order) -> Dirs] /\ Len(order) \in Nat /\ DOMAIN order = 1..Len(order)
  BY LenProperties DEF Typed, TypeOK
<1>2. order \in Injection(1..Len(order), Dirs)
  BY <1>1 DEF Typed, Keyed, Injection, IsInjective
<1>3. Cardinality(1..Len(order)) <= Cardinality(Dirs)
  BY <1>2, DirsAssumption, FS_Injection
<1>4. Cardinality(1..Len(order)) = Len(order)
  <2>1. Cardinality(1..Len(order)) = IF 1 > Len(order) THEN 0 ELSE Len(order) - 1 + 1
    BY <1>1, FS_Interval, 1 \in Int, Len(order) \in Int
  <2> QED BY <1>1, <2>1
<1> QED BY <1>1, <1>3, <1>4, DirsAssumption, FS_CardinalityType

LEMMA RunTyped ==
    ASSUME Typed, RunStep
    PROVE  Typed'
<1>0. /\ Monitor \in Callers /\ order \in Seq(Dirs)
      /\ Len(order) \in Nat /\ Len(order) <= Cardinality(Dirs) /\ Cardinality(Dirs) \in Nat
  BY TableSize DEF Callers, Typed, TypeOK
<1>1. CASE BeginCycle
  <2> DEFINE n == Smaller(MaxRefresh, Len(order))
             b == Batch(order, idx, n)
  <2>1. Len(order) > 0 /\ n \in Nat /\ idx \in Nat
    BY <1>0, <1>1, EmptySeq, LimitsAssumption DEF BeginCycle, Smaller, Typed, TypeOK
  <2>2. \A k \in 1..n : order[((idx + k - 1) % Len(order)) + 1] \in Dirs
    <3> TAKE k \in 1..n
    <3>1. idx + k - 1 \in Nat /\ Len(order) \in Nat \ {0}
      BY <1>0, <2>1
    <3>2. ((idx + k - 1) % Len(order)) + 1 \in 1..Len(order)
      BY <3>1
    <3> QED BY <1>0, <3>2, ElementOfSeq
  <2> HIDE DEF n
  <2>3. b \in Seq(Dirs)
    BY <2>1, <2>2, IsASeq DEF Batch
  <2> HIDE DEF b
  <2>4. cycle' \in Cycle /\ UNCHANGED <<fs, entry, order, call, idx, history>>
    BY <1>1, <2>3 DEF BeginCycle, Cycle, n, b
  <2>5. call[Monitor] = Idle
    BY <1>1 DEF BeginCycle, Sleeping, Typed, Awake
  <2> QED BY <2>4, <2>5 DEF Typed, TypeOK, Keyed, IsKey, Awake, history, Idle
<1>2. CASE RefreshNext
  <2>1. cycle.batch \in Seq(Dirs) /\ cycle.batch # <<>> /\ cycle.pc = "batch"
    BY <1>2 DEF RefreshNext, Typed, TypeOK, Cycle, Sleeping, Dead
  <2> DEFINE r == [pc |-> "stat", dir |-> Head(cycle.batch)]
  <2>2. r \in Call
    BY <2>1, HeadTailProperties DEF Call
  <2>3. call' = [call EXCEPT ![Monitor] = r]
    BY <1>2 DEF RefreshNext, Goto
  <2>4. call' \in [Callers -> Call] /\ call'[Monitor].pc = "stat"
    BY <1>0, <2>2, <2>3 DEF Typed, TypeOK
  <2> QED BY <1>2, <2>1, <2>4 DEF RefreshNext, Typed, TypeOK, Keyed, IsKey, Awake, Busy, history
<1>3. CASE Forget
  <2>1. call[Monitor].dir \in Dirs /\ call[Monitor] # Idle
    BY <1>0, <1>3, CallTypes DEF Forget, Idle
  <2>2. /\ entry' \in [Dirs -> Listing \cup {NoEntry}] /\ order' \in Seq(Dirs) /\ Keyed'
    BY <1>3, <2>1, RemovePathTyped DEF Forget
  <2>3. cycle \in [pc : {"batch"}, batch : Seq(Dirs), last : Dirs \cup {NoDir}] /\ cycle.batch # <<>>
    BY <2>1 DEF Typed, TypeOK, Awake, Cycle, Sleeping, Dead
  <2>4. Tail(cycle.batch) \in Seq(Dirs)
    BY <2>3, HeadTailProperties
  <2>5. cycle' \in Cycle
    BY <1>3, <2>3, <2>4 DEF Forget, Cycle
  <2>6. call' \in [Callers -> Call] /\ call'[Monitor] = Idle
    BY <1>0, <1>3 DEF Forget, Goto, Call, Typed, TypeOK
  <2> QED BY <1>3, <2>2, <2>5, <2>6 DEF Forget, Typed, TypeOK, Awake, Idle, history
<1>4. CASE EndCycle
  <2>1. idx' \in Nat /\ (idx' # 0 => idx' < Cardinality(Dirs))
    <3>1. CASE cycle.last = NoDir
      BY <1>4, <3>1 DEF EndCycle, Typed, TypeOK
    <3>2. CASE cycle.last # NoDir
      <4>1. idx' = IndexOf(cycle.last) % Len(order) /\ IsKey(cycle.last)
        BY <1>4, <3>2 DEF EndCycle, NextIdx
      <4>2. IndexOf(cycle.last) \in 1..Len(order)
        BY <1>0, <4>1, LenProperties DEF IsKey, IndexOf
      <4>3. IndexOf(cycle.last) \in Nat /\ Len(order) \in Nat \ {0}
        BY <1>0, <4>2
      <4> HIDE DEF IndexOf
      <4> QED BY <1>0, <4>1, <4>3
    <3> QED BY <3>1, <3>2
  <2>2. call[Monitor] = Idle /\ cycle' \in Cycle
    BY <1>4 DEF EndCycle, Typed, Awake, Cycle
  <2> QED BY <1>4, <2>1, <2>2 DEF EndCycle, Typed, TypeOK, Keyed, IsKey, Awake, Idle, history
<1>5. CASE EndCycleRaises
  <2>1. call[Monitor] = Idle /\ cycle' \in Cycle
    BY <1>5 DEF EndCycleRaises, Typed, Awake, Cycle
  <2> QED BY <1>5, <2>1 DEF EndCycleRaises, Typed, TypeOK, Keyed, IsKey, Awake, Idle, history
<1> QED BY <1>1, <1>2, <1>3, <1>4, <1>5 DEF RunStep

\* A request, or a change of a directory: the table stays.
LEMMA OthersTyped ==
    ASSUME Typed,
           \/ \E d \in Dirs, there \in BOOLEAN, names \in SUBSET Names : Change(d, there, names)
           \/ \E t \in Threads : Answered(t) \/ \E d \in Dirs : Listdir(t, d)
    PROVE  Typed'
<1>0. \A d \in Dirs : NamesOf(d) \in SUBSET Names
  BY DEF Typed, TypeOK, NamesOf
<1>1. ASSUME NEW d \in Dirs, NEW there \in BOOLEAN, NEW names \in SUBSET Names,
             Change(d, there, names)
      PROVE  Typed'
  <2>1. PICK m \in Mtime : fs' = [fs EXCEPT ![d] = [there |-> there, mtime |-> m, names |-> names]]
    BY <1>1 DEF Change
  <2>2. [there |-> there, mtime |-> m, names |-> names]
          \in [there : BOOLEAN, mtime : Mtime, names : SUBSET Names]
    BY <2>1
  <2>3. fs' \in [Dirs -> [there : BOOLEAN, mtime : Mtime, names : SUBSET Names]]
    BY <2>1, <2>2 DEF Typed, TypeOK
  <2>4. always' \in [Threads -> SUBSET Names] /\ ever' \in [Threads -> SUBSET Names]
    BY <1>1 DEF Change, Typed, TypeOK
  <2> QED BY <1>1, <2>3, <2>4 DEF Change, Typed, TypeOK, Keyed, IsKey, Awake
<1>2. ASSUME NEW t \in Threads, NEW r \in Call, NEW names \in SUBSET Names, Goto(t, r),
             always' = [always EXCEPT ![t] = names], ever' = [ever EXCEPT ![t] = names],
             UNCHANGED <<fs, entry, order, cycle, idx>>
      PROVE  Typed'
  <2>1. call' \in [Callers -> Call] /\ call'[Monitor] = call[Monitor]
    BY <1>2, MonitorAssumption DEF Goto, Callers, Typed, TypeOK
  <2>2. always' \in [Threads -> SUBSET Names] /\ ever' \in [Threads -> SUBSET Names]
    BY <1>2 DEF Typed, TypeOK
  <2> QED BY <1>2, <2>1, <2>2 DEF Typed, TypeOK, Keyed, IsKey, Awake
<1>3. ASSUME NEW t \in Threads, Answered(t) PROVE Typed'
  <2>1. Idle \in Call /\ {} \in SUBSET Names
    BY DEF Call
  <2> QED BY <1>2, <1>3, <2>1 DEF Answered
<1>4. ASSUME NEW t \in Threads, NEW d \in Dirs, Listdir(t, d) PROVE Typed'
  <2>1. [pc |-> "stat", dir |-> d] \in Call
    BY DEF Call
  <2> QED BY <1>0, <1>2, <1>4, <2>1 DEF Listdir
<1> QED BY <1>1, <1>3, <1>4

\* Every variable keeps its type; in particular the index of the background thread
\* is that of a path there can be, however many paths other threads add and remove.
THEOREM TypeInvariant == Spec => []TypeOK
<1>1. Init => Typed
  <2> SUFFICES ASSUME Init PROVE Typed
    OBVIOUS
  <2>1. fs \in [Dirs -> [there : BOOLEAN, mtime : Mtime, names : SUBSET Names]]
    BY Bounds DEF Init, Mtime
  <2>2. order \in Seq(Dirs) /\ DOMAIN order = {}
    BY EmptySeq, LenProperties DEF Init
  <2>3. Keyed
    BY <2>2 DEF Keyed, IsKey
  <2>4. call \in [Callers -> Call] /\ call[Monitor] = Idle
    BY DEF Init, Call, Callers
  <2> QED BY <2>1, <2>2, <2>3, <2>4 DEF Init, Typed, TypeOK, Cycle, Awake, Idle
<1>2. Typed /\ [Next]_vars => Typed'
  <2> SUFFICES ASSUME Typed, [Next]_vars PROVE Typed'
    OBVIOUS
  <2>1. CASE UNCHANGED vars
    BY <2>1 DEF vars, Typed, TypeOK, Keyed, IsKey, Awake
  <2> QED BY <2>1, ListdirTyped, OthersTyped, RunTyped DEF Next
<1>3. Typed => TypeOK
  BY DEF Typed
<1> QED BY <1>1, <1>2, <1>3, PTL DEF Spec
=============================================================================
