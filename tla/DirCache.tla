------------------------------ MODULE DirCache ------------------------------
(***************************************************************************)
(* The directory cache (rdiffweb/core/dircache.py): listdir() answers from *)
(* a shared table of listings when the mtime of the directory still is the *)
(* one of the listing, and reads the directory otherwise.  A background    *)
(* thread refreshes some of the listings in every cycle.                   *)
(*                                                                         *)
(* The lock is held for one look at the table or one change of it and      *)
(* never while the file system is read, so that every lstat(), every look  *)
(* at the table and every name os.scandir() returns is a step.             *)
(***************************************************************************)
EXTENDS Naturals, SequencesExt, FiniteSets

CONSTANTS
    Dirs,           \* directories
    Names,          \* names of files and of sub-directories
    Threads,        \* threads that call listdir(): web requests and jobs
    Monitor,        \* the background thread of the cache
    MaxRefresh,     \* max_refresh_per_cycle
    MaxMtime        \* bound: how often directories are changed

ASSUME MonitorAssumption == Monitor \notin Threads
ASSUME DirsAssumption    == IsFiniteSet(Dirs)
ASSUME LimitsAssumption  == MaxRefresh \in Nat \ {0} /\ MaxMtime \in Nat

VARIABLES
    fs,             \* the directories: present or not, modification time, names
    entry,          \* _cache_entries: the listing of a path
    order,          \* _cache_entries: the paths, in the order of their insertion
    call,           \* where each thread is in listdir()
    cycle,          \* where the background thread is in run()
    idx,            \* _round_robin_idx
    always, ever    \* names its directory had at all times, at some time, since
                    \* the call of each thread began (not part of the program)

vars == <<fs, entry, order, call, cycle, idx, always, ever>>

Callers == Threads \cup {Monitor}

-----------------------------------------------------------------------------
Mtime   == 0..MaxMtime
Listing == [mtime : Mtime, names : SUBSET Names]
NoEntry == [mtime |-> "none"]
NoDir   == "none"

Idle  == [pc |-> "idle"]
Call  == {Idle}
         \cup [pc : {"stat", "failed"}, dir : Dirs]
         \cup [pc : {"lookup"}, dir : Dirs, mtime : Mtime]
         \cup [pc : {"scan"}, dir : Dirs, mtime : Mtime, todo : SUBSET Names, found : SUBSET Names]
         \cup [pc : {"publish"}, dir : Dirs, mtime : Mtime, mtime2 : Mtime, found : SUBSET Names]
         \cup [pc : {"done"}, dir : Dirs, found : SUBSET Names]

Sleeping == [pc |-> "sleep"]
Dead     == [pc |-> "dead"]
Cycle    == {Sleeping, Dead}
            \cup [pc : {"batch"}, batch : Seq(Dirs), last : Dirs \cup {NoDir}]

-----------------------------------------------------------------------------
Init ==
    /\ fs \in [Dirs -> [there : BOOLEAN, mtime : {0}, names : SUBSET Names]]
    /\ \A d \in Dirs : fs[d].there \/ fs[d].names = {}
    /\ entry = [d \in Dirs |-> NoEntry]
    /\ order = <<>>
    /\ call = [c \in Callers |-> Idle]
    /\ cycle = Sleeping
    /\ idx = 0
    /\ always = [t \in Threads |-> {}]
    /\ ever = [t \in Threads |-> {}]

-----------------------------------------------------------------------------
(***************************************************************************)
(* The file system.  Two changes never have the same modification time.    *)
(***************************************************************************)
NamesOf(d) == IF fs[d].there THEN fs[d].names ELSE {}

\* The clock of the file system goes on with each change.
IsNext(m) == /\ \A d \in Dirs : fs[d].mtime < m
             /\ \E d \in Dirs : m = fs[d].mtime + 1

\* A directory appears, disappears or gets other names.
Change(d, there, names) ==
    /\ fs[d].there \/ there
    /\ there \/ names = {}
    /\ \E m \in Mtime :
         /\ IsNext(m)
         /\ fs' = [fs EXCEPT ![d] = [there |-> there, mtime |-> m, names |-> names]]
    /\ LET now      == IF there THEN names ELSE {}
           calls(t) == call[t] # Idle /\ call[t].dir = d
       IN  /\ always' = [t \in Threads |-> IF calls(t) THEN always[t] \cap now ELSE always[t]]
           /\ ever' = [t \in Threads |-> IF calls(t) THEN ever[t] \cup now ELSE ever[t]]
    /\ UNCHANGED <<entry, order, call, cycle, idx>>

-----------------------------------------------------------------------------
(***************************************************************************)
(* listdir(path, _update); _update is TRUE for the background thread       *)
(***************************************************************************)
history == <<always, ever>>

Goto(c, r) == call' = [call EXCEPT ![c] = r]

IsKey(d) == \E i \in DOMAIN order : order[i] = d
IndexOf(d) == CHOOSE i \in 1..Len(order) : order[i] = d

\* remove_path(): the other keys keep their order.
RemovePath(d) ==
    /\ entry' = [entry EXCEPT ![d] = NoEntry]
    /\ order' = IF IsKey(d) THEN RemoveAt(order, IndexOf(d)) ELSE order

\* listdir() returns: names for a request; for run(), whether it read the directory.
Return(c, names, refreshed) ==
    IF c = Monitor
    THEN /\ Goto(c, Idle)
         /\ cycle' = [cycle EXCEPT !.batch = Tail(@),
                                   !.last = IF refreshed THEN call[c].dir ELSE @]
    ELSE /\ Goto(c, [pc |-> "done", dir |-> call[c].dir, found |-> names])
         /\ UNCHANGED cycle

\* An OSError leaves listdir(): run() handles it, a request gives up.
Raise(c) == Goto(c, IF c = Monitor THEN [pc |-> "failed", dir |-> call[c].dir] ELSE Idle)

Listdir(t, d) ==
    /\ call[t] = Idle
    /\ Goto(t, [pc |-> "stat", dir |-> d])
    /\ always' = [always EXCEPT ![t] = NamesOf(d)]
    /\ ever' = [ever EXCEPT ![t] = NamesOf(d)]
    /\ UNCHANGED <<fs, entry, order, cycle, idx>>

\* The first lstat().
Stat(c) ==
    LET d == call[c].dir IN
    /\ call[c].pc = "stat"
    /\ \/ /\ fs[d].there
          /\ Goto(c, [pc |-> "lookup", dir |-> d, mtime |-> fs[d].mtime])
          /\ UNCHANGED <<entry, order>>
       \/ /\ ~fs[d].there
          /\ RemovePath(d)
          /\ Raise(c)
    /\ UNCHANGED <<fs, cycle, idx, history>>

\* Mutant: a listing is used whatever its age.
HitAnyAge(d, mtime) == entry[d] # NoEntry
Hit(d, mtime) == entry[d] # NoEntry /\ entry[d].mtime = mtime

Lookup(c) ==
    LET d == call[c].dir IN
    /\ call[c].pc = "lookup"
    /\ IF Hit(d, call[c].mtime)
       THEN Return(c, entry[d].names, FALSE)
       ELSE /\ Goto(c, [pc |-> "scan", dir |-> d, mtime |-> call[c].mtime,
                        todo |-> Names, found |-> {}])
            /\ UNCHANGED cycle
    /\ UNCHANGED <<fs, entry, order, idx, history>>

\* os.scandir() gets to name n, or past the place where it would be.
Scan(c, n) ==
    /\ call[c].pc = "scan"
    /\ n \in call[c].todo
    /\ fs[call[c].dir].there
    /\ call' = [call EXCEPT ![c].todo = @ \ {n},
                            ![c].found = @ \cup ({n} \cap NamesOf(call[c].dir))]
    /\ UNCHANGED <<fs, entry, order, cycle, idx, history>>

\* The directory is gone when os.scandir() opens it: the entry stays.
ScanFails(c) ==
    /\ call[c].pc = "scan"
    /\ call[c].todo = Names
    /\ ~fs[call[c].dir].there
    /\ Raise(c)
    /\ UNCHANGED <<fs, entry, order, cycle, idx, history>>

\* An open directory that is removed has no more names.
ScanEnds(c) ==
    /\ call[c].pc = "scan"
    /\ call[c].todo # {}
    /\ ~fs[call[c].dir].there
    /\ call' = [call EXCEPT ![c].todo = {}]
    /\ UNCHANGED <<fs, entry, order, cycle, idx, history>>

\* The second lstat().
Restat(c) ==
    LET d == call[c].dir IN
    /\ call[c].pc = "scan"
    /\ call[c].todo = {}
    /\ \/ /\ fs[d].there
          /\ Goto(c, [pc |-> "publish", dir |-> d, mtime |-> call[c].mtime,
                      mtime2 |-> fs[d].mtime, found |-> call[c].found])
          /\ UNCHANGED <<entry, order>>
       \/ /\ ~fs[d].there
          /\ RemovePath(d)
          /\ Raise(c)
    /\ UNCHANGED <<fs, cycle, idx, history>>

\* Only what was not changed while it was read goes into the table.
\* Mutant: whatever was read goes into the table.
UnchangedOrNot(mtime, mtime2) == TRUE
Unmodified(mtime, mtime2) == mtime = mtime2

Publish(c) ==
    LET d == call[c].dir IN
    /\ call[c].pc = "publish"
    /\ IF Unmodified(call[c].mtime, call[c].mtime2)
       THEN /\ entry' = [entry EXCEPT ![d] = [mtime |-> call[c].mtime2, names |-> call[c].found]]
            /\ order' = IF entry[d] = NoEntry THEN Append(order, d) ELSE order
       ELSE UNCHANGED <<entry, order>>
    /\ Return(c, call[c].found, TRUE)
    /\ UNCHANGED <<fs, idx, history>>

\* The caller goes on with the names it got.
Answered(t) ==
    /\ call[t].pc = "done"
    /\ Goto(t, Idle)
    /\ always' = [always EXCEPT ![t] = {}]
    /\ ever' = [ever EXCEPT ![t] = {}]
    /\ UNCHANGED <<fs, entry, order, cycle, idx>>

-----------------------------------------------------------------------------
(***************************************************************************)
(* run()                                                                   *)
(***************************************************************************)
Smaller(m, n) == IF m < n THEN m ELSE n

\* The paths of one cycle, from the round-robin index on.
Batch(keys, start, n) == [k \in 1..n |-> keys[((start + k - 1) % Len(keys)) + 1]]

BeginCycle ==
    /\ cycle = Sleeping
    /\ order # <<>>
    /\ cycle' = [pc |-> "batch", last |-> NoDir,
                 batch |-> Batch(order, idx, Smaller(MaxRefresh, Len(order)))]
    /\ UNCHANGED <<fs, entry, order, call, idx, history>>

RefreshNext ==
    /\ cycle.pc = "batch" /\ cycle.batch # <<>>
    /\ call[Monitor] = Idle
    /\ Goto(Monitor, [pc |-> "stat", dir |-> Head(cycle.batch)])
    /\ UNCHANGED <<fs, entry, order, cycle, idx, history>>

\* `except OSError`: the path is no longer watched.
Forget ==
    /\ call[Monitor].pc = "failed"
    /\ RemovePath(call[Monitor].dir)
    /\ cycle' = [cycle EXCEPT !.batch = Tail(@)]
    /\ Goto(Monitor, Idle)
    /\ UNCHANGED <<fs, idx, history>>

\* Mutant: the index is not reduced modulo the number of paths.
NextIdxBeyond(d) == IndexOf(d)
NextIdx(d) == IndexOf(d) % Len(order)

\* The index moves past the last path that had to be read, if there is one.
EndCycle ==
    /\ cycle.pc = "batch" /\ cycle.batch = <<>>
    /\ cycle.last = NoDir \/ IsKey(cycle.last)
    /\ idx' = IF cycle.last = NoDir THEN idx ELSE NextIdx(cycle.last)
    /\ cycle' = Sleeping
    /\ UNCHANGED <<fs, entry, order, call, history>>

\* That path was removed by another thread: index() raises ValueError, and a
\* Monitor's thread ends with the first exception.
EndCycleRaises ==
    /\ cycle.pc = "batch" /\ cycle.batch = <<>>
    /\ cycle.last # NoDir /\ ~IsKey(cycle.last)
    /\ cycle' = Dead
    /\ UNCHANGED <<fs, entry, order, call, idx, history>>

-----------------------------------------------------------------------------
ListdirStep(c) ==
    \/ Stat(c) \/ Lookup(c) \/ ScanFails(c) \/ ScanEnds(c) \/ Restat(c) \/ Publish(c)
    \/ \E n \in Names : Scan(c, n)

RunStep == BeginCycle \/ RefreshNext \/ Forget \/ EndCycle \/ EndCycleRaises

Next ==
    \/ \E d \in Dirs, there \in BOOLEAN, names \in SUBSET Names : Change(d, there, names)
    \/ \E t \in Threads : Answered(t) \/ \E d \in Dirs : Listdir(t, d)
    \/ \E c \in Callers : ListdirStep(c)
    \/ RunStep

Spec == Init /\ [][Next]_vars

\* A call in progress goes on, and the background thread wakes up every minute;
\* nobody has to call listdir() or to change a directory.
Fairness == /\ \A c \in Callers : WF_vars(ListdirStep(c))
            /\ WF_vars(RunStep)

FairSpec == Spec /\ Fairness

-----------------------------------------------------------------------------
(***************************************************************************)
(* Properties                                                              *)
(***************************************************************************)
\* Every variable holds what the program can put there.
TypeOK ==
    /\ fs \in [Dirs -> [there : BOOLEAN, mtime : Mtime, names : SUBSET Names]]
    /\ entry \in [Dirs -> Listing \cup {NoEntry}]
    /\ order \in Seq(Dirs)
    /\ call \in [Callers -> Call]
    /\ cycle \in Cycle
    /\ idx \in Nat /\ (idx # 0 => idx < Cardinality(Dirs))
    /\ always \in [Threads -> SUBSET Names]
    /\ ever \in [Threads -> SUBSET Names]

\* A listing in the table whose mtime is the directory's is what the directory
\* holds: whoever finds them equal may answer from the table (dircache.py:72),
\* in whatever order threads read, change and publish.
FreshWhenMtimeMatches ==
    \A d \in Dirs :
        entry[d] # NoEntry /\ fs[d].there /\ entry[d].mtime = fs[d].mtime
            => entry[d].names = fs[d].names

\* listdir() promises what reading the directory would: a name that was there
\* from the call to the return is in the answer, and every name of the answer
\* was there at some time in between.
RegularListing ==
    \A t \in Threads :
        call[t].pc = "done" => /\ always[t] \subseteq call[t].found
                               /\ call[t].found \subseteq ever[t]

Stale(d) == /\ entry[d] # NoEntry
            /\ ~fs[d].there \/ entry[d].mtime # fs[d].mtime

\* A cycle had nothing to read, so that the index stays, and the listing of d is
\* not among those the next cycle will take.
PassedBy(d) ==
    /\ cycle.pc = "batch" /\ cycle.batch = <<>> /\ cycle.last = NoDir
    /\ \A i \in 1..Smaller(MaxRefresh, Len(order)) :
         Batch(order, idx, Smaller(MaxRefresh, Len(order)))[i] # d

\* The background thread brings listings up to date, "refreshing them periodically
\* in the background" (dircache.py:29-30), with fewer in a cycle than the table
\* has: a stale one is refreshed or forgotten, unless the thread dies (:126) or the
\* round robin stays with other listings, none of which had to be read (:123).
StaleIsRefreshed ==
    \A d \in Dirs : Stale(d) ~> (~Stale(d) \/ cycle = Dead \/ PassedBy(d))
=============================================================================
