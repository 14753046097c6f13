------------------------------ MODULE RepoTree ------------------------------
(***************************************************************************)
(* What the pages tell of the files of a repository: the browser lists a   *)
(* directory, the history page looks up one entry of it, and the deletion  *)
(* of an entry runs as a job -- all of them beside rdiff-backup, which     *)
(* writes the same directories without asking the server.                  *)
(*                                                                         *)
(* rdiffweb/core/librdiff.py (RdiffRepo.listdir, fstat, delete_path,       *)
(* RdiffDirEntry, IncrementEntry), core/model/_repo.py (delete_repo_path,  *)
(* schedule_delete_path, get_repo_path), controller/page_browse.py,        *)
(* page_history.py, page_delete.py.                                        *)
(***************************************************************************)
EXTENDS Integers, FiniteSets, Sequences, FiniteSetsExt

CONSTANTS
    Names,      \* entries of one directory of the repository
    Versions,   \* what an entry may be, besides absent
    Threads,    \* web threads
    Unwanted,   \* bound: the entries whose deletion is asked for
    MaxChanged, \* bound: the entries that one backup changes
    MaxDate     \* bound: backups are numbered; the first is complete

ASSUME MaxDateAssumption == MaxDate \in Nat \ {0}

absent == "absent"
Dates  == 1..MaxDate
States == Versions \cup {absent}

VARIABLES
    mirror,     \* the directory itself: what each name is
    incs,       \* its increments in rdiff-backup-data
    markers,    \* dates of the current_mirror files
    backup,     \* rdiff-backup: what it has still to look at, and the patch it is at
    history,    \* what the directory was at each complete backup that is kept
    job,        \* the deletion of each entry: "done" when the log told last that it was
    asked,      \* the last backup when its deletion was asked for, 0 once it is told
    damaged,    \* entries rdiff-backup-delete left half-way
    req         \* what each thread has read

disk == <<mirror, incs, markers>>
vars == <<mirror, incs, markers, backup, history, job, asked, damaged, req>>
deletion == <<job, asked, damaged>>

Increments == [name : Names, date : Dates, missing : BOOLEAN]

\* What can be restored: an entry as it was at a backup.
Kept(h)   == {x \in Names \X DOMAIN h : h[x[2]][x[1]] # absent}
Of(names) == names \X Dates
LastDate  == Max(DOMAIN history)
NoReq     == [op |-> "none", names |-> {}, todo |-> <<>>, marks |-> {}, failed |-> FALSE,
              exists |-> {}, incs |-> {}, had |-> {}, quiet |-> FALSE]
NoBackup  == [pc |-> "none", todo |-> {}, patch |-> <<>>]

Init ==
    /\ mirror \in [Names -> States] /\ incs = {} /\ markers = {1}
    /\ backup = NoBackup
    /\ history = [d \in {1} |-> mirror]
    /\ job = [n \in Names |-> "none"] /\ asked = [n \in Names |-> 0] /\ damaged = {}
    /\ req = [t \in Threads |-> NoReq]

-----------------------------------------------------------------------------
(***************************************************************************)
(* Reading: looks at the disk, in the order of the page                    *)
(***************************************************************************)
\* The browser refreshes the repository first, which caches its markers, and asks
\* for the status, which opens them; the history page lists the markers last, when
\* the dates are shown.
\* Mutant: the increments are listed before the directory.
LooksSwapped(op) == IF op = "browse" THEN <<"markers", "status", "increments", "mirror">>
                                     ELSE <<"increments", "mirror", "markers">>
Looks(op) == IF op = "browse" THEN <<"markers", "status", "mirror", "increments">>
                              ELSE <<"mirror", "increments", "markers">>

\* Nobody writes: no backup and no deletion is at work.
Quiet == backup.pc # "run" /\ \A n \in Names : job[n] # "deleting"

\* What can be restored, but of an entry that is being deleted or is half deleted.
Offerable == {x \in Kept(history) : job[x[1]] # "deleting" /\ x[1] \notin damaged}

Begin(t, op, names) ==
    /\ req[t].op = "none"
    /\ req' = [req EXCEPT ![t] = [NoReq EXCEPT !.op = op, !.names = names, !.todo = Looks(op),
                                               !.had = Offerable \cap Of(names), !.quiet = Quiet]]
    /\ UNCHANGED <<disk, backup, history, deletion>>

Browse(t)     == Begin(t, "browse", Names)
History(t, n) == Begin(t, "history", {n})

\* The names of a page whose file is there, and their increments.
Existing(names) == {n \in names : mirror[n] # absent}
Listed(names)   == {i \in incs : i.name \in names}

\* A marker that is gone when it is opened makes the status "failed": such a page
\* lists nothing.
Looked(r) ==
    LET s == [r EXCEPT !.todo = Tail(@)] IN
    CASE Head(r.todo) = "markers" -> [s EXCEPT !.marks = markers]
      [] Head(r.todo) = "status"  -> IF r.marks \subseteq markers THEN s
                                     ELSE [s EXCEPT !.failed = TRUE, !.todo = <<>>]
      [] Head(r.todo) = "mirror"  -> [s EXCEPT !.exists = Existing(r.names)]
      [] OTHER                    -> [s EXCEPT !.incs = Listed(r.names)]

Look(t) ==
    /\ req[t].todo # <<>>
    /\ req' = [req EXCEPT ![t] = Looked(@)]
    /\ UNCHANGED <<disk, backup, history, deletion>>

\* The entries of the page: what is there, or has an increment.
Entries(r) == r.exists \cup {i.name : i \in r.incs}

\* change_dates of an entry: an increment says what the entry was at its date;
\* that of a file that was missing is left out; a file that exists has the date
\* of the last backup.
\* Mutants: missing files count; the last backup is left out.
ChangeDatesMissing(r, n) ==
    {i.date : i \in {j \in r.incs : j.name = n}} \cup (IF n \in r.exists THEN {Max(r.marks)} ELSE {})
ChangeDatesPast(r, n) == {i.date : i \in {j \in r.incs : j.name = n /\ ~j.missing}}
ChangeDates(r, n) ==
    {i.date : i \in {j \in r.incs : j.name = n /\ ~j.missing}}
    \cup (IF n \in r.exists THEN {Max(r.marks)} ELSE {})

Answered(r) == r.op # "none" /\ r.todo = <<>>

Answer(t) ==
    /\ Answered(req[t])
    /\ req' = [req EXCEPT ![t] = NoReq]
    /\ UNCHANGED <<disk, backup, history, deletion>>

\* The disk changed under the requests: "had" is what could be restored all the time.
Disturb(kept) ==
    req' = [t \in Threads |-> [req[t] EXCEPT !.quiet = FALSE, !.had = @ \cap kept]]

-----------------------------------------------------------------------------
(***************************************************************************)
(* rdiff-backup                                                            *)
(***************************************************************************)
Unlocked == \A n \in Names : job[n] # "deleting"

\* A backup marks its date first; the marker of the one before stays.
StartBackup ==
    /\ backup.pc = "none" /\ Unlocked /\ LastDate < MaxDate
    /\ backup' = [pc |-> "run", todo |-> Names, patch |-> <<>>]
    /\ markers' = markers \cup {LastDate + 1}
    /\ Disturb(Of(Names))
    /\ UNCHANGED <<mirror, incs, history, deletion>>

\* What the entry was is kept as an increment, before the mirror changes.
WriteIncrement(n, v) ==
    /\ backup.pc = "run" /\ backup.patch = <<>> /\ n \in backup.todo /\ v # mirror[n]
    /\ Cardinality(Names \ backup.todo) < MaxChanged
    /\ incs' = incs \cup {[name |-> n, date |-> LastDate, missing |-> mirror[n] = absent]}
    /\ backup' = [backup EXCEPT !.todo = @ \ {n}, !.patch = <<n, v>>]
    /\ Disturb(Of(Names))
    /\ UNCHANGED <<mirror, markers, history, deletion>>

PatchMirror ==
    /\ backup.pc = "run" /\ backup.patch # <<>>
    /\ mirror' = [mirror EXCEPT ![backup.patch[1]] = backup.patch[2]]
    /\ backup' = [backup EXCEPT !.patch = <<>>]
    /\ Disturb(Of(Names))
    /\ UNCHANGED <<incs, markers, history, deletion>>

FinishBackup ==
    /\ backup.pc = "run" /\ backup.patch = <<>>
    /\ backup' = NoBackup
    /\ markers' = {LastDate + 1}
    /\ history' = [d \in DOMAIN history \cup {LastDate + 1} |->
                      IF d \in DOMAIN history THEN history[d] ELSE mirror]
    /\ Disturb(Of(Names))
    /\ UNCHANGED <<mirror, incs, deletion>>

\* It is interrupted: what it has done stays, until the next rdiff-backup undoes it.
Interrupt ==
    /\ backup.pc = "run"
    /\ backup' = [NoBackup EXCEPT !.pc = "dead"]
    /\ UNCHANGED <<disk, history, deletion, req>>

Regress ==
    /\ backup.pc = "dead"
    /\ backup' = NoBackup
    /\ mirror' = history[LastDate]
    /\ incs' = {i \in incs : i.date < LastDate}
    /\ markers' = {LastDate}
    /\ Disturb({})
    /\ UNCHANGED <<history, deletion>>

\* --remove-older-than: what the directory was before a date.
RemoveOlder(date) ==
    /\ backup.pc = "none" /\ Unlocked
    /\ date \in DOMAIN history /\ date # Min(DOMAIN history)
    /\ incs' = {i \in incs : i.date >= date}
    /\ history' = [d \in {e \in DOMAIN history : e >= date} |-> history[d]]
    /\ Disturb(Kept(history'))
    /\ UNCHANGED <<mirror, markers, backup, deletion>>

-----------------------------------------------------------------------------
(***************************************************************************)
(* Deletion of an entry                                                    *)
(***************************************************************************)
\* fstat: the entry is there or has increments.
Exists(n) == mirror[n] # absent \/ \E i \in incs : i.name = n

\* DeletePage: the message and the job, once the form is confirmed.
ScheduleDelete(n) ==
    /\ n \in Unwanted /\ job[n] \in {"none", "done"} /\ Exists(n)
    /\ job' = [job EXCEPT ![n] = "scheduled"]
    /\ asked' = [asked EXCEPT ![n] = LastDate]
    /\ UNCHANGED <<disk, backup, history, damaged, req>>

\* Nothing is left of the entry, or rdiff-backup-delete does not get the lock, or
\* does not start: it has changed nothing.
DeleteRefused(n) ==
    /\ job[n] = "scheduled"
    /\ job' = [job EXCEPT ![n] = "broken"]
    /\ UNCHANGED <<disk, backup, history, asked, damaged, req>>

StartDelete(n) ==
    /\ job[n] = "scheduled" /\ Exists(n)
    /\ backup.pc = "none" /\ Unlocked
    /\ job' = [job EXCEPT ![n] = "deleting"]
    /\ Disturb(Of(Names \ {n}))
    /\ UNCHANGED <<disk, backup, history, asked, damaged>>

\* It works on the mirror and on the increments, one file after the other.
DeleteMirror(n) ==
    /\ job[n] = "deleting" /\ mirror[n] # absent
    /\ mirror' = [mirror EXCEPT ![n] = absent]
    /\ Disturb(Of(Names \ {n}))
    /\ UNCHANGED <<incs, markers, backup, history, deletion>>

DeleteIncrement(n) ==
    /\ job[n] = "deleting"
    /\ \E i \in incs : i.name = n /\ incs' = incs \ {i}
    /\ Disturb(Of(Names \ {n}))
    /\ UNCHANGED <<mirror, markers, backup, history, deletion>>

\* rdiff-backup-delete exits and lets the lock go: with 0 when nothing is left, or
\* half-way.  The job has not told it yet.
DeleteExits(n) ==
    /\ job[n] = "deleting" /\ ~Exists(n)
    /\ job' = [job EXCEPT ![n] = "exited"]
    /\ damaged' = damaged \ {n}
    /\ history' = [d \in DOMAIN history |-> [history[d] EXCEPT ![n] = absent]]
    /\ Disturb(Of(Names \ {n}))
    /\ UNCHANGED <<disk, backup, asked>>

DeleteFails(n) ==
    /\ job[n] = "deleting"
    /\ job' = [job EXCEPT ![n] = "broken"]
    /\ damaged' = damaged \cup {n}
    /\ history' = [history EXCEPT ![LastDate][n] = mirror[n]]
    /\ Disturb(Of(Names \ {n}))
    /\ UNCHANGED <<disk, backup, asked>>

\* The message, once the process has exited: that it was completed, or else that it
\* failed ("none"): a code other than 0 raises, and so may the commit of a success.
\* Mutant: whatever the code.
OutcomesAny(exit) == {"done", "none"}
Outcomes(exit) == IF exit = "exited" THEN {"done", "none"} ELSE {"none"}

TellEnd(n) ==
    /\ job[n] \in {"exited", "broken"}
    /\ \E outcome \in Outcomes(job[n]) : job' = [job EXCEPT ![n] = outcome]
    /\ asked' = [asked EXCEPT ![n] = 0]
    /\ UNCHANGED <<disk, backup, history, damaged, req>>

Delete(n) ==
    \/ DeleteRefused(n) \/ StartDelete(n) \/ DeleteMirror(n) \/ DeleteIncrement(n)
    \/ DeleteExits(n) \/ DeleteFails(n) \/ TellEnd(n)

-----------------------------------------------------------------------------
Next ==
    \/ \E t \in Threads :
         \/ Browse(t) \/ \E n \in Names : History(t, n)
         \/ Look(t) \/ Answer(t)
    \/ StartBackup \/ PatchMirror \/ FinishBackup \/ Interrupt \/ Regress
    \/ \E n \in Names, v \in States : WriteIncrement(n, v)
    \/ \E d \in Dates : RemoveOlder(d)
    \/ \E n \in Names : ScheduleDelete(n) \/ Delete(n)

Spec == Init /\ [][Next]_vars

-----------------------------------------------------------------------------
(***************************************************************************)
(* Properties                                                              *)
(***************************************************************************)
\* The variables have the types of the files, jobs and requests they model; an
\* entry has at most one increment for a date, of a backup that is not the last.
TypeOK ==
    /\ mirror \in [Names -> States]
    /\ incs \subseteq Increments
    /\ \A i, j \in incs : i.name = j.name /\ i.date = j.date => i = j
    /\ markers \subseteq Dates /\ Cardinality(markers) = (IF backup.pc = "none" THEN 1 ELSE 2)
    /\ backup.pc \in {"none", "run", "dead"} /\ backup.todo \subseteq Names
    /\ DOMAIN history \subseteq Dates /\ LastDate \in markers
    /\ job \in [Names -> {"none", "scheduled", "deleting", "exited", "broken", "done"}]
    /\ asked \in [Names -> Dates \cup {0}] /\ damaged \subseteq Names
    /\ \A t \in Threads : /\ req[t].exists \cup {i.name : i \in req[t].incs} \subseteq req[t].names
                        /\ req[t].had \subseteq Of(req[t].names)

\* A backup, a deletion of something else or the removal of old backups that runs
\* while a page reads the directory and its increments hides no entry with a
\* version that could be restored all the time (librdiff.py:917 and :979 list twice,
\* without a lock), unless the page says that the repository failed; and it says so
\* only when somebody wrote (page_browse.py:47).  A page that reads while an
\* interrupted backup is undone is promised nothing.
NothingIsHidden ==
    \A t \in Threads : Answered(req[t]) =>
        IF req[t].failed THEN ~req[t].quiet ELSE {x[1] : x \in req[t].had} \subseteq Entries(req[t])

\* The page of a repository nobody was writing to, after whatever backups,
\* interruptions, removals and deletions there have been.
Undisturbed(r) == Answered(r) /\ r.quiet
Interrupted    == backup.pc = "dead"

\* Unless the last backup was interrupted and is not undone yet, such a page offers
\* a date for every version there is of an entry that is not half deleted: restoring
\* it at one of its dates gives what it was at any backup that is kept
\* (librdiff.py:343 change_dates).
Unchanged(n, d, e) ==
    \A f \in DOMAIN history : d <= f /\ f <= e => history[f][n] = history[d][n]
EveryVersionIsOffered ==
    \A t \in Threads : Undisturbed(req[t]) /\ ~Interrupted =>
        \A d \in DOMAIN history : \A n \in {m \in req[t].names \ damaged : history[d][m] # absent} :
            \E e \in ChangeDates(req[t], n) : d <= e /\ Unchanged(n, d, e)

\* And it offers no date but of a backup that is kept and has the entry -- or of the
\* backup that was interrupted, which is none (librdiff.py:1035 last_backup_date).
OfferedDatesRestore ==
    \A t \in Threads : Undisturbed(req[t]) =>
        \A n \in Entries(req[t]) \ damaged : \A e \in ChangeDates(req[t], n) :
            \/ e \in DOMAIN history /\ history[e][n] # absent
            \/ Interrupted /\ e = LastDate + 1

\* The audit log tells of a completed deletion only when no version can be restored,
\* and no page offers one, that a backup had before the deletion was asked for.  The
\* entry may be there again: the process lets the lock go before the job tells, and a
\* backup may make it anew (librdiff.py:841 checks the exit code, _repo.py:57 tells).
DoneMeansGone ==
    [][\A n \in Names : job[n] # "done" /\ job'[n] = "done" =>
          /\ \A d \in DOMAIN history : d <= asked[n] => history[d][n] = absent
          /\ \A i \in incs : i.name = n /\ ~i.missing => i.date > asked[n]
          /\ mirror[n] # absent => backup.pc # "none" \/ LastDate > asked[n]]_vars

=============================================================================
