---------------------------- MODULE DiskUsageScan ----------------------------
(***************************************************************************)
(* The nightly scan of disk usage: `du` prints the size of every folder of *)
(* a repository, in the mirror and in the increments, and one row per      *)
(* folder keeps both sizes.  Backups change the folders meanwhile, du may  *)
(* fail, repositories are deleted and the server is restarted.             *)
(*                                                                         *)
(* rdiffweb/core/diskusage.py, core/model/_diskusage.py, _repo.py.         *)
(***************************************************************************)
EXTENDS Integers

CONSTANTS
    Repos,      \* repositories, by the id of their record
    Folders,    \* folders below a repository
    Sizes,      \* what du prints for a folder
    ForeignKeys,\* TRUE when the database enforces foreign keys
    Second,     \* instants in a second: the resolution of the column LastUpdated
    Horizon,    \* bound: the last instant
    MaxChanges, \* bound: changes of the disk
    MaxFaults   \* bound: failures and restarts

ASSUME ForeignKeysAssumption == ForeignKeys \in BOOLEAN
ASSUME SizesAssumption == Sizes \subseteq Nat
ASSUME TimeAssumption == Second \in Nat \ {0} /\ Horizon \in Nat
ASSUME BoundsAssumption == MaxChanges \in Nat /\ MaxFaults \in Nat

VARIABLES
    now,        \* the time
    known,      \* the records of table repos
    disk,       \* by repository, part and folder: its size, or None
    rows,       \* table diskusages: by repository and folder, or NoRow
    pending,    \* jobs that the scheduler is about to run: "daily", "now"
    job,        \* the job that holds the lock
    changes,    \* changes of the disk so far
    faults      \* failures so far

vars == <<now, known, disk, rows, pending, job, changes, faults>>

None  == -1
NoRow == [mirror |-> None, increments |-> None, at |-> None]
Parts == {"mirror", "increments"}
Lines == Parts \X Folders
Triggers == {"daily", "now"}

\* The lock is free when the pc is "idle".  fresh, changed and faulty are
\* history: the rows this scan wrote, whether the disk or the record changed
\* under it, and whether du or the database failed it.
Idle == [pc |-> "idle", left |-> {}, repo |-> None, start |-> 0, todo |-> {}, got |-> <<>>,
         fresh |-> {}, changed |-> FALSE, faulty |-> FALSE]

Init ==
    /\ now = 0
    /\ known = Repos
    /\ \E d \in [Lines -> {None} \cup Sizes] : disk = [r \in Repos |-> d]
    /\ rows = [r \in Repos |-> [f \in Folders |-> NoRow]]
    /\ pending = {"now"}
    /\ job = Idle
    /\ changes = 0 /\ faults = 0

Count(c, bound) == c < bound /\ c' = c + 1

-----------------------------------------------------------------------------
(***************************************************************************)
(* Around the job                                                          *)
(***************************************************************************)
Tick ==
    /\ now < Horizon
    /\ now' = now + 1
    /\ UNCHANGED <<known, disk, rows, pending, job, changes, faults>>

Touch(r) == job' = IF job.repo = r THEN [job EXCEPT !.changed = TRUE] ELSE job

\* A backup changes a folder, or the folder is gone.
ChangeDisk(r, line, size) ==
    /\ disk[r][line] # size /\ Count(changes, MaxChanges)
    /\ disk' = [disk EXCEPT ![r][line] = size]
    /\ Touch(r)
    /\ UNCHANGED <<now, known, rows, pending, faults>>

\* The id may be one that a deleted record had, whose rows are still there.
AddRepo(r) ==
    /\ r \notin known /\ Count(changes, MaxChanges)
    /\ known' = known \cup {r}
    /\ Touch(r)
    /\ UNCHANGED <<now, disk, rows, pending, faults>>

\* The rows go with the record where ON DELETE CASCADE is enforced; on SQLite,
\* where foreign keys are off, and no relation cascades, they stay.
DeleteRepo(r) ==
    /\ r \in known /\ Count(changes, MaxChanges)
    /\ known' = known \ {r}
    /\ rows' = IF ForeignKeys THEN [rows EXCEPT ![r] = [f \in Folders |-> NoRow]] ELSE rows
    /\ Touch(r)
    /\ UNCHANGED <<now, disk, pending, faults>>

\* The time of the daily job has come.
Daily ==
    /\ "daily" \notin pending
    /\ pending' = pending \cup {"daily"}
    /\ UNCHANGED <<now, known, disk, rows, job, changes, faults>>

\* The server stops within a job; start() adds a job when there are no rows.
Restart ==
    /\ Count(faults, MaxFaults)
    /\ job' = Idle
    /\ pending' = IF \A r \in Repos, f \in Folders : rows[r][f] = NoRow THEN {"now"} ELSE {}
    /\ UNCHANGED <<now, known, disk, rows, changes>>

-----------------------------------------------------------------------------
(***************************************************************************)
(* The job                                                                 *)
(***************************************************************************)
\* _disk_usage_job: the lock is tried, never waited for.
TryLock(t) ==
    /\ t \in pending
    /\ pending' = pending \ {t}
    /\ job' = IF job.pc = "idle" THEN [job EXCEPT !.pc = "load"] ELSE job
    /\ UNCHANGED <<now, known, disk, rows, changes, faults>>

\* The lock is released whatever happens.
\* Mutant: only when the scan went well.
ReleaseAfterSuccess(ok) == IF ok THEN Idle ELSE [job EXCEPT !.pc = "held"]
Release(ok) == Idle

\* The records are read once for the whole scan; the query may fail.
LoadRepos ==
    /\ job.pc = "load"
    /\ \/ job' = [job EXCEPT !.pc = "repos", !.left = known] /\ UNCHANGED faults
       \/ Count(faults, MaxFaults) /\ job' = Release(FALSE)
    /\ UNCHANGED <<now, known, disk, rows, pending, changes>>

\* One second of margin for a column that has no fractions.
\* Mutant: no margin.
CutoffNow(t) == t
Cutoff(t) == t - Second

\* A repository that is no directory is skipped; du may not start.
ScanRepo(r) ==
    /\ job.pc = "repos" /\ r \in job.left
    /\ LET empty == \A line \in Lines : disk[r][line] = None
           begin == [job EXCEPT !.pc = "du", !.left = @ \ {r}, !.repo = r, !.start = Cutoff(now),
                                !.todo = Lines, !.fresh = {}, !.changed = FALSE, !.faulty = FALSE]
       IN \/ empty  /\ job' = [job EXCEPT !.left = @ \ {r}] /\ UNCHANGED faults
          \/ ~empty /\ job' = begin /\ UNCHANGED faults
          \/ ~empty /\ Count(faults, MaxFaults) /\ job' = [begin EXCEPT !.todo = {}, !.faulty = TRUE]
    /\ UNCHANGED <<now, known, disk, rows, pending, changes>>

\* du visits the folders one after the other and prints those that exist.
PrintLine(line) ==
    /\ job.pc = "du" /\ line \in job.todo
    /\ job' = IF disk[job.repo][line] = None THEN [job EXCEPT !.todo = @ \ {line}]
              ELSE [job EXCEPT !.pc = "update", !.todo = @ \ {line},
                               !.got = <<line[1], line[2], disk[job.repo][line]>>]
    /\ UNCHANGED <<now, known, disk, rows, pending, changes, faults>>

\* du dies: the folders it has not visited are not printed.
DuFails ==
    /\ job.pc = "du" /\ job.todo # {} /\ Count(faults, MaxFaults)
    /\ job' = [job EXCEPT !.todo = {}, !.faulty = TRUE]
    /\ UNCHANGED <<now, known, disk, rows, pending, changes>>

\* LastUpdated is the time of the database, in whole seconds.
LastUpdated(t) == t - (t % Second)

\* _update_disk_usage: the row is updated, or inserted when there is none.
\* Mutant: an update leaves LastUpdated.
WrittenUndated(row, part, size, t) ==
    [row EXCEPT ![part] = size, !.at = IF row = NoRow THEN LastUpdated(t) ELSE @]
Written(row, part, size, t) == [row EXCEPT ![part] = size, !.at = LastUpdated(t)]

\* A row of a record that is gone is refused where foreign keys are enforced.
Accepted(r) == ForeignKeys => r \in known

\* A failure is logged and the next line is read.
UpdateRow ==
    /\ job.pc = "update"
    /\ LET r == job.repo   f == job.got[2]
           done == [job EXCEPT !.pc = "du", !.got = <<>>]
       IN \/ /\ rows' = IF Accepted(r)
                        THEN [rows EXCEPT ![r][f] = Written(@, job.got[1], job.got[3], now)]
                        ELSE rows
             /\ job' = IF Accepted(r) THEN [done EXCEPT !.fresh = @ \cup {f}] ELSE done
             /\ UNCHANGED faults
          \/ Count(faults, MaxFaults) /\ job' = [done EXCEPT !.faulty = TRUE] /\ UNCHANGED rows
    /\ UNCHANGED <<now, known, disk, pending, changes>>

\* The rows this scan has not written are deleted, be it that du failed.
Pruned(r) == [f \in Folders |-> IF rows[r][f].at < job.start THEN NoRow ELSE rows[r][f]]

Prune ==
    /\ job.pc = "du" /\ job.todo = {}
    /\ job' = [job EXCEPT !.pc = "repos", !.repo = None, !.fresh = {}, !.start = 0]
    /\ \/ rows' = [rows EXCEPT ![job.repo] = Pruned(job.repo)] /\ UNCHANGED faults
       \/ Count(faults, MaxFaults) /\ UNCHANGED rows
    /\ UNCHANGED <<now, known, disk, pending, changes>>

EndScan ==
    /\ job.pc = "repos" /\ job.left = {}
    /\ job' = Release(TRUE)
    /\ UNCHANGED <<now, known, disk, rows, pending, changes, faults>>

\* RepoObject.listdir: the size the browser shows for a folder, None without a row.
Shown(r, f, part) == rows[r][f][part]

-----------------------------------------------------------------------------
ScanStep ==
    \/ LoadRepos \/ UpdateRow \/ Prune \/ EndScan
    \/ \E r \in Repos : ScanRepo(r)
    \/ \E line \in Lines : PrintLine(line)

Next ==
    \/ Tick \/ Daily \/ Restart \/ DuFails \/ ScanStep
    \/ \E t \in Triggers : TryLock(t)
    \/ \E r \in Repos :
         \/ AddRepo(r) \/ DeleteRepo(r)
         \/ \E line \in Lines, size \in {None} \cup Sizes : ChangeDisk(r, line, size)

Spec == Init /\ [][Next]_vars

\* Each thread of the scheduler runs, and du ends.
FairSpec == Spec /\ WF_vars(ScanStep) /\ \A t \in Triggers : WF_vars(TryLock(t))

-----------------------------------------------------------------------------
(***************************************************************************)
(* Properties                                                              *)
(***************************************************************************)
Row == [mirror : {None} \cup Sizes, increments : {None} \cup Sizes, at : -1..Horizon]

\* The variables have the types of the rows, folders and threads they model.
TypeOK ==
    /\ now \in 0..Horizon
    /\ known \subseteq Repos
    /\ disk \in [Repos -> [Lines -> {None} \cup Sizes]]
    /\ rows \in [Repos -> [Folders -> Row]]
    /\ pending \subseteq Triggers
    /\ job.pc \in {"idle", "load", "repos", "du", "update"}
    /\ job.left \subseteq Repos /\ job.repo \in Repos \cup {None}
    /\ job.todo \subseteq Lines /\ job.fresh \subseteq Folders
    /\ changes \in 0..MaxChanges /\ faults \in 0..MaxFaults

\* A row this scan wrote is not one the scan deletes as stale, however slow it
\* was and whatever the second in which it began.
FreshRowsAreKept ==
    job.pc \in {"du", "update"} =>
        \A f \in job.fresh : rows[job.repo][f] # NoRow => rows[job.repo][f].at >= job.start

\* When du went through a repository that nobody changed, deleted or made again
\* with the same id, and no query failed,
\* the browser shows the size of each folder that is there, whatever happened to
\* the other repositories, to the repository before or to scans before.
ScanIsAccurate ==
    [][\A r \in known :
          (job.pc = "du" /\ job.repo = r /\ job'.pc = "repos" /\ ~job.faulty /\ ~job.changed
             /\ faults' = faults)
             => \A f \in Folders : \A part \in Parts :
                    disk[r][<<part, f>>] # None => Shown(r, f, part)' = disk[r][<<part, f>>]]_vars

\* A scan ends and the next one finds the lock free.
LockIsReleased == job.pc # "idle" ~> job.pc = "idle"
=============================================================================
