----------------------------- MODULE RepoStatus -----------------------------
(***************************************************************************)
(* What rdiffweb says of a repository while rdiff-backup works on it: the  *)
(* marker files and their process ids, how late the last backup is, the    *)
(* mail sent at night and the removal of old backups.                      *)
(*                                                                         *)
(* rdiffweb/core/librdiff.py (status, MetadataDict, remove_older),         *)
(* core/model/_repo.py (status), core/notification.py (notification_job),  *)
(* core/remove_older.py and controller/page_settings.py.                   *)
(***************************************************************************)
EXTENDS Integers, Sequences, SequencesExt, FiniteSetsExt

CONSTANTS
    Repos,          \* the repositories of one user
    Pids,           \* process ids the system gives out, again and again
    Settings,       \* bound: the settings a user may choose
    Given,          \* bound: the fields a request of the API may give
    MaxIncrements,  \* bound: backups of a repository that succeed
    Activity,       \* bound: whether a backup may find changed files
    PerDay,         \* instants in a day
    LastStart,      \* bound: the last instant at which a backup starts
    Horizon         \* bound: the last instant

ASSUME BoundsAssumption == PerDay \in Nat \ {0} /\ Horizon \in Nat
    /\ MaxIncrements \in Nat \ {0} /\ LastStart \in Nat /\ Activity \subseteq BOOLEAN
ASSUME SettingsAssumption ==
    Settings \subseteq [maxage : Nat, inactivity : Nat, ignored : SUBSET (0..6), keepdays : Int]

VARIABLES
    now,            \* the time, from a Monday at midnight
    settings,       \* columns maxage, inactivity, ignore_weekday, keepdays
    deleting,       \* column status is "deleting"
    readable,       \* rdiff-backup-data is there and its permissions are right
    marks,          \* its current_mirror.* files: [at, pid], sorted by name
    stats,          \* its session_statistics.*, one per backup that succeeded
    backup,         \* the backup that is running, if any
    interrupted,    \* the last backup did not end well
    running,        \* the process ids under which an rdiff-backup runs
    job             \* notification_job at work on the user

vars  == <<now, settings, deleting, readable, marks, stats, backup, interrupted, running, job>>
files == <<readable, marks, stats>>

Times == 0..Horizon
Mark    == [at : Times, pid : Pids]
Session == [at : Times, active : BOOLEAN]
NoBackup == [at |-> -1]

Idle == [pc |-> "idle", left |-> {}, bad |-> {}]
Statuses == {"deleting", "failed", "in_progress", "interrupted", "overdue", "inactive", "ok", "raised"}

\* What there is to say of a repository, from what happened to it.  A backup that was
\* interrupted is one, be it the first of its repository.
TrueHealth(r) ==
    IF ~readable[r] THEN "failed"
    ELSE IF backup[r] # NoBackup THEN "in_progress"
    ELSE IF interrupted[r] THEN "interrupted" ELSE "healthy"

\* A repository is known to rdiffweb once its first backup has made rdiff-backup-data.
Init ==
    /\ now = 0
    /\ settings \in [Repos -> Settings]
    /\ deleting = [r \in Repos |-> FALSE]
    /\ readable = [r \in Repos |-> TRUE]
    /\ marks = [r \in Repos |-> <<>>]
    /\ stats = [r \in Repos |-> <<>>]
    /\ \E first \in [Repos -> Pids] :
         /\ \A r, q \in Repos : first[r] = first[q] => r = q
         /\ backup = [r \in Repos |-> [at |-> 0, pid |-> first[r]]]
         /\ running = {first[r] : r \in Repos}
    /\ interrupted = [r \in Repos |-> FALSE]
    /\ job = Idle

-----------------------------------------------------------------------------
(***************************************************************************)
(* Dates                                                                   *)
(***************************************************************************)
Days(span)  == span \div PerDay
Weekday(t)  == (t \div PerDay) % 7

\* The index and the slices of MetadataDict, by bisection over sorted dates.
BisectLeft(s, t)  == Cardinality({i \in DOMAIN s : s[i].at < t})
BisectRight(s, t) == Cardinality({i \in DOMAIN s : s[i].at <= t})

\* A bound that is no RdiffTime reaches the list as it is: TypeError.
Slice(s, from, to, type) ==
    IF type # "RdiffTime" THEN "raised" ELSE SubSeq(s, BisectLeft(s, from) + 1, BisectRight(s, to))

\* Full weeks, then the days that remain.
\* Mutant: the days that remain are counted from the last backup's weekday on, one too late.
ActiveDaysShifted(start, end, ignored) ==
    LET total == Days(end - start)
        rest  == {i \in 1..(total % 7) : Weekday(start + i * PerDay) \notin ignored}
    IN (total \div 7) * (7 - Cardinality(ignored)) + Cardinality(rest)
ActiveDays(start, end, ignored) ==
    LET total == Days(end - start)
        rest  == {i \in 0..((total % 7) - 1) : Weekday(start + i * PerDay) \notin ignored}
    IN (total \div 7) * (7 - Cardinality(ignored)) + Cardinality(rest)

\* last_backup_date, -1 for None: the newest marker, be its backup over or not.
LastBackupDate(ms) == IF ms = <<>> THEN -1 ELSE Last(ms).at

Overdue(c, ms, t) ==
    LET last == LastBackupDate(ms) IN
    /\ c.maxage > 0
    /\ \/ last = -1
       \/ Days(t - last) >= c.maxage /\ ActiveDays(last, t, c.ignored) >= c.maxage

\* `now` and the start of the window are made with datetime.now().
WindowType == "datetime"

Inactive(c, ss, t) ==
    LET recent == Slice(ss, t - c.inactivity * PerDay, t, WindowType) IN
    IF c.maxage <= 0 \/ c.inactivity < c.maxage \/ ss = <<>> THEN "no"
    ELSE IF recent = "raised" THEN "raised"
    ELSE LET counted == {i \in DOMAIN recent : Weekday(recent[i].at) \notin c.ignored}
         IN IF counted # {} /\ \A i \in counted : ~recent[i].active THEN "yes" ELSE "no"

\* RepoObject.status once the files say "ok".
AgeStatus(c, ms, ss, t) ==
    IF Overdue(c, ms, t) THEN "overdue"
    ELSE CASE Inactive(c, ss, t) = "raised" -> "raised"
           [] Inactive(c, ss, t) = "yes"    -> "inactive"
           [] OTHER                         -> "ok"

-----------------------------------------------------------------------------
(***************************************************************************)
(* rdiff-backup and the system                                             *)
(***************************************************************************)
\* What happens to the repository whose status is being computed is remembered: the
\* status may mix before and after.
See(r) ==
    job' = IF job.pc = "check" /\ job.repo = r THEN [job EXCEPT !.seen = @ \cup {TrueHealth(r)'}]
           ELSE job

\* An instant is long, the look at a repository short.
Tick ==
    /\ now < Horizon /\ job.pc = "idle"
    /\ now' = now + 1
    /\ UNCHANGED <<settings, deleting, files, backup, interrupted, running, job>>

\* A marker of its own, after the one of the last backup; a failed backup is
\* undone first.  The first backup writes its marker when it ends.
\* Mutant: a failed backup is left as it is.
MarkedAgain(ms, m) == IF ms = <<>> THEN <<>> ELSE Append(ms, m)
Marked(ms, m) == IF ms = <<>> THEN <<>> ELSE <<ms[1], m>>

StartBackup(r, p) ==
    /\ backup[r] = NoBackup /\ p \notin running /\ readable[r] /\ now <= LastStart
    /\ LastBackupDate(marks[r]) < now
    /\ Len(stats[r]) < MaxIncrements
    /\ backup' = [backup EXCEPT ![r] = [at |-> now, pid |-> p]]
    /\ running' = running \cup {p}
    /\ marks' = [marks EXCEPT ![r] = Marked(@, [at |-> now, pid |-> p])]
    /\ interrupted' = [interrupted EXCEPT ![r] = FALSE]
    /\ UNCHANGED <<now, settings, deleting, readable, stats>>
    /\ See(r)

EndBackup(r, active) ==
    /\ backup[r] # NoBackup /\ readable[r]
    /\ marks' = [marks EXCEPT ![r] = <<backup[r]>>]
    /\ stats' = [stats EXCEPT ![r] = Append(@, [at |-> backup[r].at, active |-> active])]
    /\ running' = running \ {backup[r].pid}
    /\ backup' = [backup EXCEPT ![r] = NoBackup]
    /\ UNCHANGED <<now, settings, deleting, readable, interrupted>>
    /\ See(r)

CrashBackup(r) ==
    /\ backup[r] # NoBackup
    /\ running' = running \ {backup[r].pid}
    /\ backup' = [backup EXCEPT ![r] = NoBackup]
    /\ interrupted' = [interrupted EXCEPT ![r] = TRUE]
    /\ UNCHANGED <<now, settings, deleting, files>>
    /\ See(r)

\* Process ids are used again, for other programs and for other backups.
OtherProcess(p) ==
    /\ \A r \in Repos : backup[r] # NoBackup => backup[r].pid # p
    /\ running' = SymDiff(running, {p})
    /\ UNCHANGED <<now, settings, deleting, files, backup, interrupted, job>>

\* The directory is moved away, or its permissions change.
ChangeAccess(r) ==
    /\ readable' = [readable EXCEPT ![r] = ~@]
    /\ UNCHANGED <<now, settings, deleting, marks, stats, backup, interrupted, running>>
    /\ See(r)

-----------------------------------------------------------------------------
(***************************************************************************)
(* The web server                                                          *)
(***************************************************************************)
\* RepoSettingsForm: an inactivity period is no shorter than the overdue period,
\* and only a maintainer changes what is kept.
Valid(r, c, maintainer) ==
    /\ c.maxage > 0 /\ c.inactivity > 0 => c.inactivity >= c.maxage
    /\ c.keepdays # settings[r].keepdays => maintainer

SaveSettings(r, c, maintainer) ==
    /\ Valid(r, c, maintainer)
    /\ settings[r] # c
    /\ settings' = [settings EXCEPT ![r] = c]
    /\ UNCHANGED <<now, deleting, files, backup, interrupted, running, job>>

\* ApiRepos.post: the same form, where a field that is not given keeps its value.
\* Bounded to the settings in Settings.
PostSettings(r, given, c, maintainer) ==
    LET posted == [f \in DOMAIN c |-> IF f \in given THEN c[f] ELSE settings[r][f]]
    IN posted \in Settings /\ SaveSettings(r, posted, maintainer)

ScheduleDelete(r) ==
    /\ ~deleting[r]
    /\ deleting' = [deleting EXCEPT ![r] = TRUE]
    /\ UNCHANGED <<now, settings, files, backup, interrupted, running, job>>

\* notification_job looks at every repository of the user.
StartJob ==
    /\ job.pc = "idle"
    /\ job' = [pc |-> "next", left |-> Repos, bad |-> {}]
    /\ UNCHANGED <<now, settings, deleting, files, backup, interrupted, running>>

\* One more status is known; an exception makes the job give up the user.
Decide(r, status) ==
    job' = IF status = "raised" THEN [pc |-> "mail", left |-> job.left, bad |-> {}]
           ELSE [pc |-> "next", left |-> job.left \ {r},
                 bad |-> job.bad \cup (IF status = "ok" THEN {} ELSE {r})]

\* status: the mark for deletion first, then the listing of rdiff-backup-data.
ListEntries(r) ==
    /\ job.pc = "next" /\ r \in job.left
    /\ IF deleting[r] THEN Decide(r, "deleting")
       ELSE LET ms == IF readable[r] THEN marks[r] ELSE <<>> IN
            job' = [pc |-> "check", left |-> job.left, bad |-> job.bad, repo |-> r,
                    marks |-> ms, todo |-> ms, stats |-> stats[r], failed |-> ~readable[r],
                    seen |-> {TrueHealth(r)}, status |-> ""]
    /\ UNCHANGED <<now, settings, deleting, files, backup, interrupted, running>>

Found(status) == job' = [job EXCEPT !.status = status]

\* The next marker: it cannot be read any more, or its process is looked up.
CheckMark ==
    /\ job.pc = "check" /\ job.status = "" /\ job.todo # <<>>
    /\ LET m == Head(job.todo) IN
       IF m \notin ToSet(marks[job.repo]) \/ ~readable[job.repo] THEN Found("failed")
       ELSE IF m.pid \in running THEN Found("in_progress")
       ELSE job' = [job EXCEPT !.todo = Tail(@)]
    /\ UNCHANGED <<now, settings, deleting, files, backup, interrupted, running>>

\* No marker belongs to a backup that runs.
\* Mutant: two markers mean nothing.
FileStatusOne(j) ==
    IF j.failed THEN "failed" ELSE IF Len(j.marks) = 0 THEN "in_progress" ELSE "ok"
FileStatus(j) ==
    IF j.failed THEN "failed"
    ELSE CASE Len(j.marks) = 0 -> "in_progress"
           [] Len(j.marks) > 1 -> "interrupted"
           [] OTHER            -> "ok"

Conclude ==
    /\ job.pc = "check" /\ job.status = "" /\ job.todo = <<>>
    /\ Found(IF FileStatus(job) # "ok" THEN FileStatus(job)
             ELSE AgeStatus(settings[job.repo], job.marks, job.stats, now))
    /\ UNCHANGED <<now, settings, deleting, files, backup, interrupted, running>>

NextRepo ==
    /\ job.pc = "check" /\ job.status # ""
    /\ Decide(job.repo, job.status)
    /\ UNCHANGED <<now, settings, deleting, files, backup, interrupted, running>>

\* All statuses are known: a mail about those that are not "ok".
SendMail ==
    /\ \/ job.pc = "next" /\ job.left = {}
       \/ job.pc = "mail"
    /\ job' = Idle
    /\ UNCHANGED <<now, settings, deleting, files, backup, interrupted, running>>

\* remove_older_job: so many days from now on that keepdays of them are before
\* the last backup.
\* Mutant: counted from today.
RemovalDaysToday(r) == settings[r].keepdays
RemovalDays(r) == Days(now - LastBackupDate(marks[r])) + settings[r].keepdays

Kept(r, s) == s.at >= now - RemovalDays(r) * PerDay \/ s.at = LastBackupDate(marks[r])

\* rdiff-backup refuses while a backup runs or has to be undone, and never
\* removes the last one; what is older comes first.
RemoveOlder(r) ==
    /\ settings[r].keepdays > 0
    /\ readable[r] /\ Len(marks[r]) = 1 /\ backup[r] = NoBackup
    /\ \E n \in DOMAIN stats[r] :
          /\ \A i \in DOMAIN stats[r] : Kept(r, stats[r][i]) <=> i > n
          /\ stats' = [stats EXCEPT ![r] = SubSeq(@, n + 1, Len(@))]
    /\ UNCHANGED <<now, settings, deleting, readable, marks, backup, interrupted, running, job>>

-----------------------------------------------------------------------------
Next ==
    \/ Tick
    \/ \E r \in Repos :
         \/ \E p \in Pids : StartBackup(r, p)
         \/ \E active \in Activity : EndBackup(r, active)
         \/ CrashBackup(r) \/ ChangeAccess(r)
         \/ \E c \in Settings, maintainer \in BOOLEAN :
              \/ SaveSettings(r, c, maintainer)
              \/ \E given \in Given : PostSettings(r, given, c, maintainer)
         \/ ScheduleDelete(r) \/ RemoveOlder(r) \/ ListEntries(r)
    \/ \E p \in Pids : OtherProcess(p)
    \/ StartJob \/ CheckMark \/ Conclude \/ NextRepo \/ SendMail

Spec == Init /\ [][Next]_vars

-----------------------------------------------------------------------------
(***************************************************************************)
(* Properties                                                              *)
(***************************************************************************)
\* The variables have the types of the columns, files and processes they model.
TypeOK ==
    /\ now \in Times
    /\ settings \in [Repos -> Settings]
    /\ deleting \in [Repos -> BOOLEAN]
    /\ readable \in [Repos -> BOOLEAN]
    /\ \A r \in Repos :
         /\ Len(marks[r]) <= 2 /\ ToSet(marks[r]) \subseteq Mark
         /\ Len(stats[r]) <= MaxIncrements /\ ToSet(stats[r]) \subseteq Session
         /\ backup[r] \in Mark \cup {NoBackup}
    /\ interrupted \in [Repos -> BOOLEAN]
    /\ running \subseteq Pids
    /\ job.pc \in {"idle", "next", "check", "mail"}
    /\ job.left \subseteq Repos /\ job.bad \subseteq Repos

Health(status) == IF status \in {"failed", "in_progress", "interrupted"} THEN status ELSE "healthy"

\* A status is told: it is not known before the step, and after it.
Told == job.pc = "check" /\ job.status = "" /\ job'.status # ""

\* A status that is told was true at some moment since the markers were listed; one
\* that says that the last backup went well always was.  The others may be false
\* alarms: a backup that began or ended in between makes "failed" or "interrupted" of
\* the markers it moved (_repo.py:421, librdiff.py:1175); "in_progress" is also told
\* when another rdiff-backup got the process id of a marker (librdiff.py:1162), and of
\* a first backup that was interrupted (librdiff.py:1174).
StatusIsTrue ==
    [][Told =>
         LET told  == Health(job'.status)
             moved == "in_progress" \in job.seen /\ job.seen # {"in_progress"}
         IN \/ told \in job.seen
            \/ told \in {"failed", "interrupted"} /\ moved
            \/ /\ told = "in_progress"
               /\ \/ \E m \in ToSet(job.todo) : m.pid \in running
                  \/ job.marks = <<>> /\ "interrupted" \in job.seen]_vars

\* "if the last backup date is undefined, this mean the first initial backup was
\* interrupted": of a repository that was interrupted all the time it was read the
\* status tells so (librdiff.py:1171-1173).
InterruptedIsTold ==
    [][Told /\ job.seen = {"interrupted"} => job'.status = "interrupted"]_vars

\* Overdue means what the settings page says: that many days since the last
\* backup, ignored weekdays not counted, each day looked at on its own.
OverdueIsCounted ==
    \A r \in Repos :
        LET last == LastBackupDate(marks[r])
            c    == settings[r]
            counted == {i \in 0..(Days(now - last) - 1) : Weekday(last + i * PerDay) \notin c.ignored}
        IN c.maxage > 0 /\ last # -1 =>
              (Overdue(c, marks[r], now) <=> Cardinality(counted) >= c.maxage)

\* remove_older takes only backups older than keepdays before the last one -- but for
\* the hours by which it runs later in the day than that one was made, less than a
\* day -- and always leaves the last one.
KeepdaysAreKept ==
    [][\A r \in Repos : \A s \in ToSet(stats[r]) \ ToSet(stats'[r]) :
          /\ stats'[r] # <<>>
          /\ LET last  == LastBackupDate(marks[r])
                 later == (now - last) % PerDay
             IN last + later - s.at > settings[r].keepdays * PerDay]_vars

\* The user is told at night of every backup that is overdue by a day or more:
\* "Send email notification when a repository get too old (without a backup)."
OverdueIsMailed ==
    [][job.pc # "idle" /\ job'.pc = "idle" =>
          \A r \in Repos :
              TrueHealth(r) = "healthy" /\ ~deleting[r] /\ LastBackupDate(marks[r]) # -1
                 /\ settings[r].ignored = {} /\ Days(now - LastBackupDate(marks[r])) > settings[r].maxage
                  => r \in job.bad]_vars
=============================================================================
