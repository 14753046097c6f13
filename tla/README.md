# A TLA+ model of rdiffweb

rdiffweb is a web interface to the repositories rdiff-backup writes.  A CherryPy
server answers requests in several threads, a scheduler runs jobs beside them, and
a database, reached through SQLAlchemy, keeps users, repositories, keys, tokens,
sessions and an audit log.  The backups themselves are directories that clients
write over SSH while the server runs.  `minarca-server/` adds a plugin that
restricts where users store data and keeps the `authorized_keys` of the SSH account.

This directory holds TLA+ modules translated from that code, configurations that
model-check them with TLC, and proofs that TLAPS checks.  Paths below are relative
to the repository; `core/` and `controller/` are those of `rdiffweb/`, and a line with a
file name alone belongs to the file of that name there.

## 1. Components

| Component | Source | State | Operations | Module |
|---|---|---|---|---|
| Repository and user lifecycle | `core/model/_user.py`, `_repo.py`, `_callbacks.py`, `librdiff.py:delete_repo`, pages that delete, edit and refresh | tables `users`, `repos`, `messages`; directories; what each session loaded; jobs in the scheduler | create and delete users, schedule the deletion of a user or repository, the two jobs, refresh from disk, change of root and status, restart | `RepoLifecycle` |
| Directory cache | `core/dircache.py` | a table from path to mtime and names; round-robin index | `listdir`, `remove_path`, the cycle of the background thread | `DirCache` |
| Backup reports | `core/notification.py` (`report_job`, `send_report`) | `report_time_range`, `report_last_sent` | the evening job; a change of preference | `ReportSchedule` |
| Keys of the SSH account | `minarca-server/.../plugins/minarca.py`, listeners of `_user.py` | file `authorized_keys` | rewritten after every commit that changes a key, a root or a status, and at start | `AuthorizedKeys` |
| Restore | `core/restore.py`, `page_restore.py`, `librdiff.py:restore` | pipe, child process, temporary directory | fork, header, archive, wait, disconnect | `RestorePipe`, `Download` |
| Disk usage | `core/diskusage.py`, `_diskusage.py` | table `diskusages`, a lock | daily scan: update, insert, prune | `DiskUsageScan` |
| Repository status and settings | `_repo.py:status`, `librdiff.py:status`, `notification_job`, `remove_older.py`, `page_settings.py` | marker files, process ids, settings | compute the status, send the mail of the night, remove old backups, change settings | `RepoStatus` |
| Accounts, tokens, sessions, audit | `page_pref_*.py`, `page_admin_users.py`, `api*.py`, `_token.py`, `_sshkey.py`, `_session.py`, `_message.py`, `formdb.py` | columns of an account, tokens, keys, sessions, messages, tasks | the forms and requests that change them, commit, rollback, publication | `AccountChanges` |
| Files of a repository | `librdiff.py` (`listdir`, `fstat`, `change_dates`, `delete_path`), `page_browse.py`, `page_history.py`, `page_delete.py` | mirror, increments, markers | browse, history, delete an entry, beside rdiff-backup | `RepoTree` |
| Schema update | `_update.py`, the `after_create` listeners | tables, indexes, constraints | columns added and filled, indexes, constraints, slashes stripped, duplicate and nested repositories removed | `SchemaUpdate` |
| Quota, Minarca shell and jail, other pages, configuration, packaging | `quota.py`, `shell.py`, `jail.py`, `controller/`, `config.py`, `rdw_app.py` | none of their own | run a command, render what the models hold, read options | not modelled (section 7) |

How they interact.  A page changes ORM objects and commits; listeners on the flush
register callbacks, and `run_tasks` publishes them on the CherryPy bus once the
transaction has ended (`_callbacks.py:32-40`).  The bus delivers them to the
scheduler (deletions), to the notification plugin (mail) and to the Minarca plugin
(`authorized_keys`).  Jobs open a session of their own and meet the pages only in
the database and on disk.  The directory cache is shared by all threads.  rdiff-backup
is not told of any of this: it locks a repository against itself, and readers take
what they find.

What is hard here:

* Requests and jobs act on snapshots: what a session loaded may be gone, or joined
  by more, when it commits.
* A deletion is a mark in the database, a callback in memory, a job in memory and a
  directory tree, four things that no transaction spans.
* The walk of a refresh, the scan of the disk usage and the pages of a repository read
  the disk in several steps while rdiff-backup writes it.
* The cache reads directories without its lock.
* A restore is two processes and a pipe, of which each child inherits more than its own.
* The reports depend on the calendar, on when the last one was sent, and on a
  preference that may change at any time; the status depends on process ids that the
  system uses again.
* What a form failed to save stays in the session of the thread unless it is rolled back.
* The update of the schema is a transaction on PostgreSQL and a series of commits on SQLite.

The properties that make each component correct:

* lifecycle: a job removes only what somebody asked to remove; a deletion that was
  scheduled goes on until it is done; records do not outlive their user.
* directory cache: what is answered is what a reading of the directory between the call
  and the return could give; what is stale gets refreshed.
* reports: each about one whole period, no day twice, and regularly.
* key file: it follows the database, and binds no key outside of the base directory.
* restore: what is not cut is complete and in order; the thread gets free; nothing is
  left behind.
* disk usage: an undisturbed scan shows what du measured; the lock gets free.
* status: it tells what happened to the backups; overdue means days counted one by one;
  `keepdays` are kept.
* accounts: a commit changes what was asked for and nothing else; messages and mails
  follow what was committed; a new password ends the other sessions.
* files: a page hides nothing and offers the dates that restore each version.
* schema: a server that serves has the whole schema and the data of the old one.

## 2. Modules

### RepoLifecycle

| Model | Code |
|---|---|
| `userStatus`, `userRoot` | columns of `users`; `"new"` before the INSERT, `"gone"` after the DELETE.  Ids are never reused (`sqlite_autoincrement`). |
| `repo`, `lastRow` | rows of `repos` by primary key and AUTOINCREMENT's memory of the last one |
| `disk` | pairs of root and path with an `rdiff-backup-data` directory |
| `audit` | the messages that say a deletion was scheduled: `schedule_delete_repo` adds one, the change of a user's status is logged by `create_messages` |
| `req` | one record per request thread: the validated form or the walk in progress, with the snapshot its session loaded, or a callback still to publish |
| `job` | what the in-memory scheduler holds and what a running job loaded |

A request is split where other threads can run in between: *begin* (load and
validate), the directories of a walk one by one, *commit*, *publish*.  A job is
split into *start* (load), one step per directory tree, *commit*.  Everything the
code does between two of these points is part of the same action.  A walk notes in `since`
the last key given out when it began; only `WalkLeavesOneRecord` reads it.  `AbortCommit`
and `RefusedJob` are the rollbacks: an UPDATE that finds no row, a foreign key that
refuses.  Foreign keys are a constant, since SQLite leaves them off and PostgreSQL
enforces them.  `Backup` is external: clients create repositories at any time.
`Restart` forgets threads, callbacks and jobs and runs the removal of duplicate
records of `update_repo_schema`.

Abstractions: a root and a path are values without inner structure, so that nested
repositories and the depth limit are left out; every walk visits the paths in any
order; a fault of the file system is one per path.  The message written when a job
fails, and the mails, are left out.

### DirCache

`listdir()` is cut at every access to the file system and at every look at the
table: first `lstat`, look-up, one step for each name `scandir` passes, second
`lstat`, publish.  `run()` is the snapshot of the keys, one `listdir(_update=True)`
for each path of the batch, and the move of the index.  `order` is the insertion
order of Python's dictionary, on which the round robin relies.  `always` and `ever`
are history variables: the names a directory had at all times, and at some time,
since a call began.  `add_path` (49-53) has no caller and is left out.
`RemovePath` takes a key out of `order` and leaves the order of the others.  There are
finitely many directories (`DirsAssumption`).

Assumption: no two changes have the same modification time (`IsNext`).  On a
file system whose clock ticks slower than two changes follow each other it does not
hold, and the cache can keep a wrong listing; nothing in the code prevents that.

### ReportSchedule

Time is counted in days.  The job of a day runs at 23:00; the times it computes are
midnights.  `StartTime` and `EndTime` are `send_report` lines 424-440, `Selected` and
`Borderline` the query of `report_job`: jobs start within seconds of 23:00, so that a
report sent exactly `report_time_range` days ago may be old enough or not, and the
model allows both.  `FirstDays` gives the calendar.  Faults are an evening without a
job (server down, exception) and a report that is queued but whose time is not
committed.  "Save and send report" on the preferences page sends a report and leaves
`report_last_sent` alone: it is no action here.  The module's own names begin with
`Report`, so that one proof module can extend it and `RepoStatus`, the other job of
`core/notification.py`; those of `AuthorizedKeys` begin with `Keys` for the same reason.

### AuthorizedKeys

| Model | Code |
|---|---|
| `tables`: `status`, `root`, `owner` | columns of `users`, and `sshkeys.UserID` by key (a key is the primary key, so it belongs to one account) |
| `file` | the lines of `authorized_keys`: key, user, root |
| `sync[t]` | thread t in `_update_authorized_keys()`: not in it, about to enter it (the callback of a commit, or `late_start`), after the query, after `open(filename, 'w')` |
| `unsure` | not in the code: a rewrite overlapped another or failed, and none has begun alone since |

`CommitChange` is the listeners of `_user.py` on the flush with `run_tasks`: `user_updating`
and `user_adding` correct the root before it is stored (`Confine`), and a change of the
keys, the root or the status, or a deletion, leaves a callback (`Concerns`).  An edit
whose corrected root is the stored one changes nothing and leaves none.  `Read`, `Open`
and `Write` are the three points of the rewrite other threads can see.  When two threads
have the file open the second writes over the beginning of what the first wrote: any
part of the older lines may remain, which `Write` allows.  `RewriteFails` drops the
callback at any point, `Restart` all of them.

Abstractions: the user's directory is created in no action; the comment and the type of
a key are part of it; `Outside` stands for the directories whose path does not start with
that of the base directory, which is what `_get_user_root` compares.  `Restricted` does
not change while the model runs, though a configuration may between two starts, and
roots stored before are then not corrected.  sshd, which may read the file while it is
empty, is not modelled.

### RestorePipe and Download

`Download` is the abstract specification of what a user is promised: files are put in
an archive, arrive in order and without gaps, a download that ends by itself has all of
them, one that is refused never had any.  `RestorePipe` has the code:

| Model | Code |
|---|---|
| `thread`, `body`, `cut` | the server's thread in `RestorePage._raw`, `pipe_restore` and `_file_generator`; what reached the client; whether it went away |
| `child` | the forked process: where it is in `_restore`, the lines it has handled, its archive, its exit code |
| `log` | the lines rdiff-backup has logged to the child, and how it ended |
| `header`, `pipe`, `readers`, `writers` | the status line and the files in the pipe; which processes hold which end |
| `tmp` | the temporary directory |

`Fork` gives the child every descriptor the server has open, of other downloads too,
which the code relies on nowhere and never closes.  A file is an element of the archive
(`tar`, `zip`) or the one file of a raw download; what `addfile` skips is `LeaveOut`, and
its exceptions, which the code swallows, `AddToBrokenPipe`.  `LineReady` is
`_yield_previous_lines`: a line is handled when the next one, or the end, is there.

Between the archive and the pipe stand the buffers of `os.fdopen(wfile, 'wb')` and of the
archivers, together `buffer`, with room for `BufferSize` files.  The status line is the first
thing written there (`told` once it has left them), before the first file.  `AddFile` puts a
file in the archive and in the buffers; `SendHeader` and `Drain` move what was written on to
the pipe while a write is under way (`Writing`), in its order and at moments nobody knows;
`CloseArchive` needs them empty (`Drained`) and, where the archive ends with bytes of its own
(`HasTrailer`), a pipe with room.  A child that is killed, or whose close raises, loses what
is in its buffers.  Where there is no archive the status line says so and is flushed at once.

The refinement maps `thread` to `phase`, the archive of the child to `archive` and a child
that was killed to `broken`; `Download` allows the end of a broken archive to be lost, and
nothing else.  Everything else of `RestorePipe` is a stutter of `Download`.

### DiskUsageScan

`rows` is the table, by repository and folder; `disk` what du would print.  `job` is the
scan that holds the lock: the repositories left, the lines du has not printed (`todo`),
the line that was read (`got`).  `fresh`, `changed` and `faulty` are history: the rows this
scan wrote, whether the disk or the record changed under it, whether du or the database
failed it.  `pending` are the jobs of the scheduler: the daily one and the one `start`
adds when there are no rows.  Time has instants of a fraction of a second, because the
column `LastUpdated` has whole seconds and the cut-off has not.  The lock's owner stops
with the server (`Restart`).  The order of du's lines is any; the error messages are left out.
With `ForeignKeys` the deletion of a repository takes its rows and the database refuses a
row without its repository (`Accepted`), which the scan survives; without, as SQLite runs,
the rows stay.

### RepoStatus

`marks` are the `current_mirror` files with their process ids, `stats` the
`session_statistics` files, `backup` what rdiff-backup is doing, `running` the process ids
under which the system runs an rdiff-backup.  `job` is `notification_job` computing the status
of one repository after the other: the listing of the directory, then a look at each marker
and its process, then the age.  `seen` is history: what was true of the repository
(`TrueHealth`: it cannot be read, a backup runs, the last one was interrupted, or none of
these) at the listing and at each change since (`See`).  A first backup that was killed was
interrupted like any other, whatever the code tells of it.  `Slice` is
`MetadataDict.__getitem__`, with what it does to bounds that are no `RdiffTime`; `ActiveDays`
is `_count_active_days` with its full weeks and rest; `RemoveOlder` the job of
`remove_older.py` with the days it computes.  A day has `PerDay` instants and there are no
time zones.

### AccountChanges

A form is a sequence of operations (`Set`, `Add`, `Do`, `SetPw`, `CheckPw`, ...): what
`populate_obj` does to the objects of the thread's session, or what a request of the API
does, from `_checkpassword` to the commit.  `new` is what the session holds and has not
flushed, `tx` what the transaction wrote, `tasks` what the listeners lined up.  `Flushed`
is a flush with the listeners of `_user.py`, `_token.py`, `_sshkey.py` and `create_messages`;
`set_password` flushes before its query.  `Fails` is the rollback of `save_to_db` or the end of
the request.  One thread writes at a time (`writer`), as SQLite has it.  `owed` counts the
commits for which a mail is due less the mails sent.  The names of attributes stand for
the kinds of listeners: `email`, `password`, `mfa`; a key and a token are objects with a
name (no name is that of an attribute too, and no key that of a token).  `Over` lays newer
values over older ones: a flush over what the transaction wrote (`Written`), a commit over
the row.  Login, codes and the expiry of sessions belong to a library outside the repository.

### RepoTree

`mirror`, `incs`, `markers` are the directory, its increments and the `current_mirror` files;
`history` is what the directory was at each backup that is kept, which only the properties
read.  rdiff-backup marks its date, then for each entry it changes writes the increment and
patches the mirror, and ends by removing the older marker.  `Interrupt` leaves what was done,
with two markers, and nobody at work; the next rdiff-backup undoes it (`Regress`).  A page
looks at the disk in the order of its code (`Looks`): the browser at the markers, at their
contents for the status, at the directory and at the increments; the history page at the
directory, the increments, the markers.  When a marker is gone by the time the
browser opens it the status is "failed" (`_repo.py:421`) and the page lists nothing
(`page_browse.py:47`): `failed`.  `had` and `quiet` are history: what could be restored all
the time since the request began, and whether nobody wrote then; a repository that was
interrupted and is not yet undone is quiet.

Deletion of an entry is the job of `delete_repo_path`.  `DeleteRefused` is an entry that is
gone, a lock that is held, a command that does not start. rdiff-backup-delete works on the
mirror and on one increment after the other, under the lock; it exits with 0 when nothing is
left (`DeleteExits`) or half-way (`DeleteFails`, which leaves the entry in `damaged`), and
lets the lock go.  `TellEnd`, the message, is a step of its own: another backup may run in
between and make the entry anew.  `asked` is history: the last backup when the deletion was
asked for.  One directory stands for all: an entry that is a directory is a version like any
other.

### SchemaUpdate

`Script` lists the `after_create` listeners in the order they are registered; `pc` is the
listener the update is at.  `db` is what the connection sees, `saved` what is on the disk: on
SQLite a change of the schema is saved at once unless a transaction is open, which only a
change of data opens; on PostgreSQL the whole update is one transaction (`Execute`).  A column is
missing, there with NULLs, with its default, or carried over from older columns; one stands
for those the code treats alike.  `Kill` may come at any statement, `Stop` is a listener
that raises, and between two starts the server is used: users, addresses and repositories
are added.  `before` and `last` remember what this start found and what the last complete
one left.  `update_repo_schema` removes nested repositories in a loop over all records in
the order of their user and path, in which the record looked at is compared with the last
one that was kept.  `Kept` says which places of that list remain by what each place has
to do with the last kept one before it, instead of running the loop: the first remains, and another
exactly when the last that remains before it does not cover it.

## 3. Runs

| Run | Checks | Bounds |
|---|---|---|
| `lifecycle_unique` | `TypeOK`; `NoOrphanRepo`; `OnlyScheduledDataIsDeleted`; `WalkLeavesOneRecord` | 1 user, 1 root, 2 paths, 2 request threads, 2 jobs, 4 requests, 2 records, 1 restart, 1 fault, foreign keys |
| `lifecycle_completes` | `DeletionInProgress`; `DeletionCompletes` (fair) | 1 user, 2 roots, 1 path, 2 request threads, 2 jobs, 4 requests, one of which may change the root; no restart or fault |
| `dircache` | `TypeOK`; `FreshWhenMtimeMatches`; `RegularListing`; `StaleIsRefreshed` (fair) | 2 directories, 1 name, 1 request thread and the background thread, batch of 1, 2 changes |
| `notification` | of `RepoStatus`: `TypeOK`; `StatusIsTrue`; `OverdueIsCounted`; `KeepdaysAreKept`; of `ReportSchedule`: `EveryOtherPeriod`; `NoDayReportedTwice`; `WholePeriod` | 1 repository, 2 process ids, 2 settings, 3 increments, 7 days, backups until day 4; 65 days from January to March, all preferences, 1 fault |
| `server_start` | of `SchemaUpdate`: `ServedIsUpdated`; `UniqueWhenServing`; `CarriedOver`; `SecondStartIsIdle`; `RemovedAreCovered`; of `AuthorizedKeys`: `FileIsCurrent`; `BoundToBaseDir` | 2 users, 3 repositories on 3 paths, 3 starts, 2 edits, databases of three ages, both engines; 2 accounts, 2 keys, 1 directory outside, 2 threads and the start, 4 commits, 1 fault, 1 restart |
| `restore` | `SuccessIsComplete`; `RemovedUnlessCut`; `ImplementsDownload` (refinement); `ThreadIsFreed` (fair) | 2 downloads, a directory as tar and a file as zip, 2 files each, buffers for 1 file, a pipe for 1 file, 1 fault |
| `disk_usage` | `FreshRowsAreKept`; `ScanIsAccurate`; `LockIsReleased` (fair) | 1 repository, 1 folder, 6 instants of half a second, 2 changes, 1 fault |
| `account` | `TypeOK`; `MailsAreTrue`; `AuditMatchesAccount`; `OnlyWhatWasAsked`; `OthersAreLoggedOut` | 1 account, 2 threads, 2 addresses, 2 passwords, 1 token, 1 key |
| `repo_tree` | `NothingIsHidden`; `EveryVersionIsOffered`; `OfferedDatesRestore`; `DoneMeansGone` | 2 names of which one may be deleted, 2 versions, 1 request, 3 backups, each of which changes 1 entry |
| `report_promised` | `EveryPeriod` is violated | as in `notification` |
| `status_interrupted` | `InterruptedIsTold` is violated | 1 repository, 2 process ids, 3 days |
| `repo_unmailed` | `OverdueIsMailed` is violated | 2 repositories, 2 days |

`notification` and `server_start` each explore two modules that share no variable, the one while
the other rests in an initial state (`MCNotification`, `MCServerStart`).

**Why the bounds are enough.**  A deletion meets what can disturb it in pairs: two deletions of
the same record, a deletion and a refresh, a job and a request that holds an old snapshot; two
jobs and four requests contain every pair and the AddUser, refresh, delete, refresh sequences
that reuse a path.  In `lifecycle_unique` two walks of the same user overlap, beside jobs, a
restart and a fault; in `lifecycle_completes` a user may move to a second root while his
deletion is pending.  That a user moves under a restart, a fault and foreign keys is in no
run; the theorems of section 5 are about all of it.  Listings of different directories share
nothing but the order of the table, so one name is enough for a call to see, miss or lose it,
and two directories, one for each cycle, for a round robin that leaves one out.  The key file
is disturbed by two rewrites at a time; four commits create two users, give one a key and
change him while both are written.  The winter months have a change of 31 to 31, 31 to 28 and
28 to 31 days.  Two downloads are what it takes for a child to inherit the pipe of another,
and a pipe and buffers of one file each are full after one file and empty after the next, so
that a file can be lost with the child, and another be on its way, while the first arrives.  A
scan needs an instant between two seconds for the rounding, a row old enough to be deleted by
the next scan, and a change before and one during a scan; the repositories it goes through
share nothing but the lock, and that is proved for any number of them.  A week has every
weekday once, and the two settings ignore adjacent and scattered days; the second process id
is the one that is used again; whether a backup changed anything decides only what
`repo_unmailed` shows is never computed.  Two entries of a directory are one that is deleted
and one that is changed or read beside it; three dates are a first backup, one that is removed
or interrupted, and one that follows.  Three starts are one that is killed, one that finishes
and one that finds nothing to do.  The settings of `account` leave out the combinations of the
password form with others and the forms that set several attributes of a profile at once,
whose parts are all there one by one; the model would allow them.  The safety results do not
rest on the bounds: they are proved for all of them, in section 5.

Symmetry is used in the runs that check invariants and action properties only, never
with liveness.

**Deadlock.**  `account` checks for it: some thread can always go on.  The other
configurations say `CHECK_DEADLOCK FALSE`, because their bounds are spent: the requests
have been made, the downloads are over, the calendar ends, the time and the dates are
used up, the starts are over.  That nobody waits for ever in the middle is what the
liveness properties say.

**Fairness.**  All of it is weak, and about threads and processes that have something to
do and are not stopped:

* `RepoLifecycle!FairSpec`: the steps of a request in progress and of a job; CherryPy's
  threads and the scheduler's run until they return.
* `DirCache!FairSpec`: a call in progress, and the background thread, which a Monitor
  wakes up every minute.
* `RestorePipe!FairSpec`: the thread that serves, the child, rdiff-backup.  A client that
  stays reads.
* `DiskUsageScan!FairSpec`: the step of the scan (du ends, a query returns) and the jobs
  of the scheduler that were started.

Nobody has to make a request, change a directory, write a backup, go away or fail.

### What the violated properties show

`repo_unmailed`: `_is_inactive` asks for the statistics of the last `inactivity_period`
days with a slice (`core/model/_repo.py:389`) whose bounds are `datetime` objects.
`MetadataDict.__getitem__` (`core/librdiff.py:765-772`) translates bounds that are
`RdiffTime` and hands any others to the list, which raises a TypeError.
`notification_job` catches it for the user as a whole (`core/notification.py:338`), so that
he is told of none of his repositories, the overdue ones included, while the class promises
to "Send email notification when a repository get too old" (`core/notification.py:63`).

`report_promised`: on the evening after a report was sent, the last one is younger than the
midnight the next period starts with, and `send_report` returns False
(`core/notification.py:443`).  The preferences say "Daily - Receive a report every day.",
"Weekly - Receive a report every Monday morning." and "Monthly - Receive a report on the
first day of each month." (`controller/page_pref_notification.py:36-38`); TLC shows a daily
report that is sent on every second day, with no evening that failed.  What the code does
guarantee, a report in every other period, is `EveryOtherPeriod`.

`status_interrupted`: a repository whose first backup was killed has no `current_mirror` file
and nobody at work, and `status` says "in_progress" (`core/librdiff.py:1174`), under a comment
by which "if the last backup date is undefined, this mean the first initial backup was
interrupted" (`core/librdiff.py:1172-1173`).

### Further disagreements met while modelling

Each can be seen with a change of a configuration or follows from the lines given.

* *Lifecycle.*  The mark of a deletion is committed, then the job is handed to a scheduler that
  lives in memory (`_repo.py:286`); after a restart nothing looks for marked records, and the
  page says "Deletion in progress..." (`_repo.py:414`).  Set `MaxCrashes = 1` in
  `lifecycle_completes.cfg`.  The same happens without a restart when the COMMIT of the job
  fails, or, with foreign keys, when a refresh adds a record while `delete_user_with_data`
  runs (`ForeignKeys = TRUE`).  Two overlapping refreshes both find a new repository and both
  add it (`_user.py:454-457`), which `WalkLeavesOneRecord` allows for a record inserted during
  the walk and for no other; the next removing walk or start removes one of the records.  A
  job takes the directory it removes from the root the user has when it starts
  (`_repo.py:85`), so that after a change of the root the path below the new one goes, which
  `OnlyScheduledDataIsDeleted` does not tell from the one below the old.
* *Directory cache.*  `if last_path` (`dircache.py:123`) moves the index only if a path of the
  batch had to be read; with more directories than `max_refresh_per_cycle`, a batch of
  unchanged ones is looked at in every cycle and the others never are.  The run has such a
  batch, and `StaleIsRefreshed` without its disjunct `PassedBy` is violated.
  `keys_now.index(last_path)` (`dircache.py:126`) raises when a request removed the path
  meanwhile, against the comment above it, and the thread ends: the disjunct `cycle = Dead`.
* *Key file.*  Two rewrites that overlap leave a mixture of both, and one that fails leaves an
  empty file (`minarca.py:263`), until the next change or start; `FileIsCurrent` is about what
  is left when the last one was alone and did not fail.
* *Restore.*  Two children hold each other's read ends, "Child - Close unused end"
  (`restore.py:271`) closes its own only, and each can wait for a reader that will never come.
  `exit_status >> 8` (`restore.py:174`) is 0 for a killed child, so that a truncated archive,
  without the files that were in the buffers, leaves no error in the log.  A RestoreException
  leaves a child nobody waits for (267), and a client that goes away leaves the temporary
  directory.
* *Disk usage.*  A folder that is gone from the mirror but has increments keeps the size of
  its mirror; a du that dies lets the rows it did not reach be deleted; clocks of the
  server and the database that differ by more than the margin of a second do the same.
* *Status.*  The names of session files are sorted as text, also across a change of daylight
  saving time.  A marker that is removed between the listing and the look gives "failed", a
  backup that begins or ends then "failed" or "interrupted", a process id that is used again
  "in_progress"; `StatusIsTrue` names these cases and allows no others.
* *Files.*  A backup that ends while a page reads makes the page say "failed" and list nothing
  (`page_browse.py:47`).  Until an interrupted backup is undone its date is offered
  (`librdiff.py:1035`) and restores nothing, and undoing it may hide an entry from a page
  being read; names that begin with `rdiff-backup-data` are listed and refused; a deletion
  gives no message when the record of the repository is gone.
* *Schema.*  See the exceptions in `CarriedOver` and `UniqueWhenServing`: a server killed
  before the role is filled leaves it (`_user.py:600`), and on SQLite the table of
  users is made again without `user_username_index` (`_user.py:681` after `:647`).  Of `a`,
  `a-b` and `a/c` the nested one stays, because it is compared with its neighbour only
  (`_repo.py:513`).
* *Accounts.*  The scope `admin_write_user` is offered (`page_pref_tokens.py:72`) and
  `admin_write_users` required (`page_admin_users.py:670`).  The forms of an administrator for
  the tokens of a user are refused by `disable_ssh_keys` (`page_admin_users.py:467`).  A
  listener that raises makes `save_to_db` return False for what is committed.  The log
  says "activated" of a second factor that was disabled (`notification.py:246`).  A refresh
  is committed by the page only if it added something (`page_home.py:122`), and never by the
  page of the administrator.

## 4. Mutants

Each property of a passing run has a definition beside the one the model uses, marked
`Mutant:`, that a plausible bug would turn it into: primary keys that are reused, an UPDATE
whose row count is not looked at, a listing published although the directory changed, a
month of thirty days, a file archived before rdiff-backup has finished it, an archive closed
without a flush, a write end that
stays open, a cut-off without its margin, a lock released on success only, looks at the
disk in the other order, tasks that survive a rollback, an index created before the
duplicates are gone.  With it the property fails.

## 5. Theorems

All are for any values of the constants that satisfy the named ASSUMEs: bounds are natural
numbers, sets of processes are disjoint, the threads of `AccountChanges`, the directories of
the cache and the records of `SchemaUpdate` are finitely many, the calendar has months of 28
to 31 days, the older databases are sound.  TLC evaluates them in every run.

**RepoLifecycleProofs.**  `TypeInvariant`.  `LoggedKeys`, `Spec => []KeysAreLogged`, is the
inductive invariant of the deletion argument.  A job keeps only a primary key between the
request and the removal of a directory, so the argument has to follow that key: through
the form that was validated, the callback registered with the transaction, the pending job
and the running one.  At each of these places the key is at most `lastRow`, the record it
has, if there still is one, has the owner and the path that were logged, and the log says
that a deletion was scheduled.  `PersistentStep` shows that no step changes the owner or
path of a record or lowers `lastRow`; `Stable...` carry each conjunct over a step that does
not touch its thread or job, and one lemma for each group of actions treats the one it
does.  `ScheduledDeletions`: only `RemoveTree` shrinks `disk`, and its path is condemned.
`NoOrphans`: inserts need a live owner, and a user goes only with all his records.

`OneRecord`, `Spec => WalkLeavesOneRecord`, with any number of walks at once.  `ScansSee` is
the reason: records are numbered in the order they are inserted, so a walk has loaded every
record of its user that is not younger than itself (`since`), unless it is gone, and no other
walk, job or request changes the path or the owner of one.  When it commits, a path found has
either a record it loaded, and then it adds none, or one younger than the walk
(`ScanLeavesOne`).

One property does not hold of every behaviour (section 3), and its theorem says of which it
does:

* `InProgress`, `Spec /\ [][JobsEnd]_vars => []DeletionInProgress`, where `JobsEnd` excludes a
  restart, a job whose commit fails and one the database refuses.  These three, and no other
  order of requests and jobs, leave a record marked without anybody at work on it.  `Noted`
  says that a form marks only what its callback will be about (records of its user, or the one
  it names), and that a user who has records is there already, so that no account created
  later makes an abandoned mark count again.  `Pursued` is then handed on from the callback to
  the pending job to the running one (`PursuitHandedOn`), and a job that is abandoned had lost
  its target, because its key still stands for the record that was logged (`LoggedKeys`).
  `InProgressWithoutFailures` is the case of the run.

**DirCacheProofs.**  `FreshListings`: the invariant `Right` says of every directory that a
listing carrying its present mtime has its names, and of every call between its two `lstat`
that, if the mtime has not changed since the first, what was found so far is what the
directory holds of the names passed.  It is needed because a listing is published from values
read several steps earlier.  `RegularListings`, on top of it: `Heard` says that what a call
found so far lies between the names its directory had all the time since the call began and
those it had at some time, and `Held` that a listing of a modification time that is past is
held for ever, so that the one a call may take from the table is of that kind.
`TypeInvariant` has in it that the order of the keys never has a path twice or one that is not
in the table (`Keyed`), and that the background thread is in a call only while its batch has a
path (`Awake`), so that what it takes from the batch is one.

**NotificationProofs**, the two jobs of `core/notification.py`.  Of `RepoStatus`:
`TypeInvariant`; `Status`, that what is told was the case at some moment of the computation,
but for the false alarms that are named; `Keepdays`; and `Counted`.  `Files` relates the
markers and the statistics of a repository, `AtWork` the markers and the backup that runs or
was interrupted, `Distinct` says that two backups do not run under one process id, and
`Witness` what the job knows: each status it can still conclude from the markers it listed and
those it has passed was the case at some moment it has `seen`, or is one of the false alarms
the property names.  `Counted` is that the arithmetic of `_count_active_days`, full weeks
times the days that count in a week plus a loop over the rest, is the cardinality of the set
of days that count.  A week more adds seven days with each weekday once (`OneWeekMore`), and a
least number of weeks for which the two differ would have one less for which they do.  Of
`ReportSchedule`: `ReportTypes`; `ReportsWhole` and `ReportsDisjoint`, for every calendar and
sequence of preferences; `ReportsRegular`, a report in every other period at least, each
failed evening delaying it by a day.  `Months`, `Weeks` and `Periods` establish the arithmetic
of the three kinds of period; the invariant `Remembered` relates the last report to
`lastSent`, and `InTime` bounds how long ago it was.

**AccountProofs**, the changes of an account and the file that follows them.  Of
`AccountChanges`: `Types`, `Audit`, `Mails`, `AskedFor`, `LoggedOut`, for any number of
threads and any forms.  The invariant says of the tables that they agree with the log
(`Account`), and of every request at work (`Content`) that what its session holds and what its
transaction wrote was asked for by its form, that its messages are those of its statements,
that its list of tasks has each mail it is worth once, and that what is left of the form
is about something else; `Revoked` that after the new password no session is left but those
on the list to be deleted.  A thread that publishes has nothing but its tasks, and an idle one
nothing at all: that is what a failed form would break if the session were not rolled back.
`Owed` counts, for each kind of mail, the threads that still have it to send.
Of `AuthorizedKeys`: `TypeCorrect`; `KeysStayInBaseDir`, from an invariant that also
speaks of the roots in the table, since a line is made of one read earlier; and
`FileFollowsDatabase`.  `FileIsCurrent` is about the moments at which no callback is left,
so `CurrentInv` says what makes such a moment come out right: while nothing was
disturbed one thread at most rewrites (`Sole`), and either a callback is due, or the
rewriting thread has read what the table holds now, or nobody rewrites and the file is
right (`Settled`).

**RestorePipeProofs.**  The invariant says, for each download: where the child may be while the
thread is where it is (`Control`), who holds which end of the pipe (`Ends`), what the header
says of the child (`Status`), that what was archived is what the client has followed by what
is in the pipe and in the buffers of the child, and that a child which finished without being
killed has left nothing in them (`InOrder`), and when the temporary directory is there
(`Removal`).  A step for one download takes at most a descriptor to another, which
`OthersSame` isolates.  `Removed` follows.  `Success` needs to know of rdiff-backup's log as
well (`Logged`): how many lines there are and how many were handled, that a file archived
before it was complete means a failure, and that a child which left its loop without reporting
one has handled them all.  `Refinement` maps every step to one of `Download` or to a stutter:
only `SendChunk` makes the body longer, by what `InOrder` says is next; a step from the
buffers to the pipe changes nothing a client can see; and the end of file is seen only when
the child, and every other process that has the write end, has let go of it, which is `Ends`.

**DiskUsageScanProofs.**  `FreshRows` and `Accurate`.  The invariant says that a scan began
at least the margin ago (`Begun`), that the line it is about to store is what du would
print now if nobody changed the folder since (`Got`), and that each line visited has its
size in a row of this scan (`Stored`).  `Accurate` then needs that pruning spares
those rows, which is `FreshRowsAreKept`.

**RepoTreeProofs.**  `Complete`: the invariant describes the disk: which markers there are
while a backup runs, was interrupted or is over (`Backups`), that rdiff-backup writes the
increment of an entry before it patches the mirror (`AtWork`), that each version of a backup
that is kept is on the disk (`Restorable`); and each request: what it has seen or can still
see of every entry that could be restored all the time, or that its status failed and somebody
wrote (`Knows`).  The order of the looks, mirror before increments, is what makes it hold: an
entry leaves the mirror after its increment is there.  `Offered` and `OffersRestore` are the
two halves of what `change_dates` computes for a page nobody wrote under.  `Exact` says of the
increments of an entry that is whole that each tells the truth about the backup of its date,
that two kept backups with different versions have one in between, and, unless a backup has
changed it since, that the mirror is the last backup; `IsTrue` that the page has seen these.
The first increment since a version then has that version, and without one the mirror does.
`DoneIsGone`: `Deleted` follows an entry from the exit of rdiff-backup-delete to the message
(`Erased`): what there was of it when the deletion was asked for is gone, and what a backup
makes of it in between is younger than that.

**SchemaUpdateProofs.**  `Updated`, `Unique`, `AllCarriedOver`.  `Cols` says for each column in
which states it may be before and after the listener that treats it, `Indexes` which indexes
and constraints the update has got past, `Open` when there is a transaction, and both are said
of the database on the disk as well (`Whole`), since a start can be killed and the next begins
from there.  `Covered` and `SecondStart` are about the removal of nested repositories, for any
tables of records and any order of paths in which one that is below another comes later.  A
list sorted by user and path has each record once (`Listed`), and what covers a record
precedes it in every such list (`Order`).  `Covered`: a record that was not kept is covered by
the last one kept before it.  `SecondStart`: of two kept records, one of which covers the
other, the first is not the last kept before the second, or the second would have gone, so
that another of the user remains in between (`KeptPair`, `Settled`); of a table of that kind
the next removal, sorted in whatever order the users then come, finds nothing to remove
(`NothingToRemove`), by looking at the first record it would take.

## 6. Only model-checked

Liveness: `DeletionCompletes`, `StaleIsRefreshed`, `ThreadIsFreed`, `LockIsReleased`.
Fairness is defined by ENABLED, which the proof system does not treat.  Everything else that a
passing run checks is proved; `DeletionInProgress` under the condition
of `InProgress`, without which it is false.

The type invariants of `ReportSchedule` (`ReportTypeOK`), `AuthorizedKeys` (`KeysTypeOK`),
`RestorePipe`, `DiskUsageScan`, `RepoTree` and `SchemaUpdate` are proved and are not checked
by a run; so is `KeysAreLogged`.

## 7. Not modelled

* *Quota* (`quota.py`): runs a command and reads its output.
* *Minarca shell, jail and identity*: set up namespaces and directories of the operating
  system, once for each connection, and keep nothing.
* *Login and the codes of the second factor*: `cherrypy_foundation` keeps the state of a
  login in the session; it is not part of the repository.  What rdiffweb decides, which
  sessions and tokens are valid and which scopes suffice, is in `AccountChanges`.
* *Parsers*: dates, file names of increments, statistics, the configuration, and what
  rdiff-backup prints.  They are functions of one input, within the reach of unit tests.
* *Other pages*, templates, graphs, translations and packaging render what the models hold.
* *The check for a new release* (`check_latest_job`) remembers the last version in memory
  and sends a mail.
* The depth limit of the walk, and repositories inside others on the disk.

Assumptions not stated in a module: two changes of a directory have different modification
times, one clock for all hosts but where `DiskUsageScan` rounds, no time zones, a file
system that does what it is asked but where a fault says otherwise.

Hazards known and not covered by a property: a directory that cannot be read makes the
repositories below look gone (`_user.py:434`); the handler of a failed `delete_repo` reads
a name before it is bound (`_repo.py:91`); `rmtree` may fail and leave data behind a
deleted record (`librdiff.py:866`); a child is forked from a thread of a server whose other
threads may hold locks (`restore.py:257`); two changes of a directory within a tick of the
file system's clock (`dircache.py:71`); the second factor is checked in several requests
(`page_mfa.py:80`).
